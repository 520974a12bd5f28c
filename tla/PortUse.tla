------------------------------ MODULE PortUse -------------------------------
(***************************************************************************)
(* The port allocator with callers that keep its contract: a call of       *)
(* allocate_port that returns a port makes the caller its holder, and only *)
(* a held port is recycled, once.  RoomMember keeps this contract as long  *)
(* as a member starts to receive once and the pool has a port for it;      *)
(* module Sfu has the callers as they are.                                 *)
(***************************************************************************)
EXTENDS UdpPortManager, FiniteSets

VARIABLES held,    \* ports that were returned and not yet recycled
          result   \* what the latest allocate_port returned

vars == <<pmVars, held, result>>

Init ==
  /\ PmInit
  /\ held = {}
  /\ result = NoPort

Allocate ==
  \E port \in Pool \union {NoPort} :
    /\ AllocatePort(port)
    /\ held' = IF port = NoPort THEN held ELSE held \union {port}
    /\ result' = port

Recycle(port) ==
  /\ port \in held
  /\ RecyclePort(port)
  /\ held' = held \ {port}
  /\ UNCHANGED result

Next == Allocate \/ \E port \in Pool : Recycle(port)

Spec == Init /\ [][Next]_vars

-----------------------------------------------------------------------------
(* Types and index ranges of the allocator and the ports held. *)
TypeOK ==
  /\ port_array \in [Slots -> Pool]
  /\ port_array_rec \in [Slots -> Pool \union {0}]
  /\ curr \in 0 .. Max
  /\ recycle \in 0 .. Max
  /\ held \in SUBSET Pool
  /\ result \in Pool \union {NoPort}

(***************************************************************************)
(* A port that allocate_port will hand out later, from the array or after  *)
(* the refill, is in no caller's hands, and no slot repeats one: two       *)
(* receivers are never bound to the same port.                             *)
(***************************************************************************)
NoPortTwice ==
  /\ Unused \intersect Returned = {}
  /\ held \intersect (Unused \union Returned) = {}
  /\ \A i, j \in curr .. Max - 1 : port_array[i] = port_array[j] => i = j
  /\ \A i, j \in 0 .. recycle - 1 :
        port_array_rec[i] = port_array_rec[j] => i = j

(***************************************************************************)
(* No port is lost: recycle_port never meets a full array, the refill      *)
(* never runs below slot 0, and every port of the range is held, waiting   *)
(* in the array or recycled.                                               *)
(***************************************************************************)
NoPortLost ==
  /\ held \union Unused \union Returned = Pool
  /\ recycle <= curr
  /\ held # {} => recycle < Max

(***************************************************************************)
(* Each caller may use the Step consecutive ports from the one it was      *)
(* given: these blocks stay inside [Start, End) and never overlap.         *)
(***************************************************************************)
Block(p) == p .. (p + Step - 1)

BlocksDisjoint ==
  /\ \A p \in held : Block(p) \subseteq Start .. (End - 1)
  /\ \A p, q \in held : p # q => Block(p) \intersect Block(q) = {}

(* What is held is what was taken and not given back. *)
Counted == IsFiniteSet(held) /\ Cardinality(held) = curr - recycle

(* The inductive invariant of the proofs. *)
IInv == TypeOK /\ NoPortTwice /\ NoPortLost /\ Counted

(***************************************************************************)
(* The allocator implements the pool: allocate_port returns a free port,   *)
(* and 0 only when every port is held.                                     *)
(***************************************************************************)
Abstract == INSTANCE PortPool WITH free <- Unused \union Returned

ImplementsPool == Abstract!PoolSpec
=============================================================================
