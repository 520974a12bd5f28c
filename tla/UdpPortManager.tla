--------------------------- MODULE UdpPortManager ---------------------------
(***************************************************************************)
(* The UDP port allocator of the server (signaling/port_mgr.cpp).          *)
(*                                                                         *)
(* The ports Start, Start+Step, ... below End are kept in an array that is *)
(* consumed from index curr upwards.  A port that is given back is         *)
(* appended to a second array; only when the first array is used up are    *)
(* the returned ports copied back into its tail.                           *)
(*                                                                         *)
(* The actions take the port that the C++ function returns or receives as  *)
(* a parameter, so that the modules that call the allocator can conjoin    *)
(* them with their own steps.                                              *)
(***************************************************************************)
EXTENDS Integers

CONSTANTS Start,  \* udp_port_start of the configuration file
          End,    \* udp_port_end
          Step    \* udp_port_step

(***************************************************************************)
(* JuanSfu::init asserts port_end > port_start and step > 0, and a zero    *)
(* udp_port_start would make the first port equal to the failure value.    *)
(***************************************************************************)
ASSUME PortRange ==
  /\ Start \in Nat /\ Start > 0
  /\ End \in Nat /\ End > Start
  /\ Step \in Nat /\ Step > 0

(* _max: how many ports the range holds. *)
Max == (End - Start) \div Step

(* Mutant: the step is forgotten. *)
PortNoStep(i) == Start + i

Port(i) == Start + i * Step

Slots == 0 .. (Max - 1)

Pool == { Port(i) : i \in Slots }

(* What allocate_port returns when it has no port. *)
NoPort == 0

VARIABLES port_array,      \* _port_array
          port_array_rec,  \* _port_array_rec
          curr,            \* _curr
          recycle          \* _recycle

pmVars == <<port_array, port_array_rec, curr, recycle>>

PmInit ==
  /\ port_array = [i \in Slots |-> Port(i)]
  /\ port_array_rec = [i \in Slots |-> 0]
  /\ curr = 0
  /\ recycle = 0

(***************************************************************************)
(* allocate_port.  The refill loop writes port_array[--curr] for each      *)
(* recycled port in turn, so the port recycled last is handed out first.   *)
(***************************************************************************)
AllocateFromArray(port) ==
  /\ curr < Max
  /\ port = port_array[curr]
  /\ curr' = curr + 1
  /\ UNCHANGED <<port_array, port_array_rec, recycle>>

Refilled ==
  [i \in Slots |-> IF i \in curr - recycle .. curr - 1
                   THEN port_array_rec[curr - 1 - i]
                   ELSE port_array[i]]

TakeRefilled(port) ==
  /\ curr >= Max
  /\ recycle > 0
  /\ port_array' = Refilled
  /\ port = port_array'[curr - recycle]
  /\ curr' = curr - recycle + 1
  /\ UNCHANGED port_array_rec

(* Mutant: the recycled ports are not marked as taken back. *)
AllocateAfterRefillNoReset(port) == TakeRefilled(port) /\ UNCHANGED recycle

AllocateAfterRefill(port) == TakeRefilled(port) /\ recycle' = 0

AllocateNothing(port) ==
  /\ curr >= Max
  /\ recycle = 0
  /\ port = NoPort
  /\ UNCHANGED pmVars

(* Mutant: a used up array is final, the recycled ports are not looked at. *)
AllocatePortNoRefill(port) ==
  \/ AllocateFromArray(port)
  \/ curr >= Max /\ port = NoPort /\ UNCHANGED pmVars

AllocatePort(port) ==
  \/ AllocateFromArray(port)
  \/ AllocateAfterRefill(port)
  \/ AllocateNothing(port)

Store(port, i) ==
  /\ port_array_rec' = [port_array_rec EXCEPT ![i] = port]
  /\ recycle' = recycle + 1
  /\ UNCHANGED <<port_array, curr>>

(* Mutant of recycle_port: the limit is off by one. *)
RecyclePortLimitLow(port) ==
  IF recycle + 1 >= Max THEN UNCHANGED pmVars ELSE Store(port, recycle)

(* recycle_port: a port that does not fit any more is dropped. *)
RecyclePort(port) ==
  IF recycle >= Max THEN UNCHANGED pmVars ELSE Store(port, recycle)

(* The ports the allocator can still hand out. *)
Unused == { port_array[i] : i \in curr .. Max - 1 }
Returned == { port_array_rec[i] : i \in 0 .. recycle - 1 }
=============================================================================
