------------------------------ MODULE PortPool ------------------------------
(***************************************************************************)
(* What the port allocator promises to callers that give back each port    *)
(* once: every port is either free or held, a call returns some free port, *)
(* and it returns NoPort exactly when none is left.                        *)
(***************************************************************************)
CONSTANTS Pool, NoPort

VARIABLES free, held,
          result   \* what the latest allocate_port returned

poolVars == <<free, held, result>>

PoolInit ==
  /\ free = Pool
  /\ held = {}
  /\ result = NoPort

Take(p) ==
  /\ p \in free
  /\ free' = free \ {p}
  /\ held' = held \union {p}
  /\ result' = p

Exhausted ==
  /\ free = {}
  /\ result' = NoPort
  /\ UNCHANGED <<free, held>>

Give(p) ==
  /\ p \in held
  /\ held' = held \ {p}
  /\ free' = free \union {p}
  /\ UNCHANGED result

PoolNext ==
  \/ \E p \in Pool : Take(p) \/ Give(p)
  \/ Exhausted

PoolSpec == PoolInit /\ [][PoolNext]_poolVars
=============================================================================
