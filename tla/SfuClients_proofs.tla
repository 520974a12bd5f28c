------------------------- MODULE SfuClients_proofs --------------------------
(***************************************************************************)
(* What clients can do to the server, whatever they send.                  *)
(*                                                                         *)
(* The ports, for every port range: repeated offers leave sockets bound,   *)
(* and answers with port 0 are given back like a port.                     *)
(*                                                                         *)
(* Who is sent whose media, and what can bring the server down:            *)
(* RtcStreamMgr knows a user by its uid alone and by the transport it used *)
(* last, so that these results need users that are in one room and send    *)
(* from one address.                                                       *)
(***************************************************************************)
EXTENDS Sfu_proofs, FiniteSetTheorems

(* How many ports there are, and that 0 is none of them. *)
LEMMA PoolFits == Max \in Nat /\ NoPort \notin Pool
  <1>1. End - Start \in Nat
    BY PortRange
  <1>2. Max \in Nat
    BY <1>1, PortRange, SMT DEF Max
  <1>3. ASSUME NEW i \in Slots
        PROVE  Port(i) # NoPort
    <2>1. i \in Nat
      BY <1>2 DEF Slots
    <2>2. i * Step \in Nat
      BY <2>1, PortRange, SMT
    <2> QED BY <2>2, PortRange DEF Port, NoPort
  <1> QED BY <1>2, <1>3 DEF Pool

-----------------------------------------------------------------------------
(***************************************************************************)
(* The allocator when its callers also give back 0: the ports proper are   *)
(* still at one place each.                                                *)
(***************************************************************************)
PmTypes ==
  /\ port_array \in [Slots -> Pool \union {NoPort}]
  /\ port_array_rec \in [Slots -> Pool \union {NoPort}]
  /\ curr \in 0 .. Max /\ recycle \in 0 .. Max

PoolApart ==
  /\ \A i, j \in curr .. Max - 1 :
        port_array[i] = port_array[j] /\ port_array[i] # NoPort => i = j
  /\ \A i, j \in 0 .. recycle - 1 :
        port_array_rec[i] = port_array_rec[j] /\ port_array_rec[i] # NoPort => i = j
  /\ \A i \in curr .. Max - 1, j \in 0 .. recycle - 1 :
        port_array[i] = port_array_rec[j] => port_array[i] = NoPort

Free == (Unused \union Returned) \ {NoPort}

PoolInv == PmTypes /\ PoolApart

LEMMA InitPool ==
  ASSUME PmInit
  PROVE  PoolInv /\ Unused = Pool /\ Returned = {} /\ curr = 0 /\ recycle = 0
  <1>1. PmTypes
    BY PoolFits DEF PmInit, PmTypes, Pool, NoPort
  <1>2. Unused = Pool /\ Returned = {} /\ curr = 0 /\ recycle = 0
    BY PoolFits DEF PmInit, Unused, Returned, Pool, Slots
  <1>3. \A i, j \in Slots : Port(i) = Port(j) => i = j
    <2> TAKE i, j \in Slots
    <2>1. i \in Nat /\ j \in Nat
      BY PoolFits DEF Slots
    <2>2. i * Step = j * Step => i = j
      BY <2>1, PortRange, SMT
    <2>3. i * Step \in Nat /\ j * Step \in Nat
      BY <2>1, PortRange, SMT
    <2> QED BY <2>2, <2>3, PortRange DEF Port
  <1>4. PoolApart
    BY <1>3, PoolFits DEF PmInit, PoolApart, Slots
  <1> QED BY <1>1, <1>2, <1>4 DEF PoolInv

(* What allocate_port returns leaves the free ports, and nothing enters. *)
PoolGivesFacts(port) ==
  /\ PoolInv'
  /\ (Unused \union Returned)' \subseteq Unused \union Returned
  /\ Free' = Free \ {port}
  /\ port # NoPort => port \in Free /\ curr' - recycle' = curr - recycle + 1

LEMMA FromArrayGives ==
  ASSUME PoolInv, NEW port, AllocateFromArray(port)
  PROVE  PoolGivesFacts(port)
  <1>0. /\ Max \in Nat /\ curr \in 0 .. Max - 1 /\ curr + 1 \in 0 .. Max
        /\ recycle \in 0 .. Max /\ curr \in Slots
        /\ port = port_array[curr] /\ curr' = curr + 1
        /\ port_array' = port_array /\ port_array_rec' = port_array_rec
        /\ recycle' = recycle
    BY PoolFits DEF PoolInv, PmTypes, AllocateFromArray, Slots
  <1>1. \A i \in curr + 1 .. Max - 1 : i \in curr .. Max - 1 /\ i # curr
    BY <1>0
  <1>2. \A i \in curr .. Max - 1 : i = curr \/ i \in curr + 1 .. Max - 1
    BY <1>0
  <1>3. curr \in curr .. Max - 1
    BY <1>0
  <1>4. Unused' = {port_array[i] : i \in curr + 1 .. Max - 1} /\ Returned' = Returned
    BY <1>0 DEF Unused, Returned, Max
  <1>5. Unused' \subseteq Unused /\ Unused \subseteq Unused' \union {port} /\ port \in Unused
    BY <1>0, <1>1, <1>2, <1>3, <1>4 DEF Unused
  <1>6. port # NoPort => port \notin Unused' /\ port \notin Returned
    BY <1>0, <1>1, <1>3, <1>4 DEF PoolInv, PoolApart, Returned
  <1>7. Free' = Free \ {port}
    BY <1>4, <1>5, <1>6 DEF Free
  <1>8. PoolInv'
    <2>1. PmTypes'
      BY <1>0 DEF PoolInv, PmTypes, Slots, Max, Pool, Port, NoPort
    <2>2. PoolApart'
      BY <1>0, <1>1 DEF PoolInv, PoolApart, Max
    <2> QED BY <2>1, <2>2 DEF PoolInv
  <1> QED BY <1>0, <1>4, <1>5, <1>7, <1>8 DEF PoolGivesFacts, Free

LEMMA AfterRefillGives ==
  ASSUME PoolInv, NEW port, AllocateAfterRefill(port)
  PROVE  PoolGivesFacts(port)
  <1> DEFINE base == curr - recycle
  <1>0. /\ Max \in Nat /\ curr = Max /\ recycle \in 1 .. Max
        /\ recycle' = 0 /\ curr' = base + 1 /\ base \in Slots /\ base + 1 \in 0 .. Max
        /\ port_array' = Refilled /\ port = Refilled[base]
        /\ port_array_rec' = port_array_rec
        /\ port_array \in [Slots -> Pool \union {NoPort}]
        /\ port_array_rec \in [Slots -> Pool \union {NoPort}]
    BY PoolFits DEF PoolInv, PmTypes, Slots, AllocateAfterRefill, TakeRefilled
  <1>1. Unused = {} /\ Returned' = {}
    BY <1>0 DEF Unused, Returned
  <1>2. \A i \in base .. Max - 1 :
           /\ curr - 1 - i \in 0 .. recycle - 1
           /\ i \in Slots
           /\ Refilled[i] = port_array_rec[curr - 1 - i]
    BY <1>0 DEF Refilled, Slots
  <1>3. \A k \in 0 .. recycle - 1 :
           /\ curr - 1 - k \in base .. Max - 1
           /\ Refilled[curr - 1 - k] = port_array_rec[k]
    <2> TAKE k \in 0 .. recycle - 1
    <2>1. curr - 1 - k \in base .. Max - 1 /\ curr - 1 - (curr - 1 - k) = k
      BY <1>0 DEF Slots
    <2> QED BY <2>1, <1>2
  <1>4. \A i, j \in base .. Max - 1 :
           Refilled[i] = Refilled[j] /\ Refilled[i] # NoPort => i = j
    <2> TAKE i, j \in base .. Max - 1
    <2> HAVE Refilled[i] = Refilled[j] /\ Refilled[i] # NoPort
    <2>1. curr - 1 - i = curr - 1 - j
      BY <1>2 DEF PoolInv, PoolApart
    <2> QED BY <1>0, <2>1 DEF Slots
  <1>5. \A i \in base + 1 .. Max - 1 : i \in base .. Max - 1 /\ i # base
    BY <1>0 DEF Slots
  <1>6. base \in base .. Max - 1 /\ \A i \in base .. Max - 1 : i = base \/ i \in base + 1 .. Max - 1
    BY <1>0 DEF Slots
  <1>7. Unused' = {Refilled[i] : i \in base + 1 .. Max - 1}
    BY <1>0 DEF Unused, Max
  <1>8. Returned = {Refilled[i] : i \in base .. Max - 1}
    BY <1>2, <1>3 DEF Returned
  <1>9. /\ Unused' \subseteq Returned /\ Returned \subseteq Unused' \union {port}
        /\ port \in Returned
        /\ port # NoPort => port \notin Unused'
    BY <1>0, <1>4, <1>5, <1>6, <1>7, <1>8
  <1>10. Free' = Free \ {port} /\ (port # NoPort => port \in Free)
    BY <1>1, <1>9 DEF Free
  <1>11. PmTypes'
    <2>1. \A i \in Slots : Refilled[i] \in Pool \union {NoPort}
      <3> TAKE i \in Slots
      <3>1. CASE i \in base .. curr - 1
        <4>1. curr - 1 - i \in Slots /\ Refilled[i] = port_array_rec[curr - 1 - i]
          BY <3>1, <1>0 DEF Refilled, Slots
        <4> QED BY <4>1, <1>0
      <3>2. CASE i \notin base .. curr - 1
        BY <3>2, <1>0 DEF Refilled
      <3> QED BY <3>1, <3>2
    <2>2. Refilled \in [Slots -> Pool \union {NoPort}]
      BY <2>1 DEF Refilled
    <2> QED BY <1>0, <2>2 DEF PmTypes, Slots, Pool, Port, Max, NoPort
  <1>12. PoolApart'
    <2>1. (\A i, j \in curr .. Max - 1 :
             port_array[i] = port_array[j] /\ port_array[i] # NoPort => i = j)'
      BY <1>0, <1>4, <1>5 DEF Max, NoPort
    <2> QED BY <1>0, <2>1 DEF PoolApart
  <1>13. curr' - recycle' = curr - recycle + 1
    BY <1>0 DEF Slots
  <1> QED BY <1>1, <1>9, <1>10, <1>11, <1>12, <1>13 DEF PoolGivesFacts, PoolInv

LEMMA PoolGives ==
  ASSUME PoolInv, NEW port, AllocatePort(port)
  PROVE  PoolGivesFacts(port)
  <1>1. CASE AllocateFromArray(port)
    BY <1>1, FromArrayGives
  <1>2. CASE AllocateAfterRefill(port)
    BY <1>2, AfterRefillGives
  <1>3. CASE AllocateNothing(port)
    <2>1. UNCHANGED pmVars /\ port = NoPort
      BY <1>3 DEF AllocateNothing
    <2>2. PoolInv' /\ Unused' = Unused /\ Returned' = Returned
      BY <2>1 DEF pmVars, PoolInv, PmTypes, PoolApart, Unused, Returned, Max, Slots, Pool, Port, NoPort
    <2> QED BY <2>1, <2>2 DEF PoolGivesFacts, Free
  <1> QED BY <1>1, <1>2, <1>3 DEF AllocatePort

(* What recycle_port takes was not free; it is free afterwards unless there
   was no slot left for it. *)
LEMMA PoolTakes ==
  ASSUME PoolInv, NEW port \in Pool \union {NoPort}, port \notin Free, RecyclePort(port)
  PROVE  /\ PoolInv'
         /\ Free' \subseteq Free \union {port}
         /\ recycle < Max => /\ (Unused \union Returned)' = Unused \union Returned \union {port}
                             /\ curr' - recycle' = curr - recycle - 1
  <1>0. Max \in Nat /\ curr \in 0 .. Max /\ recycle \in 0 .. Max
    BY PoolFits DEF PoolInv, PmTypes
  <1>1. CASE recycle >= Max
    <2>1. UNCHANGED pmVars
      BY <1>1 DEF RecyclePort
    <2>2. PoolInv' /\ Unused' = Unused /\ Returned' = Returned
      BY <2>1 DEF pmVars, PoolInv, PmTypes, PoolApart, Unused, Returned, Max, Slots, Pool, Port, NoPort
    <2> QED BY <1>0, <1>1, <2>2 DEF Free
  <1>2. CASE ~ (recycle >= Max)
    <2>1. /\ recycle \in 0 .. Max - 1 /\ recycle \in Slots
          /\ port_array' = port_array /\ curr' = curr /\ recycle' = recycle + 1
          /\ port_array_rec' = [port_array_rec EXCEPT ![recycle] = port]
          /\ port_array_rec \in [Slots -> Pool \union {NoPort}]
      BY <1>0, <1>2 DEF RecyclePort, Store, Slots, PoolInv, PmTypes
    <2>2. \A i \in 0 .. recycle - 1 : port_array_rec'[i] = port_array_rec[i] /\ i \in 0 .. recycle
      BY <1>0, <2>1 DEF Slots
    <2>3. port_array_rec'[recycle] = port
      BY <2>1
    <2>4. \A i \in 0 .. recycle : i \in 0 .. recycle - 1 \/ i = recycle
      BY <2>1
    <2>5. Returned' = Returned \union {port} /\ Unused' = Unused
      <3>1. Returned' = {port_array_rec'[i] : i \in 0 .. recycle}
        BY <2>1 DEF Returned
      <3>2. recycle \in 0 .. recycle
        BY <2>1
      <3>3. Returned' = Returned \union {port}
        BY <3>1, <3>2, <2>2, <2>3, <2>4 DEF Returned
      <3> QED BY <3>3, <2>1 DEF Unused, Max
    <2>6. PmTypes'
      BY <1>0, <2>1 DEF PoolInv, PmTypes, Slots, Max, Pool, Port, NoPort
    <2>7. PoolApart'
      <3>0. recycle' - 1 = recycle
        BY <2>1
      <3>1. \A i, j \in 0 .. recycle :
              port_array_rec'[i] = port_array_rec'[j] /\ port_array_rec'[i] # NoPort => i = j
        <4> TAKE i, j \in 0 .. recycle
        <4> HAVE port_array_rec'[i] = port_array_rec'[j] /\ port_array_rec'[i] # NoPort
        <4>1. CASE i \in 0 .. recycle - 1 /\ j \in 0 .. recycle - 1
          BY <4>1, <2>2 DEF PoolInv, PoolApart
        <4>2. CASE i = recycle /\ j \in 0 .. recycle - 1
          BY <4>2, <2>2, <2>3 DEF Free, Returned
        <4>3. CASE j = recycle /\ i \in 0 .. recycle - 1
          BY <4>3, <2>2, <2>3 DEF Free, Returned
        <4> QED BY <2>4, <4>1, <4>2, <4>3
      <3>2. \A i \in curr .. Max - 1, j \in 0 .. recycle :
              port_array[i] = port_array_rec'[j] => port_array[i] = NoPort
        <4> TAKE i \in curr .. Max - 1, j \in 0 .. recycle
        <4>1. CASE j \in 0 .. recycle - 1
          BY <4>1, <2>2 DEF PoolInv, PoolApart
        <4>2. CASE j = recycle
          BY <4>2, <2>3 DEF Free, Unused
        <4> QED BY <2>4, <4>1, <4>2
      <3> QED BY <2>1, <3>0, <3>1, <3>2 DEF PoolInv, PoolApart, Max, NoPort
    <2>8. curr' - recycle' = curr - recycle - 1
      BY <1>0, <2>1
    <2> QED BY <2>5, <2>6, <2>7, <2>8 DEF PoolInv, Free
  <1> QED BY <1>1, <1>2

-----------------------------------------------------------------------------
(***************************************************************************)
(* The ports of the pool and of the sockets together.  As long as no       *)
(* answer carried port 0, what was taken and not given back is bound.      *)
(***************************************************************************)
PortsKept ==
  /\ NoPort \notin Unused \union Returned
  /\ Pool = Unused \union Returned \union BoundPorts
  /\ IsFiniteSet(BoundPorts) /\ Cardinality(BoundPorts) = curr - recycle

PortInv == PoolInv /\ PortsExclusive /\ (NeverExhausted => PortsKept)

LEMMA InitPorts == Init => PortInv
  <1> SUFFICES ASSUME Init
               PROVE  PortInv
    OBVIOUS
  <1>1. PoolInv /\ Unused = Pool /\ Returned = {} /\ curr = 0 /\ recycle = 0
    BY InitPool DEF Init
  <1>2. BoundPorts = {} /\ \A u \in Udps : udp[u].state = "unused"
    BY DEF Init, MemberInit, BoundPorts
  <1>3. PortsExclusive
    BY <1>2 DEF PortsExclusive
  <1>4. PortsKept
    BY <1>1, <1>2, PoolFits, FS_EmptySet DEF PortsKept
  <1> QED BY <1>1, <1>3, <1>4 DEF PortInv

(* A step that opens and closes no socket and does not call the allocator. *)
LEMMA PortsStay ==
  ASSUME PortInv, UNCHANGED pmVars,
         \A u \in Udps : /\ udp'[u].port = udp[u].port
                         /\ udp'[u].state = "open" <=> udp[u].state = "open"
                         /\ udp'[u].state = "unused" <=> udp[u].state = "unused"
  PROVE  PortInv'
  <1>1. PoolInv' /\ Unused' = Unused /\ Returned' = Returned /\ curr' - recycle' = curr - recycle
    BY DEF PortInv, pmVars, PoolInv, PmTypes, PoolApart, Unused, Returned, Max, Slots, Pool, Port, NoPort
  <1>2. BoundPorts' = BoundPorts
    BY DEF BoundPorts
  <1>3. PortsExclusive'
    BY <1>1, <1>2 DEF PortInv, PortsExclusive, NoPort
  <1>4. NeverExhausted' => NeverExhausted
    BY DEF NeverExhausted, NoPort
  <1>5. PortsKept => PortsKept'
    BY <1>1, <1>2 DEF PortsKept, NoPort, Pool, Slots, Port, Max
  <1> QED BY <1>1, <1>3, <1>4, <1>5 DEF PortInv

(* An answer binds a new socket to a port that no other is bound to. *)
LEMMA AnswerKeepsPorts ==
  ASSUME PortInv, NEW u \in Udps, NEW port \in Pool \union {NoPort},
         AllocatePort(port),
         udp[u].state = "unused",
         udp'[u].state = "open" /\ udp'[u].port = port,
         \A v \in Udps : v # u => udp'[v] = udp[v]
  PROVE  PortInv'
  <1>1. PoolGivesFacts(port)
    BY PoolGives DEF PortInv
  <1>2. PoolInv' /\ Free' = Free \ {port} /\ (port # NoPort => port \in Free)
    BY <1>1 DEF PoolGivesFacts
  <1>3. BoundPorts' = BoundPorts \union {port}
    <2>1. \A v \in Udps : udp'[v].state = "open" <=> v = u \/ udp[v].state = "open"
      OBVIOUS
    <2>2. BoundPorts' = {udp'[v].port : v \in {w \in Udps : udp'[w].state = "open"}}
      BY DEF BoundPorts
    <2> QED BY <2>1, <2>2 DEF BoundPorts
  <1>4. port # NoPort => port \notin BoundPorts
    BY <1>2 DEF PortInv, PortsExclusive, Free
  <1>5. PortsExclusive'
    <2>1. \A v, w \in Udps :
            /\ udp'[v].state = "open" /\ udp'[w].state = "open"
            /\ udp'[v].port = udp'[w].port /\ udp'[v].port # NoPort
            => v = w
      <3>1. \A v \in Udps : udp[v].state = "open" => udp[v].port \in BoundPorts
        BY DEF BoundPorts
      <3> QED BY <3>1, <1>4 DEF PortInv, PortsExclusive
    <2>2. Free' \intersect BoundPorts' = {}
      BY <1>2, <1>3 DEF PortInv, PortsExclusive, Free
    <2> QED BY <2>1, <2>2 DEF PortsExclusive, Free, NoPort
  <1>6. NeverExhausted' => PortsKept'
    <2> SUFFICES ASSUME NeverExhausted'
                 PROVE  PortsKept'
      OBVIOUS
    <2>1. port # NoPort /\ PortsKept
      BY DEF NeverExhausted, PortInv, NoPort
    <2>2. /\ IsFiniteSet(BoundPorts \union {port})
          /\ Cardinality(BoundPorts \union {port}) = Cardinality(BoundPorts) + 1
      BY <1>4, <2>1, FS_AddElement DEF PortsKept
    <2>3. /\ (Unused \union Returned)' \subseteq Unused \union Returned
          /\ curr' - recycle' = curr - recycle + 1
          /\ port \in Unused \union Returned
      BY <1>1, <2>1 DEF PoolGivesFacts, Free
    <2>4. (Unused \union Returned)' = (Unused \union Returned) \ {port}
      BY <1>2, <2>1, <2>3 DEF Free, PortsKept, NoPort
    <2>5. Pool = (Unused \union Returned)' \union BoundPorts'
      BY <1>3, <2>1, <2>3, <2>4 DEF PortsKept
    <2> QED BY <1>3, <2>1, <2>2, <2>3, <2>5 DEF PortsKept, NoPort, Pool, Slots, Port, Max
  <1> QED BY <1>2, <1>5, <1>6 DEF PortInv

(* A release closes a socket and gives its port back.  While a port is bound
   there is a slot for it. *)
LEMMA ReleaseKeepsPorts ==
  ASSUME PortInv, NEW r \in Udps, udp \in [Udps -> UdpStates],
         udp[r].state = "open", RecyclePort(udp[r].port),
         \A u \in Udps : /\ udp'[u].port = udp[u].port
                         /\ udp'[u].state = IF u = r THEN "closing" ELSE udp[u].state
  PROVE  PortInv'
  <1> DEFINE port == udp[r].port
  <1>1. port \in Pool \union {NoPort} /\ port \in BoundPorts
    BY DEF UdpStates, BoundPorts
  <1>2. port \notin Free
    BY <1>1 DEF PortInv, PortsExclusive, Free
  <1> HIDE DEF port
  <1>3. /\ PoolInv'
        /\ Free' \subseteq Free \union {port}
        /\ recycle < Max => /\ (Unused \union Returned)' = Unused \union Returned \union {port}
                            /\ curr' - recycle' = curr - recycle - 1
    BY <1>1, <1>2, PoolTakes DEF PortInv, port
  <1>4. BoundPorts' \subseteq BoundPorts /\ (port # NoPort => BoundPorts' = BoundPorts \ {port})
    <2>1. \A u \in Udps : udp'[u].state = "open" <=> u # r /\ udp[u].state = "open"
      OBVIOUS
    <2>2. BoundPorts' = {udp[u].port : u \in {v \in Udps : v # r /\ udp[v].state = "open"}}
      BY <2>1 DEF BoundPorts
    <2>3. port # NoPort => \A u \in Udps : u # r /\ udp[u].state = "open" => udp[u].port # port
      BY DEF PortInv, PortsExclusive, port
    <2> QED BY <2>2, <2>3 DEF BoundPorts, port
  <1>5. PortsExclusive'
    <2>1. \A v, w \in Udps :
            /\ udp'[v].state = "open" /\ udp'[w].state = "open"
            /\ udp'[v].port = udp'[w].port /\ udp'[v].port # NoPort
            => v = w
      BY DEF PortInv, PortsExclusive
    <2>2. Free' \intersect BoundPorts' = {}
      BY <1>3, <1>4 DEF PortInv, PortsExclusive, Free, NoPort
    <2> QED BY <2>1, <2>2 DEF PortsExclusive, Free, NoPort
  <1>6. NeverExhausted' => PortsKept'
    <2> SUFFICES ASSUME NeverExhausted'
                 PROVE  PortsKept'
      OBVIOUS
    <2>1. \A u \in Udps : udp'[u].state = "unused" => udp[u].state = "unused"
      OBVIOUS
    <2>2. NeverExhausted
      BY DEF NeverExhausted, NoPort
    <2>3. port # NoPort /\ PortsKept
      BY <2>2 DEF NeverExhausted, PortInv, port
    <2>4. /\ IsFiniteSet(BoundPorts \ {port})
          /\ Cardinality(BoundPorts \ {port}) = Cardinality(BoundPorts) - 1
      BY <1>1, <2>3, FS_RemoveElement DEF PortsKept
    <2>5. Cardinality(BoundPorts) # 0 /\ Cardinality(BoundPorts) \in Nat
      BY <1>1, <2>3, FS_EmptySet, FS_CardinalityType DEF PortsKept
    <2>6. recycle < Max
      BY <2>3, <2>5, PoolFits DEF PortsKept, PortInv, PoolInv, PmTypes
    <2>7. Pool = (Unused \union Returned)' \union BoundPorts'
      BY <1>1, <1>3, <1>4, <2>3, <2>6 DEF PortsKept
    <2> QED BY <1>3, <1>4, <2>3, <2>4, <2>6, <2>7 DEF PortsKept, NoPort, Pool, Slots, Port, Max
  <1> QED BY <1>3, <1>5, <1>6 DEF PortInv

LEMMA MovePorts ==
  ASSUME RoomInv, SocketInv, PortInv, Moves
  PROVE  PortInv'
  <1>0. /\ member \in [Members -> MemberStates] /\ udp \in [Udps -> UdpStates]
        /\ \A m \in Members : ReceiverOpen(m)
    BY DEF RoomInv, RoomTypes, SocketInv, SocketTypes
  <1>1. ASSUME UNCHANGED <<udp, pmVars>>
        PROVE  PortInv'
    BY <1>1, PortsStay
  <1>2. ASSUME NEW m \in Members, NEW offer \in ClientOffers, Offered(m, offer)
        PROVE  PortInv'
    <2>0. PICK port \in Pool \union {NoPort}, u \in Udps, fp \in FpAfter(member[m].fp, offer) :
            AnswerFacts(m, port, u, fp)
      BY <1>0, <1>2, Answered DEF Offered
    <2>1. /\ AllocatePort(port)
          /\ udp[u].state = "unused"
          /\ udp'[u].state = "open" /\ udp'[u].port = port
          /\ \A v \in Udps : v # u => udp'[v] = udp[v]
      BY <2>0 DEF AnswerFacts
    <2> QED BY <2>1, AnswerKeepsPorts
  <1>3. ASSUME NEW m \in Members, ReleaseMember(m)
        PROVE  PortInv'
    <2>1. CASE member[m].receiver = None
      BY <1>1, <1>3, <2>1 DEF ReleaseMember, StopRecv
    <2>2. CASE member[m].receiver # None
      <3> DEFINE r == member[m].receiver
      <3>1. /\ r \in Udps /\ udp[r].state = "open" /\ RecyclePort(udp[r].port)
        BY <1>0, <1>3, <2>2 DEF ReceiverOpen, ReleaseMember, StopRecv, MemberStates
      <3>2. \A u \in Udps : /\ udp'[u].port = udp[u].port
                            /\ udp'[u].state = IF u = r THEN "closing" ELSE udp[u].state
        BY <1>0, <1>3, Released
      <3> HIDE DEF r
      <3> QED BY <1>0, <3>1, <3>2, ReleaseKeepsPorts
    <2> QED BY <2>1, <2>2
  <1>4. ASSUME NEW u \in Udps, NEW a \in Addrs, NEW packet \in ClientPackets,
               Received(u, a, packet)
        PROVE  PortInv'
    BY <1>1, <1>4 DEF Received, OnUdpReceive, OnStun, OnDtls, OnMedia
  <1>5. ASSUME NEW u \in Udps, Deleter(u)
        PROVE  PortInv'
    <2>1. /\ udp[u].state = "closing"
          /\ udp' = [udp EXCEPT ![u].state = "deleted"]
          /\ UNCHANGED pmVars
      BY <1>5 DEF Deleter
    <2>2. \A v \in Udps : /\ udp'[v].port = udp[v].port
                          /\ udp'[v].state = IF v = u THEN "deleted" ELSE udp[v].state
      BY <1>0, <2>1 DEF UdpStates
    <2> QED BY <2>1, <2>2, PortsStay
  <1>6. CASE UNCHANGED <<memberVars, streamVars, pmVars>>
    BY <1>1, <1>6 DEF memberVars
  <1>7. ASSUME NEW m \in Members, NEW uid \in Uids, Joined(m, uid)
        PROVE  PortInv'
    BY <1>1, <1>7 DEF Joined
  <1>8. ASSUME NEW m \in Members, NEW offer \in ClientOffers, Refused(m, offer)
        PROVE  PortInv'
    BY <1>1, <1>8 DEF Refused
  <1> QED BY <1>2, <1>3, <1>4, <1>5, <1>6, <1>7, <1>8 DEF Moves

(***************************************************************************)
(* What the port manager believes of every port is true of the sockets,    *)
(* for any port range and whatever mixture of repeated offers, refusals,   *)
(* answers with port 0 and closes went before: no port is bound twice or   *)
(* handed out while it is bound, and until the pool was exhausted once no  *)
(* port is lost (allocate_port, recycle_port, start_recv, stop_recv).      *)
(***************************************************************************)
THEOREM PortsAlwaysAccounted == Spec => []PortsAccounted
  <1>1. Init => BaseInv /\ PortInv
    BY BaseInit, InitPorts
  <1>2. BaseInv /\ PortInv /\ [Next]_vars => (BaseInv /\ PortInv)'
    BY BaseStep, StepMoves, MovePorts DEF BaseInv
  <1>3. PortInv => PortsAccounted
    BY DEF PortInv, PortsAccounted, PortConservation, PortsKept
  <1> QED BY <1>1, <1>2, <1>3, PTL DEF Spec

-----------------------------------------------------------------------------
(***************************************************************************)
(* The connection a member came with.  When connections join once it is    *)
(* that of no other member.                                                *)
(***************************************************************************)
CameWith(m, c) ==
  \E r \in Rooms : /\ room_members[r][member[m].uid] = m
                   /\ room_conns[r][member[m].uid] = c

LEMMA MembersHaveConnections ==
  ASSUME RoomInv, Remembered
  PROVE  /\ \A m \in Members : member[m].state = "live" =>
              \E c \in Conns : CameWith(m, c) /\ conn[c] = "open"
         /\ \A m, n \in Members, c \in Conns :
              /\ member[m].state = "live" /\ member[n].state = "live"
              /\ CameWith(m, c) /\ CameWith(n, c)
              => m = n
  <1>1. ASSUME NEW m \in Members, member[m].state = "live"
        PROVE  \E c \in Conns : CameWith(m, c) /\ conn[c] = "open"
    <2>1. member[m].uid \in Uids
      BY <1>1 DEF RoomInv, RoomTypes
    <2>2. PICK r \in Rooms : room_members[r][member[m].uid] = m
      BY <1>1 DEF RoomInv, RoomsConsistent
    <2>3. room_conns[r][member[m].uid] # None
      BY <2>1, <2>2, NoneApart DEF RoomInv, RoomsConsistent
    <2>4. room_conns[r][member[m].uid] \in Conns
      BY <2>1, <2>3 DEF RoomInv, RoomTypes
    <2>5. conn[room_conns[r][member[m].uid]] = "open"
      BY <2>1, <2>3 DEF Remembered
    <2> QED BY <2>2, <2>4, <2>5 DEF CameWith
  <1>2. ASSUME NEW m \in Members, NEW n \in Members, NEW c \in Conns,
               member[m].state = "live", member[n].state = "live",
               CameWith(m, c), CameWith(n, c)
        PROVE  m = n
    <2>1. member[m].uid \in Uids /\ member[n].uid \in Uids
      BY <1>2 DEF RoomInv, RoomTypes
    <2>2. PICK r \in Rooms : /\ room_members[r][member[m].uid] = m
                             /\ room_conns[r][member[m].uid] = c
      BY <1>2 DEF CameWith
    <2>3. PICK s \in Rooms : /\ room_members[s][member[n].uid] = n
                             /\ room_conns[s][member[n].uid] = c
      BY <1>2 DEF CameWith
    <2>4. c # None
      BY NoneApart
    <2>5. r = s
      BY <2>1, <2>2, <2>3, <2>4 DEF Remembered
    <2>6. member[m].uid = member[n].uid
      BY <2>1, <2>2, <2>3, <2>4, <2>5 DEF Remembered
    <2> QED BY <2>2, <2>3, <2>5, <2>6
  <1> QED BY <1>1, <1>2

(* A member without a socket finds a port when there are as many ports as
   connections: the others have one each at most. *)
LEMMA PortForEveryone ==
  ASSUME RoomInv, SocketInv, Remembered, ReceiversOnly, PortsKept,
         IsFiniteSet(Conns), Cardinality(Conns) <= Max,
         NEW m \in Members, member[m].state = "live", member[m].receiver = None
  PROVE  curr - recycle < Max
  <1>1. PICK mine \in Conns : CameWith(m, mine)
    BY MembersHaveConnections
  <1>2. \A u \in Udps : udp[u].state = "open" =>
           /\ udp[u].owner \in Members
           /\ member[udp[u].owner].state = "live"
           /\ member[udp[u].owner].receiver = u
    BY DEF ReceiversOnly, SocketInv, SocketOwned
  <1> DEFINE Others == Conns \ {mine}
             Holds(p, c) == \E u \in Udps : /\ udp[u].state = "open" /\ udp[u].port = p
                                            /\ CameWith(udp[u].owner, c)
             f == [p \in BoundPorts |-> CHOOSE c \in Others : Holds(p, c)]
  <1>3. ASSUME NEW p \in BoundPorts
        PROVE  \E c \in Others : Holds(p, c)
    <2>1. PICK u \in Udps : udp[u].state = "open" /\ udp[u].port = p
      BY DEF BoundPorts
    <2>2. PICK c \in Conns : CameWith(udp[u].owner, c)
      BY <1>2, <2>1, MembersHaveConnections
    <2>3. udp[u].owner # m
      BY <1>2, <2>1, ObjectNumbers, NoneIsNothing
    <2>4. c # mine
      BY <1>1, <1>2, <2>1, <2>2, <2>3, MembersHaveConnections
    <2> QED BY <2>1, <2>2, <2>4
  <1>4. ASSUME NEW p \in BoundPorts, NEW q \in BoundPorts, NEW c \in Others,
               Holds(p, c), Holds(q, c)
        PROVE  p = q
    <2>1. PICK u \in Udps : /\ udp[u].state = "open" /\ udp[u].port = p
                            /\ CameWith(udp[u].owner, c)
      BY <1>4
    <2>2. PICK v \in Udps : /\ udp[v].state = "open" /\ udp[v].port = q
                            /\ CameWith(udp[v].owner, c)
      BY <1>4
    <2>3. udp[u].owner = udp[v].owner
      BY <1>2, <2>1, <2>2, MembersHaveConnections
    <2> QED BY <1>2, <2>1, <2>2, <2>3
  <1> HIDE DEF Holds
  <1>5. \A p \in BoundPorts : f[p] \in Others /\ Holds(p, f[p])
    BY <1>3
  <1>6. f \in [BoundPorts -> Others]
    BY <1>5
  <1> HIDE DEF f
  <1>7. \A p, q \in BoundPorts : f[p] = f[q] => p = q
    BY <1>4, <1>5
  <1>8. IsFiniteSet(Others) /\ Cardinality(Others) = Cardinality(Conns) - 1
    BY FS_RemoveElement
  <1>9. IsFiniteSet(BoundPorts) /\ Cardinality(BoundPorts) = curr - recycle
    BY DEF PortsKept
  <1> HIDE DEF Others
  <1>10. ~ (Cardinality(Others) < Cardinality(BoundPorts))
    BY <1>6, <1>7, <1>8, <1>9, FS_PigeonHole
  <1>11. /\ Cardinality(Conns) \in Nat /\ Cardinality(Others) \in Nat
         /\ Cardinality(BoundPorts) \in Nat /\ Max \in Nat
    BY <1>8, <1>9, FS_CardinalityType, PoolFits
  <1> QED BY <1>8, <1>9, <1>10, <1>11

(* No answer carries port 0 then. *)
LEMMA NeverExhaustedStays ==
  ASSUME RoomInv, SocketInv, Remembered, ReceiversOnly, PortInv, NeverExhausted,
         MaxOffers <= 1, IsFiniteSet(Conns), Cardinality(Conns) <= Max, Moves
  PROVE  NeverExhausted'
  <1>0. /\ member \in [Members -> MemberStates] /\ udp \in [Udps -> UdpStates]
        /\ \A m \in Members : member[m].answer \in Nat
    BY DEF RoomInv, RoomTypes, MemberStates, SocketInv, SocketTypes
  <1>1. ASSUME NEW m \in Members, NEW offer \in ClientOffers, Offered(m, offer)
        PROVE  NeverExhausted'
    <2>1. PICK port \in Pool \union {NoPort}, u \in Udps, fp \in FpAfter(member[m].fp, offer) :
            AnswerFacts(m, port, u, fp)
      BY <1>0, <1>1, Answered DEF Offered
    <2>2. member[m].answer = 0 /\ member[m].state = "live"
      BY <1>0, <1>1, ClientRules DEF Offered
    <2>3. curr - recycle < Max
      BY <2>2, UnansweredHasNoSocket, PortForEveryone DEF PortInv
    <2>4. /\ curr \in 0 .. Max /\ recycle \in 0 .. Max /\ Max \in Nat
          /\ NoPort \notin Unused /\ NoPort \notin Returned
      BY PoolFits DEF PortInv, PoolInv, PmTypes, PortsKept
    <2>5. ~ AllocateNothing(port)
      BY <2>3, <2>4 DEF AllocateNothing
    <2>6. AllocateFromArray(port) => port \in Unused
      BY <2>4 DEF AllocateFromArray, Unused
    <2>7. AllocateAfterRefill(port) => port # NoPort
      <3> HAVE AllocateAfterRefill(port)
      <3>1. curr = Max /\ recycle \in 1 .. Max /\ port = Refilled[curr - recycle]
        BY <2>4 DEF AllocateAfterRefill, TakeRefilled
      <3>2. /\ curr - recycle \in Slots /\ curr - recycle \in curr - recycle .. curr - 1
            /\ curr - 1 - (curr - recycle) = recycle - 1 /\ recycle - 1 \in 0 .. recycle - 1
        BY <2>4, <3>1 DEF Slots
      <3>3. port = port_array_rec[recycle - 1]
        BY <3>1, <3>2 DEF Refilled
      <3> QED BY <2>4, <3>2, <3>3 DEF Returned
    <2>8. port # NoPort
      BY <2>1, <2>4, <2>5, <2>6, <2>7 DEF AnswerFacts, AllocatePort
    <2>9. udp'[u].port = port /\ \A v \in Udps : v # u => udp'[v] = udp[v]
      BY <2>1 DEF AnswerFacts
    <2> QED BY <2>8, <2>9 DEF NeverExhausted, NoPort
  <1>2. ASSUME \A u \in Udps : /\ udp'[u].port = udp[u].port
                               /\ udp'[u].state # "unused" => udp[u].state # "unused"
        PROVE  NeverExhausted'
    BY <1>2 DEF NeverExhausted, NoPort
  <1>3. ASSUME NEW m \in Members, ReleaseMember(m)
        PROVE  NeverExhausted'
    <2>1. \A u \in Udps : /\ udp'[u].port = udp[u].port
                          /\ udp'[u].state = IF u = member[m].receiver
                                             THEN "closing" ELSE udp[u].state
      BY <1>0, <1>3, Released
    <2>2. \A u \in Udps : u = member[m].receiver => udp[u].state # "unused"
      BY ObjectNumbers, NoneIsNothing DEF SocketInv, ReceiverOpen
    <2> QED BY <2>1, <2>2, <1>2
  <1>4. ASSUME NEW u \in Udps, Deleter(u)
        PROVE  NeverExhausted'
    <2>1. udp[u].state = "closing" /\ udp' = [udp EXCEPT ![u].state = "deleted"]
      BY <1>4 DEF Deleter
    <2>2. \A v \in Udps : /\ udp'[v].port = udp[v].port
                          /\ udp'[v].state = IF v = u THEN "deleted" ELSE udp[v].state
      BY <1>0, <2>1 DEF UdpStates
    <2> QED BY <2>1, <2>2, <1>2
  <1>5. UNCHANGED udp => NeverExhausted'
    BY <1>2
  <1>6. ASSUME NEW u \in Udps, NEW a \in Addrs, NEW packet \in ClientPackets,
               Received(u, a, packet)
        PROVE  UNCHANGED udp
    BY <1>6 DEF Received, OnUdpReceive, OnStun, OnDtls, OnMedia
  <1> QED BY <1>1, <1>3, <1>4, <1>5, <1>6 DEF Moves, Joined, Refused, memberVars

(* Where nobody is left, nothing is bound. *)
LEMMA BackInPool ==
  ASSUME BaseInv, Remembered, PortInv, ReceiversOnly, NeverExhausted
  PROVE  AllReturned
  <1> SUFFICES ASSUME \A c \in Conns : conn[c] # "open"
               PROVE  /\ Unused \union Returned = Pool
                      /\ \A u \in Udps : udp[u].state # "open"
    BY DEF AllReturned
  <1>1. \A m \in Members : member[m].state # "live"
    BY MembersHaveConnections DEF BaseInv
  <1>2. \A u \in Udps : udp[u].state # "open"
    BY <1>1 DEF ReceiversOnly, BaseInv, SocketInv, SocketOwned
  <1>3. BoundPorts = {}
    BY <1>2 DEF BoundPorts
  <1> QED BY <1>2, <1>3 DEF PortInv, PortsKept

(* The inductive invariant without the count of connections. *)
LEMMA OneOfferStep ==
  ASSUME JoinOnce, MaxOffers <= 1
  PROVE  /\ Init => BaseInv /\ Remembered /\ PortInv /\ ReceiversOnly /\ NeverExhausted
         /\ BaseInv /\ Remembered /\ PortInv /\ ReceiversOnly /\ [Next]_vars =>
              /\ (BaseInv /\ Remembered /\ PortInv /\ ReceiversOnly)'
              /\ Moves
  <1>1. ASSUME Init
        PROVE  BaseInv /\ Remembered /\ PortInv /\ ReceiversOnly /\ NeverExhausted
    <2>1. \A u \in Udps : udp[u].state = "unused"
      BY <1>1 DEF Init, MemberInit
    <2>2. ReceiversOnly /\ NeverExhausted
      BY <2>1 DEF ReceiversOnly, NeverExhausted
    <2>3. Remembered
      BY <1>1 DEF Init, SignalingInit, Remembered
    <2> QED BY <1>1, <2>2, <2>3, BaseInit, InitPorts
  <1>2. ASSUME BaseInv, Remembered, PortInv, ReceiversOnly, [Next]_vars
        PROVE  (BaseInv /\ Remembered /\ PortInv /\ ReceiversOnly)' /\ Moves
    <2>1. Moves
      BY <1>2, StepMoves DEF BaseInv
    <2>2. BaseInv'
      BY <1>2, BaseStep
    <2>3. Remembered'
      BY <1>2, StepRemembered DEF BaseInv, RoomInv
    <2>4. PortInv'
      BY <1>2, <2>1, MovePorts DEF BaseInv
    <2>5. ReceiversOnly'
      BY <1>2, <2>1, OneOfferNoOrphan DEF BaseInv
    <2> QED BY <2>1, <2>2, <2>3, <2>4, <2>5
  <1> QED BY <1>1, <1>2

(***************************************************************************)
(* With connections that join once and members that send one offer, as the *)
(* web client's do, nothing stays bound or lost when everyone has left,    *)
(* unless some answer carried port 0: a further offer would leave a socket *)
(* open (start_recv), and zeros handed out by an exhausted pool and given  *)
(* back take the slots of ports (recycle_port).                            *)
(***************************************************************************)
THEOREM ReturnedUnlessExhausted ==
  ASSUME JoinOnce, MaxOffers <= 1
  PROVE  Spec => [](NeverExhausted => AllReturned)
  <1> DEFINE Inv == BaseInv /\ Remembered /\ PortInv /\ ReceiversOnly
  <1>1. Init => Inv
    BY OneOfferStep
  <1>2. Inv /\ [Next]_vars => Inv'
    BY OneOfferStep
  <1>3. Inv => (NeverExhausted => AllReturned)
    BY BackInPool
  <1> HIDE DEF Inv
  <1> QED BY <1>1, <1>2, <1>3, PTL DEF Spec

(***************************************************************************)
(* When everyone has left, every port is back in the pool and no socket is *)
(* open, if moreover there is a port for each connection: the member that  *)
(* asks has none yet and the others have one each (allocate_port).         *)
(***************************************************************************)
THEOREM EverythingReturned ==
  ASSUME JoinOnce, MaxOffers <= 1, IsFiniteSet(Conns), Cardinality(Conns) <= Max
  PROVE  Spec => []AllReturned
  <1> DEFINE Inv == BaseInv /\ Remembered /\ PortInv /\ ReceiversOnly /\ NeverExhausted
  <1>1. Init => Inv
    BY OneOfferStep
  <1>2. Inv /\ [Next]_vars => Inv'
    BY OneOfferStep, NeverExhaustedStays DEF BaseInv
  <1>3. Inv => AllReturned
    BY BackInPool
  <1> HIDE DEF Inv
  <1> QED BY <1>1, <1>2, <1>3, PTL DEF Spec

-----------------------------------------------------------------------------
OneRoom == \A r, s \in Rooms : r = s

OneAddress == \A a, b \in Addrs : a = b

StreamTypes ==
  /\ subs_map \in [Uids -> Uids \union {None}]
  /\ streams \in [Uids -> Transports \union {None}]
  /\ tsubs \in [Transports -> [Uids -> Transports \union {None}]]

(* A stream listed under a uid is a transport of a member with that uid. *)
Known(s, v) == member[s[1]].uid = v /\ transport[s].session # "none"

StreamsKnown ==
  /\ \A m \in Members : member[m].state # "unused" => member[m].uid \in Uids
  /\ \A v \in Uids : streams[v] # None => Known(streams[v], v)
  /\ \A t \in Transports, v \in Uids : tsubs[t][v] # None =>
        Known(tsubs[t][v], v) /\ transport[t].session # "none"

(***************************************************************************)
(* A subscriber of a live member's transport is the user that the member   *)
(* pulls from, or a live member that pulls from it; and a transport with   *)
(* subscribers is the one listed for its user, where remove_subscriber     *)
(* finds it.                                                               *)
(***************************************************************************)
LinkRight(t, v) ==
  member[t[1]].state = "live" /\ tsubs[t][v] # None =>
    /\ streams[member[t[1]].uid] = t
    /\ \/ subs_map[member[t[1]].uid] = v
       \/ /\ subs_map[v] = member[t[1]].uid
          /\ member[tsubs[t][v][1]].state = "live"

LinksRight == \A t \in Transports, v \in Uids : LinkRight(t, v)

LinkInv == StreamTypes /\ StreamsKnown /\ (ReceiversOnly => LinksRight)

LEMMA NoneIsNoTransport ==
  /\ None \notin Transports /\ None \notin Uids /\ None \notin Udps
  /\ \A t \in Transports : t[1] \in Members
  BY ObjectNumbers, NoneIsNothing DEF Transports

LEMMA OneTransportEach ==
  ASSUME OneAddress, NEW s \in Transports, NEW t \in Transports, s[1] = t[1]
  PROVE  s = t
  BY DEF OneAddress, Transports

LEMMA OneMemberEach ==
  ASSUME OneRoom, RoomInv, NEW m \in Members, NEW n \in Members,
         member[m].state = "live", member[n].state = "live", member[m].uid = member[n].uid
  PROVE  m = n
  <1>1. PICK r \in Rooms : room_members[r][member[m].uid] = m
    BY DEF RoomInv, RoomsConsistent
  <1>2. PICK s \in Rooms : room_members[s][member[n].uid] = n
    BY DEF RoomInv, RoomsConsistent
  <1> QED BY <1>1, <1>2 DEF OneRoom

LEMMA InitLinks == Init => LinkInv
  <1> SUFFICES ASSUME Init
               PROVE  LinkInv
    OBVIOUS
  <1>1. StreamTypes
    BY DEF Init, StreamInit, StreamTypes
  <1>2. /\ \A v \in Uids : streams[v] = None
        /\ \A t \in Transports, v \in Uids : tsubs[t][v] = None
    BY DEF Init, StreamInit
  <1>3. \A m \in Members : member[m].state = "unused"
    BY DEF Init, MemberInit, NewMember
  <1> QED BY <1>1, <1>2, <1>3 DEF LinkInv, StreamsKnown, LinksRight, LinkRight

-----------------------------------------------------------------------------
(* The member of a transport has been created, so no join makes it anew. *)
LEMMA TransportOwner ==
  ASSUME SocketInv, NEW t \in Transports, transport[t].session # "none"
  PROVE  /\ t[1] \in Members
         /\ member[t[1]].state # "unused"
         /\ member[t[1]].answer > 0
  BY NoneIsNoTransport DEF SocketInv, SendsOnOwn, SocketOwned

(* Who a member is does not change after its creation. *)
LEMMA UidsStay ==
  ASSUME RoomInv, SocketInv, Moves
  PROVE  /\ \A m \in Members : member[m].state # "unused" => member'[m].uid = member[m].uid
         /\ \A m \in Members : member'[m].state = "live" =>
              member[m].state = "live" \/ member[m].state = "unused"
         /\ \A m \in Members : member[m].state = "unused" =>
              member'[m].state = "live" \/ member'[m].state = "unused"
  <1>0. /\ member \in [Members -> MemberStates] /\ udp \in [Udps -> UdpStates]
    BY DEF RoomInv, RoomTypes, SocketInv, SocketTypes
  <1> DEFINE Goal(m) == /\ member[m].state # "unused" => member'[m].uid = member[m].uid
                        /\ member'[m].state = "live" =>
                             member[m].state = "live" \/ member[m].state = "unused"
                        /\ member[m].state = "unused" =>
                             member'[m].state = "live" \/ member'[m].state = "unused"
  <1>1. UNCHANGED member => \A m \in Members : Goal(m)
    OBVIOUS
  <1>2. ASSUME NEW m \in Members, NEW uid \in Uids, Joined(m, uid)
        PROVE  \A n \in Members : Goal(n)
    <2>1. /\ member[m].state = "unused" /\ member'[m] = NewMember(uid)
          /\ \A n \in Members : n # m => member'[n] = member[n]
      BY <1>0, <1>2 DEF Joined
    <2> QED BY <2>1 DEF NewMember
  <1>3. ASSUME NEW m \in Members, NEW offer \in ClientOffers, Offered(m, offer)
        PROVE  \A n \in Members : Goal(n)
    <2>1. PICK port \in Pool \union {NoPort}, u \in Udps, fp \in FpAfter(member[m].fp, offer) :
            AnswerFacts(m, port, u, fp)
      BY <1>0, <1>3, Answered DEF Offered
    <2> QED BY <2>1 DEF AnswerFacts
  <1>4. ASSUME NEW m \in Members, NEW offer \in ClientOffers, Refused(m, offer)
        PROVE  \A n \in Members : Goal(n)
    <2>1. PICK fp \in FpAfter(member[m].fp, offer) : member' = [member EXCEPT ![m].fp = fp]
      BY <1>4 DEF Refused
    <2> QED BY <1>0, <2>1 DEF MemberStates
  <1>5. ASSUME NEW m \in Members, member[m].state = "live", ReleaseMember(m)
        PROVE  \A n \in Members : Goal(n)
    <2>1. /\ member'[m].state = "freed" /\ member'[m].uid = member[m].uid
          /\ \A n \in Members : n # m => member'[n] = member[n]
      BY <1>0, <1>5, Released
    <2> QED BY <1>5, <2>1
  <1>6. ASSUME NEW u \in Udps, NEW a \in Addrs, NEW packet \in ClientPackets,
               Received(u, a, packet)
        PROVE  UNCHANGED member
    BY <1>6, PacketKeepsMembers DEF Received
  <1>7. \A u \in Udps : Deleter(u) => UNCHANGED member
    BY DEF Deleter
  <1> HIDE DEF Goal
  <1>8. \A m \in Members : Goal(m)
    BY <1>1, <1>2, <1>3, <1>4, <1>5, <1>6, <1>7 DEF Moves, memberVars
  <1> QED BY <1>8 DEF Goal

(* Only its release ends the life of a member. *)
LEMMA LiveUnlessReleased ==
  ASSUME RoomInv, SocketInv, Moves, NEW n \in Members, member[n].state = "live"
  PROVE  \/ member'[n].state = "live"
         \/ \E m \in Members : member[m].state = "live" /\ ReleaseMember(m)
  <1>0. /\ member \in [Members -> MemberStates] /\ udp \in [Udps -> UdpStates]
    BY DEF RoomInv, RoomTypes, SocketInv, SocketTypes
  <1>1. ASSUME NEW m \in Members, NEW uid \in Uids, Joined(m, uid)
        PROVE  member'[n].state = "live"
    BY <1>0, <1>1 DEF Joined
  <1>2. ASSUME NEW m \in Members, NEW offer \in ClientOffers, Offered(m, offer)
        PROVE  member'[n].state = "live"
    <2>1. PICK port \in Pool \union {NoPort}, u \in Udps, fp \in FpAfter(member[m].fp, offer) :
            AnswerFacts(m, port, u, fp)
      BY <1>0, <1>2, Answered DEF Offered
    <2> QED BY <2>1 DEF AnswerFacts
  <1>3. ASSUME NEW m \in Members, NEW offer \in ClientOffers, Refused(m, offer)
        PROVE  member'[n].state = "live"
    <2>1. PICK fp \in FpAfter(member[m].fp, offer) : member' = [member EXCEPT ![m].fp = fp]
      BY <1>3 DEF Refused
    <2> QED BY <1>0, <2>1 DEF MemberStates
  <1>4. ASSUME NEW u \in Udps, NEW a \in Addrs, NEW packet \in ClientPackets,
               Received(u, a, packet)
        PROVE  UNCHANGED member
    BY <1>4, PacketKeepsMembers DEF Received
  <1>5. \A u \in Udps : Deleter(u) => UNCHANGED member
    BY DEF Deleter
  <1> QED BY <1>1, <1>2, <1>3, <1>4, <1>5 DEF Moves, memberVars

(* A transport that was made stays. *)
LEMMA TransportsStay ==
  ASSUME RoomInv, SocketInv, Moves
  PROVE  \A t \in Transports : transport[t].session # "none" => transport'[t] = transport[t]
  <1>0. /\ member \in [Members -> MemberStates] /\ udp \in [Udps -> UdpStates]
        /\ transport \in [Transports -> TransportStates]
    BY DEF RoomInv, RoomTypes, SocketInv, SocketTypes
  <1>1. ASSUME NEW m \in Members, NEW offer \in ClientOffers, Offered(m, offer)
        PROVE  UNCHANGED transport
    BY <1>1 DEF Offered, Answer
  <1>2. ASSUME NEW u \in Udps, NEW a \in Addrs, NEW packet \in ClientPackets,
               Received(u, a, packet)
        PROVE  \A t \in Transports : transport[t].session # "none" => transport'[t] = transport[t]
    <2>1. udp[u].owner \in Members
      BY <1>2 DEF Received, OnUdpReceive, SocketInv, SocketOwned
    <2> QED BY <1>0, <1>2, <2>1, Delivered DEF Received
  <1> QED BY <1>1, <1>2 DEF Moves, Joined, Refused, ReleaseMember, Deleter, memberVars

-----------------------------------------------------------------------------
(* What add_stream does to each entry. *)
LEMMA StreamAdded ==
  ASSUME StreamTypes, NEW uid \in Uids, NEW st \in Transports, AddStream(uid, st)
  PROVE  /\ StreamTypes' /\ subs_map' = subs_map
         /\ \A v \in Uids : streams'[v] = IF v = uid THEN st ELSE streams[v]
         /\ \A t \in Transports, v \in Uids :
              \/ tsubs'[t][v] = tsubs[t][v]
              \/ /\ t = st /\ v = subs_map[uid]
                 /\ streams'[v] # None /\ tsubs'[t][v] = streams'[v]
              \/ /\ subs_map[uid] # None /\ streams'[subs_map[uid]] = t
                 /\ v = uid /\ tsubs'[t][v] = st
  <1> DEFINE target == subs_map[uid]
             peer == streams'[target]
  <1>1. /\ streams' = [streams EXCEPT ![uid] = st]
        /\ subs_map' = subs_map
        /\ tsubs' = IF target # None /\ peer # None
                    THEN [tsubs EXCEPT ![peer][uid] = st, ![st][target] = peer]
                    ELSE tsubs
    BY DEF AddStream, Link
  <1>2. /\ streams' \in [Uids -> Transports \union {None}]
        /\ \A v \in Uids : streams'[v] = IF v = uid THEN st ELSE streams[v]
    BY <1>1 DEF StreamTypes
  <1>3. CASE ~ (target # None /\ peer # None)
    BY <1>1, <1>2, <1>3 DEF StreamTypes
  <1>4. CASE target # None /\ peer # None
    <2>1. target \in Uids /\ peer \in Transports
      BY <1>2, <1>4 DEF StreamTypes
    <2>2. tsubs' = [tsubs EXCEPT ![peer][uid] = st, ![st][target] = peer]
      BY <1>1, <1>4
    <2>3. target = subs_map[uid] /\ peer = streams'[target]
      OBVIOUS
    <2> HIDE DEF peer, target
    <2>4. tsubs' \in [Transports -> [Uids -> Transports \union {None}]]
      BY <2>1, <2>2 DEF StreamTypes
    <2>5. \A t \in Transports, v \in Uids :
            tsubs'[t][v] = IF t = st /\ v = target THEN peer
                           ELSE IF t = peer /\ v = uid THEN st ELSE tsubs[t][v]
      <3> DEFINE g == [tsubs EXCEPT ![peer][uid] = st]
      <3>1. g \in [Transports -> [Uids -> Transports \union {None}]]
        BY <2>1 DEF StreamTypes
      <3>2. \A t \in Transports, v \in Uids :
              g[t][v] = IF t = peer /\ v = uid THEN st ELSE tsubs[t][v]
        BY <2>1 DEF StreamTypes
      <3>3. tsubs' = [g EXCEPT ![st][target] = peer]
        BY <2>2
      <3> HIDE DEF g
      <3>4. \A t \in Transports, v \in Uids :
              tsubs'[t][v] = IF t = st /\ v = target THEN peer ELSE g[t][v]
        BY <2>1, <3>1, <3>3
      <3> QED BY <3>2, <3>4
    <2>6. \A t \in Transports, v \in Uids :
            \/ tsubs'[t][v] = tsubs[t][v]
            \/ /\ t = st /\ v = subs_map[uid]
               /\ streams'[v] # None /\ tsubs'[t][v] = streams'[v]
            \/ /\ subs_map[uid] # None /\ streams'[subs_map[uid]] = t
               /\ v = uid /\ tsubs'[t][v] = st
      BY <1>4, <2>3, <2>5
    <2>7. StreamTypes' /\ subs_map' = subs_map
      BY <1>1, <1>2, <2>4 DEF StreamTypes
    <2> QED BY <1>2, <2>6, <2>7
  <1> QED BY <1>3, <1>4

(* What remove_subscriber does: it removes entries only, and among them the
   one of uid at the transport listed for the user it pulls from. *)
LinkTables == [Transports -> [Uids -> Transports \union {None}]]

CutEntry(f, x, w) == IF x = None THEN f ELSE [f EXCEPT ![x][w] = None]

CutFacts(f, x, w) ==
  /\ CutEntry(f, x, w) \in LinkTables
  /\ \A t \in Transports, v \in Uids :
       CutEntry(f, x, w)[t][v] = IF t = x /\ v = w THEN None ELSE f[t][v]

LEMMA EntryCut ==
  ASSUME NEW f \in LinkTables, NEW x \in Transports \union {None}, NEW w \in Uids
  PROVE  CutFacts(f, x, w)
  <1> USE DEF CutFacts
  <1>1. CASE x = None
    BY <1>1, NoneIsNoTransport DEF CutEntry
  <1>2. CASE x # None
    <2>1. x \in Transports /\ CutEntry(f, x, w) = [f EXCEPT ![x][w] = None]
      BY <1>2 DEF CutEntry
    <2> QED BY <2>1 DEF LinkTables
  <1> QED BY <1>1, <1>2

LEMMA SubscriberRemoved ==
  ASSUME StreamTypes, NEW uid \in Uids, RemoveSubscriber(uid)
  PROVE  /\ StreamTypes' /\ UNCHANGED <<subs_map, streams>>
         /\ \A t \in Transports, v \in Uids :
              tsubs'[t][v] = tsubs[t][v] \/ tsubs'[t][v] = None
         /\ \A t \in Transports :
              subs_map[uid] # None /\ streams[subs_map[uid]] = t => tsubs'[t][uid] = None
  <1> DEFINE target == subs_map[uid]
             g == CutEntry(tsubs, streams[uid], target)
  <1>1. /\ UNCHANGED <<subs_map, streams>>
        /\ tsubs' = IF target = None THEN tsubs ELSE CutEntry(g, streams[target], uid)
    BY DEF RemoveSubscriber, CutEntry
  <1>2. CASE target = None
    BY <1>1, <1>2 DEF StreamTypes
  <1>3. CASE target # None
    <2>1. /\ target \in Uids /\ tsubs \in LinkTables
          /\ streams[uid] \in Transports \union {None}
          /\ streams[target] \in Transports \union {None}
      BY <1>3 DEF StreamTypes, LinkTables
    <2>2. tsubs' = CutEntry(g, streams[target], uid)
      BY <1>1, <1>3
    <2>3. CutFacts(tsubs, streams[uid], target)
      BY <2>1, EntryCut
    <2>4. /\ g \in LinkTables
          /\ \A t \in Transports, v \in Uids :
               g[t][v] = IF t = streams[uid] /\ v = target THEN None ELSE tsubs[t][v]
      BY <2>3 DEF CutFacts
    <2> HIDE DEF g
    <2>5. CutFacts(g, streams[target], uid)
      BY <2>1, <2>4, EntryCut
    <2>6. /\ tsubs' \in LinkTables
          /\ \A t \in Transports, v \in Uids :
               tsubs'[t][v] = IF t = streams[target] /\ v = uid THEN None ELSE g[t][v]
      BY <2>2, <2>5 DEF CutFacts
    <2> QED BY <1>1, <2>4, <2>6 DEF StreamTypes, LinkTables
  <1> QED BY <1>2, <1>3

(* What a packet does to the streams: nothing, or it is media and the
   transport of its sender is registered. *)
LEMMA PacketStreams ==
  ASSUME SocketInv, NEW u \in Udps, NEW a \in Addrs, NEW packet \in ClientPackets,
         OnUdpReceive(u, a, packet)
  PROVE  \/ UNCHANGED streamVars
         \/ LET t == <<udp[u].owner, a>>
            IN  /\ t \in Transports
                /\ AddStream(member[udp[u].owner].uid, t)
                /\ transport'[t].session # "none"
  <1> DEFINE m == udp[u].owner
             t == <<m, a>>
  <1>0. m \in Members /\ t \in Transports /\ transport \in [Transports -> TransportStates]
    BY DEF OnUdpReceive, SocketInv, SocketTypes, SocketOwned, Transports
  <1>1. CASE UNCHANGED streamVars
    BY <1>1
  <1>2. CASE ~ UNCHANGED streamVars
    <2>1. PICK authentic \in BOOLEAN : OnMedia(m, a, u, authentic)
      BY <1>2 DEF OnUdpReceive, OnStun, OnDtls
    <2>2. AddStream(member[m].uid, t)
      BY <1>2, <2>1 DEF OnMedia
    <2>3. IF transport[t].session = "none" THEN Create(t, u, "keyed") ELSE UNCHANGED transport
      BY <1>2, <2>1 DEF OnMedia, SetSrtpParam
    <2>4. transport'[t].session # "none"
      BY <1>0, <2>3 DEF Create
    <2> QED BY <1>0, <2>2, <2>4
  <1> QED BY <1>1, <1>2

-----------------------------------------------------------------------------
(* A socket that was left behind stays so: nothing closes it. *)
LEMMA OrphansStay ==
  ASSUME RoomInv, SocketInv, Moves, ReceiversOnly'
  PROVE  ReceiversOnly
  <1>0. /\ member \in [Members -> MemberStates] /\ udp \in [Udps -> UdpStates]
    BY DEF RoomInv, RoomTypes, SocketInv, SocketTypes
  <1> SUFFICES ASSUME NEW u \in Udps, udp[u].state = "open"
               PROVE  /\ member[udp[u].owner].state = "live"
                      /\ member[udp[u].owner].receiver = u
    BY DEF ReceiversOnly
  <1> DEFINE o == udp[u].owner
             Here == member[o].state = "live" /\ member[o].receiver = u
  <1>1. o \in Members /\ member[o].state # "unused"
    BY DEF SocketInv, SocketOwned
  <1>2. udp'[u].state = "open" => /\ member'[udp'[u].owner].state = "live"
                                  /\ member'[udp'[u].owner].receiver = u
    BY DEF ReceiversOnly
  <1> HIDE DEF o
  <1>3. UNCHANGED <<member, udp>> => Here
    BY <1>2 DEF o
  <1>4. ASSUME NEW m \in Members, NEW uid \in Uids, Joined(m, uid)
        PROVE  Here
    <2>1. /\ member[m].state = "unused" /\ udp' = udp
          /\ \A n \in Members : n # m => member'[n] = member[n]
      BY <1>0, <1>4 DEF Joined
    <2> QED BY <2>1, <1>1, <1>2 DEF o
  <1>5. ASSUME NEW m \in Members, NEW offer \in ClientOffers, Offered(m, offer)
        PROVE  Here
    <2>1. PICK port \in Pool \union {NoPort}, v \in Udps, fp \in FpAfter(member[m].fp, offer) :
            AnswerFacts(m, port, v, fp)
      BY <1>0, <1>5, Answered DEF Offered
    <2>2. /\ udp[v].state = "unused" /\ (\A w \in Udps : w # v => udp'[w] = udp[w])
          /\ member'[m].receiver = v
          /\ \A n \in Members : n # m => member'[n] = member[n]
      BY <2>1 DEF AnswerFacts
    <2>3. u # v /\ udp'[u] = udp[u]
      BY <2>2
    <2> QED BY <2>2, <2>3, <1>1, <1>2 DEF o
  <1>6. ASSUME NEW m \in Members, NEW offer \in ClientOffers, Refused(m, offer)
        PROVE  Here
    <2>1. PICK fp \in FpAfter(member[m].fp, offer) :
            member' = [member EXCEPT ![m].fp = fp] /\ udp' = udp
      BY <1>6 DEF Refused
    <2>2. member'[o].state = member[o].state /\ member'[o].receiver = member[o].receiver
      BY <1>0, <1>1, <2>1 DEF MemberStates
    <2> QED BY <2>1, <2>2, <1>2 DEF o
  <1>7. ASSUME NEW m \in Members, member[m].state = "live", ReleaseMember(m)
        PROVE  Here
    <2>1. /\ member'[m].state = "freed"
          /\ \A n \in Members : n # m => member'[n] = member[n]
          /\ udp'[u].owner = udp[u].owner
          /\ udp'[u].state = IF u = member[m].receiver THEN "closing" ELSE udp[u].state
      BY <1>0, <1>7, Released
    <2>2. CASE u = member[m].receiver
      <3>1. o = m
        BY <2>2, NoneIsNoTransport DEF SocketInv, ReceiverOpen, o
      <3> QED BY <1>7, <2>2, <3>1
    <2>3. CASE u # member[m].receiver
      BY <2>1, <2>3, <1>1, <1>2 DEF o
    <2> QED BY <2>2, <2>3
  <1>8. ASSUME NEW v \in Udps, Deleter(v)
        PROVE  Here
    <2>1. udp[v].state = "closing" /\ udp' = [udp EXCEPT ![v].state = "deleted"] /\ member' = member
      BY <1>8 DEF Deleter
    <2>2. udp'[u] = udp[u]
      BY <2>1
    <2> QED BY <2>1, <2>2, <1>2 DEF o
  <1>9. ASSUME NEW v \in Udps, NEW a \in Addrs, NEW packet \in ClientPackets,
               Received(v, a, packet)
        PROVE  UNCHANGED <<member, udp>>
    BY <1>9 DEF Received, OnUdpReceive, OnStun, OnDtls, OnMedia
  <1> HIDE DEF Here
  <1>10. Here
    BY <1>3, <1>4, <1>5, <1>6, <1>7, <1>8, <1>9 DEF Moves, memberVars
  <1> QED BY <1>10 DEF Here, o

(* The moves that change the streams: a pull, a release, a media packet. *)
Pulled(m, remote) ==
  /\ member[m].uid \in Pullers /\ remote \in Publishers /\ remote # member[m].uid
  /\ \E offer \in ClientOffers : Offered(m, offer)
  /\ AddSubscriber(member[m].uid, remote)

Registered(u, t) ==
  /\ udp[u].state = "open" /\ UNCHANGED <<member, udp>>
  /\ t \in Transports /\ t[1] = udp[u].owner
  /\ AddStream(member[udp[u].owner].uid, t)
  /\ transport'[t].session # "none"

LEMMA MoveStreams ==
  ASSUME RoomInv, SocketInv, Moves
  PROVE  \/ UNCHANGED streamVars
         \/ \E m \in Members, remote \in Uids : Pulled(m, remote)
         \/ \E m \in Members : member[m].state = "live" /\ ReleaseMember(m)
         \/ \E u \in Udps, t \in Transports : Registered(u, t)
  <1>1. ASSUME NEW u \in Udps, NEW a \in Addrs, NEW packet \in ClientPackets,
               Received(u, a, packet)
        PROVE  UNCHANGED streamVars \/ \E t \in Transports : Registered(u, t)
    <2>1. OnUdpReceive(u, a, packet)
      BY <1>1 DEF Received
    <2>2. udp[u].state = "open" /\ UNCHANGED <<member, udp>>
      BY <2>1 DEF OnUdpReceive, OnStun, OnDtls, OnMedia
    <2> QED BY <2>1, <2>2, PacketStreams DEF Registered
  <1>2. \A u \in Udps : Deleter(u) => UNCHANGED streamVars
    BY DEF Deleter
  <1>3. \A m \in Members, uid \in Uids : Joined(m, uid) => UNCHANGED streamVars
    BY DEF Joined
  <1>4. \A m \in Members, offer \in ClientOffers : Refused(m, offer) => UNCHANGED streamVars
    BY DEF Refused
  <1>5. ASSUME NEW m \in Members, NEW offer \in ClientOffers, NEW remote \in Publishers,
               remote # member[m].uid, member[m].uid \in Pullers, Offered(m, offer),
               AddSubscriber(member[m].uid, remote)
        PROVE  remote \in Uids /\ Pulled(m, remote)
    BY <1>5, ClientRules DEF Pulled
  <1> QED BY <1>1, <1>2, <1>3, <1>4, <1>5 DEF Moves

KnownAfter(s, v) == member'[s[1]].uid = v /\ transport'[s].session # "none"

LEMMA KnownStays ==
  ASSUME RoomInv, SocketInv, Moves, NEW s \in Transports, NEW v \in Uids, Known(s, v)
  PROVE  KnownAfter(s, v)
  BY TransportOwner, UidsStay, TransportsStay DEF Known, KnownAfter

LEMMA StepKnown ==
  ASSUME RoomInv, SocketInv, RoomInv', StreamTypes, StreamsKnown, Moves
  PROVE  StreamTypes' /\ StreamsKnown'
  <1>0. \A m \in Members : member'[m].state # "unused" => member'[m].uid \in Uids
    <2> SUFFICES ASSUME NEW m \in Members, member'[m].state # "unused"
                 PROVE  member'[m].uid \in Uids
      OBVIOUS
    <2>1. CASE member[m].state = "unused"
      BY <2>1, UidsStay DEF RoomInv, RoomTypes
    <2>2. CASE member[m].state # "unused"
      BY <2>2, UidsStay DEF StreamsKnown
    <2> QED BY <2>1, <2>2
  <1>1. /\ \A v \in Uids : streams[v] # None => streams[v] \in Transports
        /\ \A t \in Transports, v \in Uids : tsubs[t][v] # None => tsubs[t][v] \in Transports
    BY DEF StreamTypes
  <1>2. /\ \A v \in Uids : streams[v] # None => Known(streams[v], v)
        /\ \A t \in Transports, v \in Uids : tsubs[t][v] # None =>
             Known(tsubs[t][v], v) /\ transport[t].session # "none"
    BY DEF StreamsKnown
  <1>3. \A s \in Transports, v \in Uids : Known(s, v) => KnownAfter(s, v)
    BY KnownStays
  <1>4. \A t \in Transports : transport[t].session # "none" => transport'[t].session # "none"
    BY TransportsStay
  <1>5. ASSUME StreamTypes',
               \A v \in Uids : streams'[v] # None =>
                  streams'[v] = streams[v] \/ (streams'[v] \in Transports /\ KnownAfter(streams'[v], v)),
               \A t \in Transports, v \in Uids : tsubs'[t][v] # None =>
                  \/ tsubs'[t][v] = tsubs[t][v]
                  \/ /\ KnownAfter(tsubs'[t][v], v)
                     /\ transport'[t].session # "none"
        PROVE  StreamTypes' /\ StreamsKnown'
    <2>1. ASSUME NEW v \in Uids, streams'[v] # None
          PROVE  KnownAfter(streams'[v], v)
      <3>1. CASE streams'[v] = streams[v]
        <4>1. KnownAfter(streams[v], v)
          BY <2>1, <3>1, <1>1, <1>2, <1>3
        <4> QED BY <3>1, <4>1 DEF KnownAfter
      <3> QED BY <2>1, <3>1, <1>5
    <2>2. ASSUME NEW t \in Transports, NEW v \in Uids, tsubs'[t][v] # None
          PROVE  KnownAfter(tsubs'[t][v], v) /\ transport'[t].session # "none"
      <3>1. CASE tsubs'[t][v] = tsubs[t][v]
        BY <2>2, <3>1, <1>1, <1>2, <1>3, <1>4 DEF KnownAfter
      <3> QED BY <2>2, <3>1, <1>5
    <2> QED BY <1>0, <1>5, <2>1, <2>2 DEF StreamsKnown, Known, KnownAfter
  <1>6. CASE UNCHANGED streamVars
    <2>1. StreamTypes'
      BY <1>6 DEF streamVars, StreamTypes
    <2> QED BY <1>5, <1>6, <2>1 DEF streamVars
  <1>7. ASSUME NEW m \in Members, NEW remote \in Uids, Pulled(m, remote)
        PROVE  StreamTypes' /\ StreamsKnown'
    <2>1. subs_map' = [subs_map EXCEPT ![member[m].uid] = remote] /\ UNCHANGED <<streams, tsubs>>
      BY <1>7 DEF Pulled, AddSubscriber
    <2>2. StreamTypes'
      BY <2>1 DEF StreamTypes
    <2> QED BY <1>5, <2>1, <2>2
  <1>8. ASSUME NEW m \in Members, member[m].state = "live", ReleaseMember(m)
        PROVE  StreamTypes' /\ StreamsKnown'
    <2>1. member[m].uid \in Uids /\ RemoveSubscriber(member[m].uid)
      BY <1>8 DEF RoomInv, RoomTypes, ReleaseMember, Destory
    <2>2. /\ StreamTypes' /\ UNCHANGED streams
          /\ \A t \in Transports, v \in Uids :
               tsubs'[t][v] = tsubs[t][v] \/ tsubs'[t][v] = None
      BY <2>1, SubscriberRemoved
    <2> QED BY <1>5, <2>2
  <1>9. ASSUME NEW u \in Udps, NEW t \in Transports, Registered(u, t)
        PROVE  StreamTypes' /\ StreamsKnown'
    <2> DEFINE uid == member[t[1]].uid
    <2>1. /\ uid \in Uids /\ AddStream(uid, t)
          /\ transport'[t].session # "none"
          /\ member' = member
      BY <1>9 DEF Registered, SocketInv, SocketOwned, StreamsKnown
    <2>2. KnownAfter(t, uid)
      BY <2>1 DEF KnownAfter
    <2> HIDE DEF uid
    <2>3. /\ StreamTypes' /\ subs_map' = subs_map
          /\ \A v \in Uids : streams'[v] = IF v = uid THEN t ELSE streams[v]
          /\ \A s \in Transports, v \in Uids :
               \/ tsubs'[s][v] = tsubs[s][v]
               \/ /\ s = t /\ v = subs_map[uid]
                  /\ streams'[v] # None /\ tsubs'[s][v] = streams'[v]
               \/ /\ subs_map[uid] # None /\ streams'[subs_map[uid]] = s
                  /\ v = uid /\ tsubs'[s][v] = t
      BY <2>1, StreamAdded
    <2>4. ASSUME NEW v \in Uids, streams'[v] # None
          PROVE  streams'[v] \in Transports /\ KnownAfter(streams'[v], v)
      <3>1. CASE v = uid
        BY <3>1, <2>2, <2>3 DEF KnownAfter
      <3>2. CASE v # uid
        <4>1. streams'[v] = streams[v]
          BY <3>2, <2>3
        <4>2. streams[v] \in Transports /\ KnownAfter(streams[v], v)
          BY <2>4, <4>1, <1>1, <1>2, <1>3
        <4> QED BY <4>1, <4>2 DEF KnownAfter
      <3> QED BY <3>1, <3>2
    <2>5. ASSUME NEW s \in Transports, NEW v \in Uids, tsubs'[s][v] # None
          PROVE  \/ tsubs'[s][v] = tsubs[s][v]
                 \/ /\ KnownAfter(tsubs'[s][v], v)
                    /\ transport'[s].session # "none"
      <3>1. CASE /\ s = t /\ v = subs_map[uid]
                 /\ streams'[v] # None /\ tsubs'[s][v] = streams'[v]
        BY <3>1, <2>1, <2>4 DEF KnownAfter
      <3>2. CASE /\ subs_map[uid] # None /\ streams'[subs_map[uid]] = s
                 /\ v = uid /\ tsubs'[s][v] = t
        <4>1. subs_map[uid] \in Uids
          BY <3>2, <2>1 DEF StreamTypes
        <4>2. s # None
          BY NoneIsNoTransport
        <4>3. transport'[s].session # "none"
          BY <3>2, <4>1, <4>2, <2>4 DEF KnownAfter
        <4> QED BY <3>2, <4>3, <2>2 DEF KnownAfter
      <3> QED BY <3>1, <3>2, <2>3
    <2> QED BY <1>5, <2>3, <2>4, <2>5
  <1> QED BY <1>6, <1>7, <1>8, <1>9, MoveStreams

-----------------------------------------------------------------------------
(* Links that a step does not touch stay right when the live members, their
   streams and what they pull stay. *)
LEMMA LinksStay ==
  ASSUME RoomInv, SocketInv, StreamTypes, StreamsKnown, LinksRight, Moves,
         NEW t \in Transports, NEW v \in Uids,
         member'[t[1]].state = "live", tsubs'[t][v] # None, tsubs'[t][v] = tsubs[t][v]
  PROVE  /\ t[1] \in Members /\ member[t[1]].state = "live"
         /\ member'[t[1]].uid = member[t[1]].uid /\ member[t[1]].uid \in Uids
         /\ tsubs[t][v] \in Transports /\ Known(tsubs[t][v], v)
         /\ streams[member[t[1]].uid] = t
         /\ \/ subs_map[member[t[1]].uid] = v
            \/ /\ subs_map[v] = member[t[1]].uid
               /\ member[tsubs[t][v][1]].state = "live"
  <1>1. transport[t].session # "none" /\ Known(tsubs[t][v], v)
    BY DEF StreamsKnown
  <1>2. t[1] \in Members /\ member[t[1]].state # "unused"
    BY <1>1, TransportOwner
  <1>3. member[t[1]].state = "live" /\ member'[t[1]].uid = member[t[1]].uid
    BY <1>2, UidsStay
  <1>4. member[t[1]].uid \in Uids
    BY <1>2 DEF StreamsKnown
  <1>5. tsubs[t][v] \in Transports
    BY DEF StreamTypes
  <1> QED BY <1>1, <1>2, <1>3, <1>4, <1>5 DEF LinksRight, LinkRight

LEMMA StepLinks ==
  ASSUME OneRoom, OneAddress, RoomInv, SocketInv, StreamTypes, StreamsKnown, LinksRight,
         Moves, ReceiversOnly, ReceiversOnly'
  PROVE  LinksRight'
  <1>0. /\ member \in [Members -> MemberStates] /\ udp \in [Udps -> UdpStates]
        /\ \A m \in Members : member[m].answer \in Nat
    BY DEF RoomInv, RoomTypes, SocketInv, SocketTypes, MemberStates
  <1> SUFFICES ASSUME NEW t \in Transports, NEW v \in Uids,
                      member'[t[1]].state = "live", tsubs'[t][v] # None
               PROVE  /\ streams'[member'[t[1]].uid] = t
                      /\ \/ subs_map'[member'[t[1]].uid] = v
                         \/ /\ subs_map'[v] = member'[t[1]].uid
                            /\ member'[tsubs'[t][v][1]].state = "live"
    BY DEF LinksRight, LinkRight
  <1> DEFINE k == t[1]
             s == tsubs'[t][v]
             Right == /\ streams'[member'[k].uid] = t
                      /\ \/ subs_map'[member'[k].uid] = v
                         \/ subs_map'[v] = member'[k].uid /\ member'[s[1]].state = "live"
             Before == /\ k \in Members /\ member[k].state = "live"
                       /\ member'[k].uid = member[k].uid /\ member[k].uid \in Uids
                       /\ s \in Transports /\ Known(s, v)
                       /\ streams[member[k].uid] = t
                       /\ \/ subs_map[member[k].uid] = v
                          \/ subs_map[v] = member[k].uid /\ member[s[1]].state = "live"
  <1>1. tsubs'[t][v] = tsubs[t][v] => Before
    <2> HAVE tsubs'[t][v] = tsubs[t][v]
    <2> QED BY LinksStay
  <1>2. ASSUME NEW m \in Members, NEW remote \in Uids, Pulled(m, remote)
        PROVE  Right
    <2>1. /\ subs_map' = [subs_map EXCEPT ![member[m].uid] = remote]
          /\ UNCHANGED <<streams, tsubs>>
          /\ member[m].uid \in Uids
      BY <1>2, ClientRules DEF Pulled, AddSubscriber
    <2>2. PICK offer \in ClientOffers : Offered(m, offer)
      BY <1>2 DEF Pulled
    <2>3. PICK port \in Pool \union {NoPort}, u \in Udps, fp \in FpAfter(member[m].fp, offer) :
            AnswerFacts(m, port, u, fp)
      BY <1>0, <2>2, Answered DEF Offered
    <2>4. /\ udp[u].state = "unused" /\ (\A w \in Udps : w # u => udp'[w] = udp[w])
          /\ member'[m].receiver = u /\ member'[m].state = member[m].state
          /\ \A n \in Members : n # m => member'[n] = member[n]
      BY <2>3 DEF AnswerFacts
    <2>5. member[m].state = "live"
      BY <2>2 DEF Offered
    <2>6. member[m].answer = 0
      <3> SUFFICES ASSUME member[m].answer > 0
                   PROVE  FALSE
        BY <1>0
      <3> DEFINE w == member[m].receiver
      <3>1. w \in Udps /\ udp[w].state = "open" /\ udp[w].owner = m
        BY <1>0, <2>5 DEF SocketInv, ReceiverOpen, MemberStates
      <3>2. w # u /\ udp'[w] = udp[w]
        BY <2>4, <3>1
      <3> QED BY <2>4, <3>1, <3>2 DEF ReceiversOnly
    <2>7. \A x \in Transports : x[1] = m => transport[x].session = "none"
      BY <2>6, UnansweredHasNoSocket
    <2>8. Before
      BY <1>1, <2>1
    <2>9. transport[t].session # "none" /\ transport[s].session # "none"
      BY <2>1 DEF StreamsKnown, Known
    <2>10. k # m /\ s[1] # m
      BY <2>7, <2>8, <2>9
    <2>11. member[k].uid # member[m].uid
      BY <2>5, <2>8, <2>10, OneMemberEach
    <2>12. subs_map'[member[k].uid] = subs_map[member[k].uid]
      BY <2>1, <2>8, <2>11 DEF StreamTypes
    <2>13. CASE subs_map[member[k].uid] = v
      BY <2>1, <2>8, <2>12, <2>13
    <2>14. CASE subs_map[v] = member[k].uid /\ member[s[1]].state = "live"
      <3>1. s[1] \in Members /\ member[s[1]].uid = v
        BY <2>8, NoneIsNoTransport DEF Known
      <3>2. v # member[m].uid
        BY <2>5, <2>10, <2>14, <3>1, OneMemberEach
      <3>3. subs_map'[v] = subs_map[v]
        BY <2>1, <3>2 DEF StreamTypes
      <3>4. member'[s[1]] = member[s[1]]
        BY <2>4, <2>10, <3>1
      <3> QED BY <2>1, <2>8, <2>14, <3>3, <3>4
    <2> QED BY <2>8, <2>13, <2>14
  <1>3. ASSUME NEW m \in Members, member[m].state = "live", ReleaseMember(m)
        PROVE  Right
    <2>1. member[m].uid \in Uids /\ RemoveSubscriber(member[m].uid)
      BY <1>3 DEF RoomInv, RoomTypes, ReleaseMember, Destory
    <2>2. /\ UNCHANGED <<subs_map, streams>>
          /\ tsubs'[t][v] = tsubs[t][v] \/ tsubs'[t][v] = None
          /\ subs_map[member[m].uid] # None /\ streams[subs_map[member[m].uid]] = t
                => tsubs'[t][member[m].uid] = None
      BY <2>1, SubscriberRemoved
    <2>3. Before
      BY <1>1, <2>2
    <2>4. \A n \in Members : n # m => member'[n] = member[n]
      BY <1>0, <1>3, Released
    <2>5. CASE subs_map[member[k].uid] = v
      BY <2>2, <2>3, <2>5
    <2>6. CASE subs_map[v] = member[k].uid /\ member[s[1]].state = "live"
      <3>1. s[1] \in Members /\ member[s[1]].uid = v
        BY <2>3, NoneIsNoTransport DEF Known
      <3>2. s[1] # m
        BY <2>2, <2>3, <2>6, <3>1, NoneIsNoTransport
      <3> QED BY <2>2, <2>3, <2>4, <2>6, <3>1, <3>2
    <2> QED BY <2>3, <2>5, <2>6
  <1>4. ASSUME NEW u \in Udps, NEW st \in Transports, Registered(u, st)
        PROVE  Right
    <2> DEFINE m == st[1]
               uid == member[m].uid
    <2>1. /\ m \in Members /\ uid \in Uids /\ AddStream(uid, st)
          /\ transport'[st].session # "none"
          /\ member' = member /\ member[m].state = "live"
      BY <1>4 DEF Registered, SocketInv, SocketOwned, StreamsKnown, ReceiversOnly
    <2>2. /\ StreamTypes' /\ subs_map' = subs_map
          /\ \A w \in Uids : streams'[w] = IF w = uid THEN st ELSE streams[w]
          /\ \/ tsubs'[t][v] = tsubs[t][v]
             \/ /\ t = st /\ v = subs_map[uid]
                /\ streams'[v] # None /\ tsubs'[t][v] = streams'[v]
             \/ /\ subs_map[uid] # None /\ streams'[subs_map[uid]] = t
                /\ v = uid /\ tsubs'[t][v] = st
      BY <2>1, StreamAdded
    <2>3. k \in Members
      BY NoneIsNoTransport
    <2>4. CASE tsubs'[t][v] = tsubs[t][v]
      <3>1. Before
        BY <1>1, <2>4
      <3>2. streams'[member[k].uid] = t
        <4>1. CASE member[k].uid = uid
          <5>1. k = m
            BY <2>1, <3>1, <4>1, OneMemberEach
          <5>2. t = st
            BY <5>1, OneTransportEach
          <5> QED BY <2>1, <2>2, <4>1, <5>2
        <4>2. CASE member[k].uid # uid
          BY <2>2, <3>1, <4>2
        <4> QED BY <4>1, <4>2
      <3> QED BY <2>1, <2>2, <3>1, <3>2
    <2>5. CASE t = st /\ v = subs_map[uid]
      BY <2>1, <2>2, <2>5
    <2>6. CASE /\ subs_map[uid] # None /\ streams'[subs_map[uid]] = t
               /\ v = uid /\ tsubs'[t][v] = st
      <3> DEFINE target == subs_map[uid]
      <3>1. target \in Uids
        BY <2>1, <2>6 DEF StreamTypes
      <3>2. member[k].uid = target
        <4>1. CASE target = uid
          BY <2>2, <2>6, <3>1, <4>1
        <4>2. CASE target # uid
          <5>1. streams[target] = t /\ t # None
            BY <2>2, <2>6, <3>1, <4>2, NoneIsNoTransport
          <5> QED BY <3>1, <5>1 DEF StreamsKnown, Known
        <4> QED BY <4>1, <4>2
      <3> QED BY <2>1, <2>2, <2>6, <3>2
    <2> QED BY <2>2, <2>4, <2>5, <2>6
  <1>5. CASE UNCHANGED streamVars
    <2>1. UNCHANGED <<subs_map, streams, tsubs>>
      BY <1>5 DEF streamVars
    <2>2. Before
      BY <1>1, <2>1
    <2>3. CASE subs_map[member[k].uid] = v
      BY <2>1, <2>2, <2>3
    <2>4. CASE subs_map[v] = member[k].uid /\ member[s[1]].state = "live"
      <3>1. s[1] \in Members
        BY <2>2, NoneIsNoTransport
      <3>2. member'[s[1]].state = "live" \/ \E m \in Members : member[m].state = "live" /\ ReleaseMember(m)
        BY <3>1, <2>4, LiveUnlessReleased
      <3> QED BY <2>1, <2>2, <2>4, <3>2, <1>3
    <2> QED BY <2>2, <2>3, <2>4
  <1> HIDE DEF Before
  <1>6. Right
    BY <1>2, <1>3, <1>4, <1>5, MoveStreams
  <1> QED BY <1>6

LEMMA StepLinkInv ==
  ASSUME OneRoom, OneAddress, BaseInv, LinkInv, [Next]_vars
  PROVE  LinkInv' /\ BaseInv' /\ Moves
  <1>1. Moves /\ BaseInv'
    BY StepMoves, BaseStep DEF BaseInv
  <1>2. StreamTypes' /\ StreamsKnown'
    BY <1>1, StepKnown DEF BaseInv, LinkInv
  <1>3. ReceiversOnly' => LinksRight'
    <2> HAVE ReceiversOnly'
    <2>1. ReceiversOnly
      BY <1>1, OrphansStay DEF BaseInv
    <2> QED BY <1>1, <2>1, StepLinks DEF BaseInv, LinkInv
  <1> QED BY <1>1, <1>2, <1>3 DEF LinkInv

(* The media of a packet goes to subscribers of its sender's transport. *)
LEMMA Forwards ==
  ASSUME NEW u \in Udps, NEW a \in Addrs, NEW packet \in ClientPackets,
         OnUdpReceive(u, a, packet), NEW p \in forwarded' \ forwarded
  PROVE  LET t == <<udp[u].owner, a>>
         IN  \E v \in Uids : tsubs'[t][v] # None /\ p = <<t, tsubs'[t][v]>>
  <1> DEFINE m == udp[u].owner
             t == <<m, a>>
  <1>1. PICK authentic \in BOOLEAN : OnMedia(m, a, u, authentic)
    BY DEF OnUdpReceive, OnStun, OnDtls
  <1>2. Relay(t, authentic)
    BY <1>1 DEF OnMedia
  <1>3. SendToSubscribers(t)
    BY <1>2 DEF Relay
  <1>4. \E s \in Receivers(t) : p = <<t, s>>
    BY <1>3 DEF SendToSubscribers
  <1> QED BY <1>4 DEF Receivers

(* A live member's link, after a step. *)
LEMMA LinkAfter ==
  ASSUME LinkInv', ReceiversOnly', NEW t \in Transports, NEW v \in Uids,
         tsubs'[t][v] # None
  PROVE  /\ member'[tsubs'[t][v][1]].uid = v
         /\ transport'[tsubs'[t][v]].session # "none"
         /\ tsubs'[t][v] \in Transports
         /\ member'[t[1]].state = "live" =>
              \/ subs_map'[member'[t[1]].uid] = v
              \/ /\ subs_map'[v] = member'[t[1]].uid
                 /\ member'[tsubs'[t][v][1]].state = "live"
  BY DEF LinkInv, StreamTypes, StreamsKnown, Known, LinksRight, LinkRight

(***************************************************************************)
(* When every user is in one room, sends from one address and makes one    *)
(* offer, media passes only between a user that pulls and the user it      *)
(* pulls from, however users come, leave and return and in whichever order *)
(* their streams come up (add_stream, remove_subscriber, on_rtp_packet).   *)
(***************************************************************************)
THEOREM MediaOnlyAlongPulls ==
  ASSUME OneRoom, OneAddress, MaxOffers <= 1
  PROVE  Spec => MediaFollowsPulls
  <1> DEFINE Inv == BaseInv /\ LinkInv /\ ReceiversOnly
             Follows == \A p \in forwarded' \ forwarded :
                          LET from == member[p[1][1]].uid
                              to   == member[p[2][1]].uid
                          IN  subs_map[from] = to \/ subs_map[to] = from
  <1>1. Init => Inv
    <2> SUFFICES ASSUME Init
                 PROVE  Inv
      OBVIOUS
    <2>1. \A u \in Udps : udp[u].state = "unused"
      BY DEF Init, MemberInit
    <2> QED BY <2>1, BaseInit, InitLinks DEF ReceiversOnly
  <1>2. Inv /\ [Next]_vars => Inv'
    BY StepLinkInv, OneOfferNoOrphan DEF BaseInv
  <1>3. Inv /\ [Next]_vars => [Follows]_vars
    <2> SUFFICES ASSUME Inv, [Next]_vars, NEW p \in forwarded' \ forwarded
                 PROVE  \/ subs_map[member[p[1][1]].uid] = member[p[2][1]].uid
                        \/ subs_map[member[p[2][1]].uid] = member[p[1][1]].uid
      OBVIOUS
    <2>1. Inv' /\ Moves
      BY <1>2, StepLinkInv
    <2>2. PICK u \in Udps, a \in Addrs, packet \in ClientPackets : OnUdpReceive(u, a, packet)
      BY <2>1 DEF Moves, memberVars, Joined, Offered, Answer, Refused, ReleaseMember, Deleter, Received
    <2> DEFINE m == udp[u].owner
               t == <<m, a>>
    <2>3. PICK v \in Uids : tsubs'[t][v] # None /\ p = <<t, tsubs'[t][v]>>
      BY <2>2, Forwards
    <2>4. m \in Members /\ member[m].state = "live" /\ t \in Transports
      <3>1. udp[u].state = "open" /\ BaseInv /\ ReceiversOnly
        BY <2>2 DEF OnUdpReceive
      <3>2. m \in Members
        BY <3>1 DEF BaseInv, SocketInv, SocketOwned
      <3> QED BY <3>1, <3>2 DEF ReceiversOnly, Transports
    <2>5. UNCHANGED <<member, subs_map>>
      <3>1. transport \in [Transports -> TransportStates]
        BY DEF BaseInv, SocketInv, SocketTypes
      <3> QED BY <2>2, <2>4, <3>1, Delivered
    <2>6. /\ member'[tsubs'[t][v][1]].uid = v
          /\ \/ subs_map'[member'[m].uid] = v
             \/ subs_map'[v] = member'[m].uid
      <3>1. /\ member'[t[1]].state = "live" /\ LinkInv' /\ ReceiversOnly'
            /\ t[1] = m
        BY <2>1, <2>4, <2>5
      <3> HIDE DEF t
      <3> QED BY <2>3, <2>4, <3>1, LinkAfter
    <2>7. \/ subs_map[member[m].uid] = v
          \/ subs_map[v] = member[m].uid
      BY <2>5, <2>6
    <2>8. p[1][1] = m /\ member[p[2][1]].uid = v
      BY <2>3, <2>5, <2>6
    <2> QED BY <2>7, <2>8
  <1> HIDE DEF Inv
  <1> QED BY <1>1, <1>2, <1>3, PTL DEF Spec, MediaFollowsPulls

-----------------------------------------------------------------------------
(***************************************************************************)
(* What can bring the server down.  A user that publishes is not in        *)
(* subs_map, so remove_subscriber returns early for it.                    *)
(***************************************************************************)
PullRoles ==
  \A v \in Uids : subs_map[v] # None => v \in Pullers /\ subs_map[v] \in Publishers

LEMMA StepRoles ==
  ASSUME BaseInv, StreamTypes, PullRoles, Moves
  PROVE  PullRoles'
  <1>1. \A m \in Members : ReleaseMember(m) => UNCHANGED subs_map
    BY DEF ReleaseMember, Destory, RemoveSubscriber
  <1>2. \A u \in Udps, t \in Transports : Registered(u, t) => UNCHANGED subs_map
    BY DEF Registered, AddStream
  <1>3. ASSUME NEW m \in Members, NEW remote \in Uids, Pulled(m, remote)
        PROVE  PullRoles'
    <2>1. /\ subs_map' = [subs_map EXCEPT ![member[m].uid] = remote]
          /\ member[m].uid \in Pullers /\ remote \in Publishers
      BY <1>3 DEF Pulled, AddSubscriber
    <2> QED BY <2>1, ClientRules DEF PullRoles, StreamTypes
  <1>4. UNCHANGED subs_map => PullRoles'
    BY DEF PullRoles
  <1> QED BY <1>1, <1>2, <1>3, <1>4, MoveStreams DEF BaseInv, streamVars

(* The invalid accesses that a packet can lead to. *)
LEMMA PacketFaults ==
  ASSUME NEW u \in Udps, NEW a \in Addrs, NEW packet \in ClientPackets,
         OnUdpReceive(u, a, packet), up, ~ up', StreamTypes',
         transport \in [Transports -> TransportStates], udp[u].owner \in Members
  PROVE  \/ Orphan(u)
         \/ member[udp[u].owner].fp \in {"empty", "nodtls"}
         \/ \E s \in Transports : transport'[s].session = "keyless"
         \/ \E v \in Uids : LET s == tsubs'[<<udp[u].owner, a>>][v]
                            IN  s # None /\ udp[transport'[s].udp].state = "deleted"
  <1> DEFINE m == udp[u].owner
             t == <<m, a>>
             Keyless == \E s \in Transports : transport'[s].session = "keyless"
             Deleted == \E v \in Uids : /\ tsubs'[t][v] # None
                                        /\ udp[transport'[tsubs'[t][v]].udp].state = "deleted"
  <1>1. t \in Transports
    BY DEF Transports
  <1>2. OnStun(m, a) => FALSE
    BY DEF OnStun
  <1>3. OnDtls(m, a) => member[m].fp \in {"empty", "nodtls"}
    <2>1. OnDtls(m, a) => UNCHANGED up \/ member[m].fp \in {"empty", "nodtls"}
      BY Zenon DEF OnDtls
    <2> QED BY <2>1
  <1>4. \A s \in Receivers(t) : s \in Transports /\ \E v \in Uids : tsubs'[t][v] # None /\ s = tsubs'[t][v]
    <2> SUFFICES ASSUME NEW s \in Receivers(t)
                 PROVE  s \in Transports /\ \E v \in Uids : tsubs'[t][v] # None /\ s = tsubs'[t][v]
      OBVIOUS
    <2>1. PICK v \in Uids : tsubs'[t][v] # None /\ s = tsubs'[t][v]
      BY Zenon DEF Receivers
    <2>2. tsubs'[t][v] \in Transports \union {None}
      BY <1>1, <2>1 DEF StreamTypes
    <2> QED BY <2>1, <2>2
  <1>5. SendToSubscribers(t) => Keyless \/ Deleted
    <2> SUFFICES ASSUME SendToSubscribers(t)
                 PROVE  Keyless \/ Deleted
      OBVIOUS
    <2>1. \E s \in Receivers(t) : \/ transport'[s].session = "keyless"
                                 \/ udp[transport'[s].udp].state = "deleted"
      BY DEF SendToSubscribers
    <2> QED BY <1>4, <2>1
  <1>6. ASSUME NEW authentic \in BOOLEAN, Relay(t, authentic)
        PROVE  Keyless \/ Deleted
    BY <1>1, <1>5, <1>6 DEF Relay
  <1>7. ASSUME NEW authentic \in BOOLEAN, OnMedia(m, a, u, authentic)
        PROVE  Keyless \/ Deleted
    <2>1. Create(t, u, "keyless") => transport'[t].session = "keyless"
      BY <1>1 DEF Create
    <2>2. Create(t, u, "keyless") \/ Relay(t, authentic)
      BY <1>7 DEF OnMedia
    <2> QED BY <1>1, <1>6, <2>1, <2>2
  <1> HIDE DEF Keyless, Deleted
  <1>8. \/ Orphan(u)
        \/ member[m].fp \in {"empty", "nodtls"}
        \/ Keyless \/ Deleted
    BY <1>2, <1>3, <1>7 DEF OnUdpReceive
  <1> QED BY <1>8 DEF Keyless, Deleted

Cause == DepartedPublisher \/ KeylessTransport \/ OrphanSocket \/ NoFingerprint

LEMMA CrashHasCause ==
  ASSUME Publishers \intersect Pullers = {}, BaseInv, BaseInv', LinkInv', PullRoles',
         NEW u \in Udps, NEW a \in Addrs, NEW packet \in ClientPackets,
         Received(u, a, packet), up, ~ up'
  PROVE  Cause'
  <1> DEFINE m == udp[u].owner
             t == <<m, a>>
  <1>1. /\ OnUdpReceive(u, a, packet) /\ StreamTypes'
        /\ transport \in [Transports -> TransportStates]
    BY DEF Received, BaseInv, SocketInv, SocketTypes, LinkInv
  <1>2. /\ m \in Members /\ t \in Transports /\ member[m].answer > 0
        /\ udp[u].state = "open"
    BY <1>1 DEF OnUdpReceive, BaseInv, SocketInv, SocketOwned, Transports
  <1>3. UNCHANGED <<member, udp, subs_map>>
    BY <1>1, <1>2, Delivered
  <1>4. CASE Orphan(u)
    <2>1. OrphanSocket'
      BY <1>2, <1>3, <1>4 DEF OrphanSocket, Orphan
    <2> QED BY <2>1 DEF Cause
  <1>5. CASE member[m].fp \in {"empty", "nodtls"}
    <2>1. NoFingerprint'
      BY <1>2, <1>3, <1>5 DEF NoFingerprint
    <2> QED BY <2>1 DEF Cause
  <1>6. CASE \E s \in Transports : transport'[s].session = "keyless"
    <2>1. KeylessTransport'
      BY <1>6 DEF KeylessTransport
    <2> QED BY <2>1 DEF Cause
  <1>7. ASSUME NEW v \in Uids, tsubs'[t][v] # None,
               udp[transport'[tsubs'[t][v]].udp].state = "deleted",
               ~ \E s \in Transports : transport'[s].session = "keyless", ~ OrphanSocket'
        PROVE  DepartedPublisher'
    <2> DEFINE s == tsubs'[t][v]
    <2>1. ReceiversOnly'
      BY <1>7 DEF ReceiversOnly, OrphanSocket, Orphan
    <2>2. member'[m].state = "live"
      BY <1>2, <1>3, <2>1 DEF ReceiversOnly
    <2>3. /\ s \in Transports /\ member'[s[1]].uid = v /\ transport'[s].session # "none"
          /\ \/ subs_map'[member'[m].uid] = v
             \/ member'[s[1]].state = "live"
      <3>1. LinkInv' /\ t[1] = m /\ tsubs'[t][v] # None
        BY <1>7
      <3> HIDE DEF t
      <3> QED BY <1>2, <2>1, <2>2, <3>1, LinkAfter
    <2> HIDE DEF s
    <2>4. transport'[s].session = "keyed"
      <3>1. transport'[s] \in TransportStates
        BY <2>3 DEF BaseInv, SocketInv, SocketTypes
      <3> QED BY <1>7, <2>3, <3>1 DEF TransportStates
    <2>5. /\ transport'[s].udp \in Udps /\ udp'[transport'[s].udp].owner = s[1]
          /\ udp'[transport'[s].udp].state = "deleted"
      BY <1>3, <1>7, <2>3 DEF s, BaseInv, SocketInv, SendsOnOwn
    <2>6. member'[s[1]].state = "freed" /\ s[1] \in Members
      BY <2>5 DEF BaseInv, SocketInv, SocketOwned
    <2>7. subs_map'[member'[m].uid] = v /\ member'[m].uid \in Uids
      BY <1>2, <2>2, <2>3, <2>6 DEF LinkInv, StreamsKnown
    <2>8. subs_map'[v] = None
      BY <2>7, NoneIsNoTransport DEF PullRoles
    <2>9. s[2] \in Addrs /\ s = <<s[1], s[2]>>
      BY <2>3 DEF Transports
    <2> QED BY <2>3, <2>4, <2>6, <2>8, <2>9 DEF DepartedPublisher
  <1>8. \/ Orphan(u)
        \/ member[m].fp \in {"empty", "nodtls"}
        \/ \E s \in Transports : transport'[s].session = "keyless"
        \/ \E v \in Uids : tsubs'[t][v] # None /\ udp[transport'[tsubs'[t][v]].udp].state = "deleted"
    BY <1>1, <1>2, PacketFaults
  <1> HIDE DEF m, t
  <1>9. CASE \E v \in Uids : tsubs'[t][v] # None /\ udp[transport'[tsubs'[t][v]].udp].state = "deleted"
    BY <1>6, <1>7, <1>9 DEF Cause
  <1> QED BY <1>4, <1>5, <1>6, <1>8, <1>9

(* The server goes down only in the middle of a packet. *)
LEMMA DownByPacket ==
  ASSUME RoomInv, ConnTypes, [Next]_vars, up, ~ up'
  PROVE  \E u \in Udps, a \in Addrs, packet \in ClientPackets : Received(u, a, packet)
  <1>1. Moves
    BY StepMoves
  <1> QED BY <1>1 DEF Moves, memberVars, Joined, Offered, Answer, Refused, ReleaseMember, Deleter

(* What is fixed when the server is down. *)
LEMMA CauseStays ==
  ASSUME RoomInv, ConnTypes, [Next]_vars, ~ up, Cause
  PROVE  Cause' /\ UNCHANGED up
  <1>1. UNCHANGED <<memberVars, streamVars>>
    BY StepMoves
  <1> QED BY <1>1 DEF Cause, DepartedPublisher, KeylessTransport, OrphanSocket, Orphan,
                      NoFingerprint, memberVars, streamVars

(***************************************************************************)
(* Whatever offers and packets clients send, in whatever order and timing, *)
(* and however often, on_udp_receive and the handlers behind it reach an   *)
(* invalid object only for one of the four causes, when users either       *)
(* publish or pull, are in one room and send from one address.             *)
(***************************************************************************)
THEOREM FaultsHaveCause ==
  ASSUME OneRoom, OneAddress, Publishers \intersect Pullers = {}
  PROVE  Spec => []FaultHasCause
  <1> DEFINE Inv == BaseInv /\ LinkInv /\ PullRoles /\ (up \/ Cause)
  <1>1. Init => Inv
    <2> SUFFICES ASSUME Init
                 PROVE  Inv
      OBVIOUS
    <2>1. up /\ PullRoles
      BY DEF Init, MemberInit, StreamInit, PullRoles
    <2> QED BY <2>1, BaseInit, InitLinks
  <1>2. Inv /\ [Next]_vars => Inv'
    <2> SUFFICES ASSUME Inv, [Next]_vars
                 PROVE  Inv'
      OBVIOUS
    <2>1. LinkInv' /\ BaseInv' /\ Moves
      BY StepLinkInv
    <2>2. PullRoles'
      BY <2>1, StepRoles DEF LinkInv
    <2>3. CASE up /\ ~ up'
      <3>1. PICK u \in Udps, a \in Addrs, packet \in ClientPackets : Received(u, a, packet)
        BY <2>3, DownByPacket DEF BaseInv
      <3>2. Cause'
        BY <2>1, <2>2, <2>3, <3>1, CrashHasCause
      <3> QED BY <2>1, <2>2, <3>2
    <2>4. CASE ~ up
      BY <2>1, <2>2, <2>4, CauseStays DEF BaseInv
    <2> QED BY <2>1, <2>2, <2>3, <2>4
  <1>3. Inv => FaultHasCause
    BY DEF FaultHasCause, Cause
  <1> HIDE DEF Inv
  <1> QED BY <1>1, <1>2, <1>3, PTL DEF Spec

-----------------------------------------------------------------------------
(* What the use that readme.md describes keeps away: transports without keys
   and members without a fingerprint. *)
Keyed == \A t \in Transports : transport[t].session # "keyless"

Fingerprinted == \A m \in Members : member[m].answer > 0 => member[m].fp = "set"

LEMMA StepKeyed ==
  ASSUME BaseInv, Moves, MediaTiming = "ordered", Keyed
  PROVE  Keyed'
  <1>0. transport \in [Transports -> TransportStates]
    BY DEF BaseInv, SocketInv, SocketTypes
  <1>1. UNCHANGED transport => Keyed'
    BY DEF Keyed
  <1>2. ASSUME NEW u \in Udps, NEW a \in Addrs, NEW packet \in ClientPackets,
               Received(u, a, packet)
        PROVE  Keyed'
    <2> DEFINE m == udp[u].owner
               t == <<m, a>>
    <2>1. CASE UNCHANGED transport
      BY <1>1, <2>1
    <2>2. CASE ~ UNCHANGED transport
      <3>1. PICK authentic \in BOOLEAN : OnMedia(m, a, u, authentic) /\ MediaInTime(m, a)
        BY <1>2, <2>2 DEF Received, OnUdpReceive, OnStun, OnDtls
      <3>2. handles[m][a].dtls = "connected" \/ transport[t].session # "none"
        BY <3>1 DEF MediaInTime
      <3>3. Create(t, u, "keyed")
        BY <2>2, <3>1, <3>2 DEF OnMedia, SetSrtpParam
      <3> QED BY <1>0, <3>3 DEF Keyed, Create
    <2> QED BY <2>1, <2>2
  <1>3. \A m \in Members, offer \in ClientOffers : Offered(m, offer) => UNCHANGED transport
    BY DEF Offered, Answer
  <1> QED BY <1>1, <1>2, <1>3 DEF Moves, Joined, Refused, ReleaseMember, Deleter, memberVars

LEMMA StepFingerprinted ==
  ASSUME BaseInv, Moves, ClientOffers \subseteq {"good"}, Fingerprinted,
         \A m \in Members : member[m].fp \in {"empty", "set"}
  PROVE  /\ Fingerprinted'
         /\ \A m \in Members : member'[m].fp \in {"empty", "set"}
  <1>0. /\ member \in [Members -> MemberStates] /\ udp \in [Udps -> UdpStates]
        /\ \A m \in Members : member[m].answer \in Nat
    BY DEF BaseInv, RoomInv, RoomTypes, MemberStates, SocketInv, SocketTypes
  <1> DEFINE Good(m) == /\ member'[m].answer > 0 => member'[m].fp = "set"
                        /\ member'[m].fp \in {"empty", "set"}
  <1>1. UNCHANGED member => \A m \in Members : Good(m)
    BY DEF Fingerprinted
  <1>2. ASSUME NEW m \in Members, NEW uid \in Uids, Joined(m, uid)
        PROVE  \A n \in Members : Good(n)
    <2>1. /\ member'[m] = NewMember(uid)
          /\ \A n \in Members : n # m => member'[n] = member[n]
      BY <1>0, <1>2 DEF Joined
    <2> QED BY <2>1 DEF NewMember, Fingerprinted
  <1>3. ASSUME NEW m \in Members, NEW offer \in ClientOffers, Offered(m, offer)
        PROVE  \A n \in Members : Good(n)
    <2>1. PICK port \in Pool \union {NoPort}, u \in Udps, fp \in FpAfter(member[m].fp, offer) :
            AnswerFacts(m, port, u, fp)
      BY <1>0, <1>3, Answered DEF Offered
    <2>2. fp = "set"
      BY DEF FpAfter
    <2>3. member'[m].fp = "set" /\ \A n \in Members : n # m => member'[n] = member[n]
      BY <2>1, <2>2 DEF AnswerFacts
    <2> QED BY <2>3 DEF Fingerprinted
  <1>4. \A m \in Members, offer \in ClientOffers : ~ Refused(m, offer)
    BY DEF Refused, Parses
  <1>5. ASSUME NEW m \in Members, ReleaseMember(m)
        PROVE  \A n \in Members : Good(n)
    <2>1. \A n \in Members : member'[n].answer = member[n].answer /\ member'[n].fp = member[n].fp
      BY <1>0, <1>5 DEF ReleaseMember, MemberStates
    <2> QED BY <2>1 DEF Fingerprinted
  <1>6. ASSUME NEW u \in Udps, NEW a \in Addrs, NEW packet \in ClientPackets,
               Received(u, a, packet)
        PROVE  UNCHANGED member
    BY <1>6, PacketKeepsMembers DEF Received
  <1>7. \A u \in Udps : Deleter(u) => UNCHANGED member
    BY DEF Deleter
  <1> HIDE DEF Good
  <1>8. \A m \in Members : Good(m)
    BY <1>1, <1>2, <1>3, <1>4, <1>5, <1>6, <1>7 DEF Moves, memberVars
  <1> QED BY <1>8 DEF Good, Fingerprinted

(***************************************************************************)
(* When clients use the server as readme.md says (one offer with a         *)
(* fingerprint each, media after the handshake), only the stream of a      *)
(* publisher that has left, which remove_subscriber does not take out, can *)
(* bring it down: users that pull come and go without harm.                *)
(***************************************************************************)
THEOREM OnlyDepartedPublishersHarm ==
  ASSUME OneRoom, OneAddress, Publishers \intersect Pullers = {},
         MaxOffers <= 1, MediaTiming = "ordered", ClientOffers \subseteq {"good"}
  PROVE  Spec => []FaultNeedsDepartedPublisher
  <1> DEFINE Fps == \A m \in Members : member[m].fp \in {"empty", "set"}
             Inv == BaseInv /\ ReceiversOnly /\ Keyed /\ Fingerprinted /\ Fps
  <1>1. Init => Inv
    <2> SUFFICES ASSUME Init
                 PROVE  Inv
      OBVIOUS
    <2>1. /\ \A u \in Udps : udp[u].state = "unused"
          /\ \A t \in Transports : transport[t].session = "none"
          /\ \A m \in Members : member[m].fp = "empty" /\ member[m].answer = 0
      BY DEF Init, MemberInit, NewMember
    <2> QED BY <2>1, BaseInit DEF ReceiversOnly, Keyed, Fingerprinted
  <1>2. Inv /\ [Next]_vars => Inv'
    <2> SUFFICES ASSUME Inv, [Next]_vars
                 PROVE  Inv'
      OBVIOUS
    <2>1. BaseInv' /\ Moves
      BY BaseStep, StepMoves DEF BaseInv
    <2>2. ReceiversOnly'
      BY <2>1, OneOfferNoOrphan DEF BaseInv
    <2>3. Keyed'
      BY <2>1, StepKeyed
    <2>4. Fingerprinted' /\ Fps'
      BY <2>1, StepFingerprinted
    <2> QED BY <2>1, <2>2, <2>3, <2>4
  <1>3. Inv /\ FaultHasCause => FaultNeedsDepartedPublisher
    BY OrphansApart DEF FaultHasCause, FaultNeedsDepartedPublisher, Keyed, KeylessTransport,
       Fingerprinted, NoFingerprint
  <1> HIDE DEF Inv
  <1> QED BY <1>1, <1>2, <1>3, FaultsHaveCause, PTL DEF Spec
=============================================================================
