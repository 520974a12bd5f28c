--------------------------- MODULE PortUse_proofs ---------------------------
(***************************************************************************)
(* Proofs about the port allocator, for every port range and step.         *)
(***************************************************************************)
EXTENDS PortUse, FiniteSetTheorems, TLAPS

(* Multiplication by a positive step keeps the order. *)
LEMMA StepMonotone ==
  ASSUME NEW i \in Nat, NEW j \in Nat, i <= j
  PROVE  i * Step <= j * Step
BY PortRange, SMT

(* _max counts whole steps: the last block still ends below End. *)
LEMMA MaxFits ==
  /\ Max \in Nat
  /\ Max * Step <= End - Start
<1>1. End - Start \in Nat
  BY PortRange
<1>2. QED
  BY <1>1, PortRange, SMT DEF Max

(* Every port of the array has its whole block inside the range. *)
LEMMA PortInRange ==
  ASSUME NEW i \in Slots
  PROVE  /\ Port(i) \in Nat
         /\ Port(i) >= Start
         /\ Port(i) + Step <= End
<1>1. i \in Nat /\ i + 1 \in Nat /\ i + 1 <= Max
  BY MaxFits DEF Slots
<1>2. i * Step \in Nat /\ (i + 1) * Step = i * Step + Step
  BY <1>1, PortRange, SMT
<1>3. (i + 1) * Step <= Max * Step
  BY <1>1, MaxFits, StepMonotone
<1>4. QED
  BY <1>2, <1>3, MaxFits, PortRange DEF Port

(* The blocks of two slots follow each other. *)
LEMMA PortsApart ==
  ASSUME NEW i \in Slots, NEW j \in Slots, i < j
  PROVE  Port(i) + Step <= Port(j)
<1>1. i \in Nat /\ j \in Nat /\ i + 1 \in Nat /\ i + 1 <= j
  BY MaxFits DEF Slots
<1>2. (i + 1) * Step <= j * Step
  BY <1>1, StepMonotone
<1>3. (i + 1) * Step = i * Step + Step /\ i * Step \in Nat /\ j * Step \in Nat
  BY <1>1, PortRange, SMT
<1>4. QED
  BY <1>2, <1>3, PortRange DEF Port

(* The failure value 0 is no port. *)
LEMMA NoPortNotInPool == NoPort \notin Pool
BY PortInRange, PortRange DEF Pool, NoPort

-----------------------------------------------------------------------------
(* init fills the array with each port of the range once. *)
LEMMA InitIInv == Init => IInv
<1> SUFFICES ASSUME Init PROVE IInv
  OBVIOUS
<1> USE DEF Init, PmInit
<1>1. Max \in Nat
  BY MaxFits
<1>2. Unused = Pool /\ Returned = {}
  BY <1>1 DEF Unused, Returned, Pool, Slots
<1>3. \A i, j \in Slots : Port(i) = Port(j) => i = j
  <2> SUFFICES ASSUME NEW i \in Slots, NEW j \in Slots, i # j
               PROVE  Port(i) # Port(j)
    OBVIOUS
  <2>1. Port(i) \in Nat /\ Port(j) \in Nat
    BY PortInRange
  <2>2. i \in Int /\ j \in Int
    BY DEF Slots
  <2>3. CASE i < j
    BY <2>1, <2>3, PortsApart, PortRange
  <2>4. CASE j < i
    BY <2>1, <2>4, PortsApart, PortRange
  <2>5. QED
    BY <2>2, <2>3, <2>4
<1>4. TypeOK
  BY <1>1 DEF TypeOK, Pool, Slots
<1>5. NoPortTwice
  BY <1>1, <1>2, <1>3 DEF NoPortTwice, Slots
<1>6. NoPortLost
  BY <1>1, <1>2 DEF NoPortLost
<1>7. Counted
  BY FS_EmptySet DEF Counted
<1>8. QED
  BY <1>4, <1>5, <1>6, <1>7 DEF IInv

(* A port taken from the array leaves the unused ones. *)
LEMMA FromArrayIInv ==
  ASSUME IInv, NEW port \in Pool \union {NoPort}, AllocateFromArray(port),
         held' = IF port = NoPort THEN held ELSE held \union {port},
         result' = port
  PROVE  IInv' /\ port \in Unused
               /\ (Unused \union Returned)' = (Unused \union Returned) \ {port}
<1> USE DEF AllocateFromArray
<1>0. /\ Max \in Nat /\ curr \in 0 .. Max - 1 /\ curr + 1 \in 0 .. Max
      /\ recycle \in 0 .. Max /\ curr \in Slots
      /\ port_array \in [Slots -> Pool]
  BY MaxFits DEF IInv, TypeOK, Slots
<1>1. port \in Pool /\ port # NoPort /\ port \in Unused
  BY <1>0, NoPortNotInPool DEF Unused
<1>2. held' = held \union {port} /\ port \notin held
  BY <1>1 DEF IInv, NoPortTwice
<1>3. Unused' = Unused \ {port}
  <2>1. Unused' = {port_array[i] : i \in curr + 1 .. Max - 1}
    BY DEF Unused, Max
  <2>2. \A i \in curr + 1 .. Max - 1 : port_array[i] # port /\ i \in curr .. Max - 1
    BY <1>0 DEF IInv, NoPortTwice
  <2>3. \A i \in curr .. Max - 1 : i = curr \/ i \in curr + 1 .. Max - 1
    BY <1>0
  <2>4. QED
    BY <2>1, <2>2, <2>3 DEF Unused
<1>4. Returned' = Returned
  BY DEF Returned
<1>5. port \notin Returned
  BY <1>1 DEF IInv, NoPortTwice
<1>6. TypeOK'
  BY <1>0, <1>1, <1>2 DEF IInv, TypeOK, Slots, Pool, Port, Max, NoPort
<1>7. NoPortTwice'
  <2>1. \A i, j \in curr + 1 .. Max - 1 : port_array[i] = port_array[j] => i = j
    BY <1>0 DEF IInv, NoPortTwice
  <2>2. (Unused \intersect Returned = {})'
    BY <1>3, <1>4 DEF IInv, NoPortTwice
  <2>3. (held \intersect (Unused \union Returned) = {})'
    BY <1>2, <1>3, <1>4, <1>5 DEF IInv, NoPortTwice
  <2>4. QED
    BY <2>1, <2>2, <2>3 DEF IInv, NoPortTwice, Max
<1>8. Counted'
  <2>1. IsFiniteSet(held') /\ Cardinality(held') = Cardinality(held) + 1
    BY <1>2, FS_AddElement DEF IInv, Counted
  <2>2. QED
    BY <1>0, <2>1 DEF IInv, Counted
<1>9. NoPortLost'
  <2>1. (held \union Unused \union Returned = Pool)'
    BY <1>1, <1>2, <1>3, <1>4 DEF IInv, NoPortLost, Pool, Slots, Port, Max
  <2>2. recycle <= curr /\ recycle < Max
    BY <1>0 DEF IInv, NoPortLost
  <2>3. QED
    BY <1>0, <2>1, <2>2 DEF NoPortLost, Max
<1>10. QED
  BY <1>1, <1>3, <1>4, <1>5, <1>6, <1>7, <1>8, <1>9 DEF IInv

(* The refill moves all returned ports back, the port given now excepted. *)
LEMMA AfterRefillIInv ==
  ASSUME IInv, NEW port \in Pool \union {NoPort}, AllocateAfterRefill(port),
         held' = IF port = NoPort THEN held ELSE held \union {port},
         result' = port
  PROVE  IInv' /\ port \in Returned
               /\ (Unused \union Returned)' = (Unused \union Returned) \ {port}
<1> DEFINE base == curr - recycle
<1>0. /\ Max \in Nat /\ curr = Max /\ recycle \in 1 .. Max
      /\ recycle' = 0 /\ curr' = base + 1 /\ base \in Slots /\ base + 1 \in 0 .. Max
      /\ port_array' = Refilled /\ port = Refilled[base]
      /\ port_array_rec' = port_array_rec
      /\ port_array \in [Slots -> Pool]
      /\ port_array_rec \in [Slots -> Pool \union {0}]
  BY MaxFits DEF IInv, TypeOK, Slots, AllocateAfterRefill, TakeRefilled
<1>1. Unused = {}
  BY <1>0 DEF Unused
<1>2. \A i \in base .. Max - 1 :
         /\ curr - 1 - i \in 0 .. recycle - 1
         /\ i \in Slots
         /\ Refilled[i] = port_array_rec[curr - 1 - i]
  BY <1>0 DEF Refilled, Slots
<1>3. \A k \in 0 .. recycle - 1 : curr - 1 - k \in base .. Max - 1 /\ k \in Slots
                                 /\ Refilled[curr - 1 - k] = port_array_rec[k]
  <2> TAKE k \in 0 .. recycle - 1
  <2>1. curr - 1 - k \in base .. Max - 1 /\ k \in Slots /\ curr - 1 - (curr - 1 - k) = k
    BY <1>0 DEF Slots
  <2>2. QED
    BY <2>1, <1>2
<1>4. port = port_array_rec[recycle - 1] /\ port \in Returned
  BY <1>0, <1>2 DEF Returned
<1>5. Returned \subseteq Pool /\ port \in Pool /\ port # NoPort
  BY <1>4, NoPortNotInPool DEF IInv, NoPortLost
<1>6. held' = held \union {port} /\ port \notin held
  BY <1>4, <1>5 DEF IInv, NoPortTwice
<1>7. \A i, j \in base .. Max - 1 : Refilled[i] = Refilled[j] => i = j
  <2> TAKE i, j \in base .. Max - 1
  <2> HAVE Refilled[i] = Refilled[j]
  <2>1. port_array_rec[curr - 1 - i] = port_array_rec[curr - 1 - j]
    BY <1>2
  <2>2. curr - 1 - i = curr - 1 - j
    BY <2>1, <1>2 DEF IInv, NoPortTwice
  <2>3. QED
    BY <1>0, <2>2 DEF Slots
<1>8. Unused' = Returned \ {port}
  <2>1. Unused' = {Refilled[i] : i \in base + 1 .. Max - 1}
    BY <1>0 DEF Unused, Max
  <2>2. \A i \in base + 1 .. Max - 1 : i \in base .. Max - 1 /\ i # base /\ base \in base .. Max - 1
    BY <1>0 DEF Slots
  <2>3. \A i \in base + 1 .. Max - 1 : Refilled[i] \in Returned /\ Refilled[i] # port
    <3> TAKE i \in base + 1 .. Max - 1
    <3>1. Refilled[i] # Refilled[base]
      BY <2>2, <1>7
    <3>2. Refilled[i] \in Returned
      BY <2>2, <1>2 DEF Returned
    <3>3. QED
      BY <3>1, <3>2, <1>0
  <2>4. \A k \in 0 .. recycle - 1 : port_array_rec[k] # port =>
            \E i \in base + 1 .. Max - 1 : Refilled[i] = port_array_rec[k]
    <3> TAKE k \in 0 .. recycle - 1
    <3> HAVE port_array_rec[k] # port
    <3>1. k # recycle - 1
      BY <1>4
    <3>2. curr - 1 - k \in base + 1 .. Max - 1
      BY <1>0, <3>1 DEF Slots
    <3>3. QED
      BY <3>2, <1>3
  <2>5. QED
    BY <2>1, <2>3, <2>4 DEF Returned
<1>9. Returned' = {}
  BY <1>0 DEF Returned
<1>10. TypeOK'
  <2>1. Refilled \in [Slots -> Pool]
    <3>1. \A i \in Slots : Refilled[i] \in Pool
      <4> TAKE i \in Slots
      <4>1. CASE i \in base .. curr - 1
        BY <4>1, <1>0, <1>2, <1>5 DEF Returned
      <4>2. CASE i \notin base .. curr - 1
        BY <4>2, <1>0 DEF Refilled
      <4>3. QED
        BY <4>1, <4>2
    <3>2. QED
      BY <3>1 DEF Refilled
  <2>2. QED
    BY <1>0, <1>5, <1>6, <2>1 DEF IInv, TypeOK, Slots, Pool, Port, Max, NoPort
<1>11. NoPortTwice'
  <2>1. \A i, j \in base + 1 .. Max - 1 : Refilled[i] = Refilled[j] => i = j
    BY <1>0, <1>7 DEF Slots
  <2>2. (held \intersect (Unused \union Returned) = {})'
    BY <1>6, <1>8, <1>9 DEF IInv, NoPortTwice
  <2>3. (\A i, j \in curr .. Max - 1 : port_array[i] = port_array[j] => i = j)'
    BY <1>0, <2>1 DEF Max
  <2>4. (\A i, j \in 0 .. recycle - 1 : port_array_rec[i] = port_array_rec[j] => i = j)'
    BY <1>0
  <2>5. QED
    BY <1>9, <2>2, <2>3, <2>4 DEF NoPortTwice
<1>12. Counted'
  <2>1. IsFiniteSet(held') /\ Cardinality(held') = Cardinality(held) + 1
    BY <1>6, FS_AddElement DEF IInv, Counted
  <2>2. QED
    BY <1>0, <2>1 DEF IInv, Counted, Slots
<1>13. NoPortLost'
  <2>1. (held \union Unused \union Returned = Pool)'
    BY <1>1, <1>4, <1>5, <1>6, <1>8, <1>9 DEF IInv, NoPortLost, Pool, Slots, Port, Max
  <2>2. (recycle <= curr)' /\ (recycle < Max)'
    BY <1>0 DEF Max
  <2>3. QED
    BY <2>1, <2>2 DEF NoPortLost
<1>14. QED
  BY <1>1, <1>4, <1>8, <1>9, <1>10, <1>11, <1>12, <1>13 DEF IInv

(* allocate_port returns 0 only when every port is held. *)
LEMMA NothingIInv ==
  ASSUME IInv, NEW port \in Pool \union {NoPort}, AllocateNothing(port),
         held' = IF port = NoPort THEN held ELSE held \union {port},
         result' = port
  PROVE  IInv' /\ port = NoPort /\ held' = held
               /\ Unused \union Returned = {} /\ (Unused \union Returned)' = {}
<1> USE DEF AllocateNothing, pmVars
<1>1. port = NoPort /\ held' = held /\ Max \in Nat /\ curr = Max /\ recycle = 0
  BY MaxFits DEF IInv, TypeOK
<1>2. Unused \union Returned = {} /\ Unused' = Unused /\ Returned' = Returned
  BY <1>1 DEF Unused, Returned, Max
<1>3. TypeOK' /\ Counted'
  BY <1>1 DEF IInv, TypeOK, Counted, Slots, Pool, Port, Max, NoPort
<1>4. NoPortTwice'
  BY <1>1, <1>2 DEF IInv, NoPortTwice, Max
<1>5. NoPortLost'
  BY <1>1, <1>2 DEF IInv, NoPortLost, Pool, Slots, Port, Max
<1>6. QED
  BY <1>1, <1>2, <1>3, <1>4, <1>5 DEF IInv

(* A recycled port always finds a slot: fewer than Max are recycled while
   one is held. *)
LEMMA RecycleIInv ==
  ASSUME IInv, NEW port \in Pool, Recycle(port)
  PROVE  IInv' /\ (Unused \union Returned)' = (Unused \union Returned) \union {port}
<1>0. /\ Max \in Nat /\ curr \in 0 .. Max /\ recycle \in 0 .. Max - 1 /\ recycle \in Slots
      /\ recycle < curr
      /\ port \in held /\ held' = held \ {port} /\ result' = result
      /\ port_array' = port_array /\ curr' = curr /\ recycle' = recycle + 1
      /\ port_array_rec' = [port_array_rec EXCEPT ![recycle] = port]
      /\ port_array_rec \in [Slots -> Pool \union {0}]
  <2>1. Max \in Nat /\ curr \in 0 .. Max /\ recycle \in 0 .. Max
    BY MaxFits DEF IInv, TypeOK
  <2>2. port \in held /\ held # {} /\ recycle < Max
    BY DEF Recycle, IInv, NoPortLost
  <2>3. Cardinality(held) # 0 /\ Cardinality(held) \in Nat
    BY <2>2, FS_EmptySet, FS_CardinalityType DEF IInv, Counted
  <2>4. recycle < curr
    BY <2>1, <2>3 DEF IInv, Counted
  <2>5. ~ (recycle >= Max)
    BY <2>1, <2>2
  <2>6. QED
    BY <2>1, <2>2, <2>4, <2>5 DEF Recycle, RecyclePort, Store, Slots, IInv, TypeOK
<1>1. \A i \in 0 .. recycle - 1 : port_array_rec'[i] = port_array_rec[i] /\ i \in Slots
  BY <1>0 DEF Slots
<1>2. port_array_rec'[recycle] = port
  BY <1>0
<1>3. Returned' = Returned \union {port}
  <2>1. Returned' = {port_array_rec'[i] : i \in 0 .. recycle}
    BY <1>0 DEF Returned
  <2>2. \A i \in 0 .. recycle : i \in 0 .. recycle - 1 \/ i = recycle
    BY <1>0
  <2>3. \A i \in 0 .. recycle - 1 : i \in 0 .. recycle
    BY <1>0
  <2>4. recycle \in 0 .. recycle
    BY <1>0
  <2>5. QED
    BY <2>1, <2>2, <2>3, <2>4, <1>1, <1>2 DEF Returned
<1>4. Unused' = Unused
  BY <1>0 DEF Unused, Max
<1>5. port \notin Unused /\ port \notin Returned
  BY <1>0 DEF IInv, NoPortTwice
<1>6. TypeOK'
  BY <1>0 DEF IInv, TypeOK, Slots, Pool, Port, Max, NoPort
<1>7. NoPortTwice'
  <2>1. (held \intersect (Unused \union Returned) = {})'
    BY <1>0, <1>3, <1>4 DEF IInv, NoPortTwice
  <2>2. (Unused \intersect Returned = {})'
    BY <1>3, <1>4, <1>5 DEF IInv, NoPortTwice
  <2>3. (\A i, j \in 0 .. recycle - 1 : port_array_rec[i] = port_array_rec[j] => i = j)'
    <3> SUFFICES ASSUME NEW i \in 0 .. recycle, NEW j \in 0 .. recycle,
                        port_array_rec'[i] = port_array_rec'[j]
                 PROVE  i = j
      BY <1>0
    <3>0. (i \in 0 .. recycle - 1 \/ i = recycle) /\ (j \in 0 .. recycle - 1 \/ j = recycle)
      BY <1>0
    <3>1. CASE i \in 0 .. recycle - 1 /\ j \in 0 .. recycle - 1
      BY <3>1, <1>1 DEF IInv, NoPortTwice
    <3>2. CASE i \in 0 .. recycle - 1 /\ j = recycle
      BY <3>2, <1>1, <1>2, <1>5 DEF Returned
    <3>3. CASE i = recycle /\ j \in 0 .. recycle - 1
      BY <3>3, <1>1, <1>2, <1>5 DEF Returned
    <3>4. QED
      BY <3>0, <3>1, <3>2, <3>3
  <2>4. (\A i, j \in curr .. Max - 1 : port_array[i] = port_array[j] => i = j)'
    BY <1>0 DEF IInv, NoPortTwice, Max
  <2>5. QED
    BY <2>1, <2>2, <2>3, <2>4 DEF NoPortTwice
<1>8. Counted'
  <2>1. IsFiniteSet(held') /\ Cardinality(held') = Cardinality(held) - 1
    BY <1>0, FS_RemoveElement DEF IInv, Counted
  <2>2. QED
    BY <1>0, <2>1 DEF IInv, Counted
<1>9. NoPortLost'
  <2>1. (held \union Unused \union Returned = Pool)'
    BY <1>0, <1>3, <1>4 DEF IInv, NoPortLost, Pool, Slots, Port, Max
  <2>2. held' # {} => recycle + 1 < Max
    <3> HAVE held' # {}
    <3>1. IsFiniteSet(held') /\ Cardinality(held') # 0 /\ Cardinality(held') \in Nat
      BY <1>8, FS_EmptySet, FS_CardinalityType DEF Counted
    <3>2. QED
      BY <1>0, <1>8, <3>1 DEF Counted
  <2>3. QED
    BY <1>0, <2>1, <2>2 DEF NoPortLost, Max
<1>10. QED
  BY <1>3, <1>4, <1>6, <1>7, <1>8, <1>9 DEF IInv

-----------------------------------------------------------------------------
(* Every step keeps the inductive invariant. *)
LEMMA NextIInv == IInv /\ [Next]_vars => IInv'
<1> SUFFICES ASSUME IInv, [Next]_vars PROVE IInv'
  OBVIOUS
<1>1. CASE Allocate
  <2>1. PICK port \in Pool \union {NoPort} :
           /\ AllocatePort(port)
           /\ held' = IF port = NoPort THEN held ELSE held \union {port}
           /\ result' = port
    BY <1>1 DEF Allocate
  <2>2. CASE AllocateFromArray(port)
    BY <2>1, <2>2, FromArrayIInv
  <2>3. CASE AllocateAfterRefill(port)
    BY <2>1, <2>3, AfterRefillIInv
  <2>4. CASE AllocateNothing(port)
    BY <2>1, <2>4, NothingIInv
  <2>5. QED
    BY <2>1, <2>2, <2>3, <2>4 DEF AllocatePort
<1>2. CASE \E port \in Pool : Recycle(port)
  BY <1>2, RecycleIInv
<1>3. CASE UNCHANGED vars
  <2>1. UNCHANGED <<port_array, port_array_rec, curr, recycle, held, result>>
    BY <1>3 DEF vars, pmVars
  <2>2. Unused' = Unused /\ Returned' = Returned
    BY <2>1 DEF Unused, Returned, Max
  <2>3. TypeOK' /\ Counted'
    BY <2>1 DEF IInv, TypeOK, Counted, Slots, Pool, Port, Max, NoPort
  <2>4. NoPortTwice'
    BY <2>1, <2>2 DEF IInv, NoPortTwice, Max
  <2>5. NoPortLost'
    BY <2>1, <2>2 DEF IInv, NoPortLost, Pool, Slots, Port, Max
  <2>6. QED
    BY <2>3, <2>4, <2>5 DEF IInv
<1>4. QED
  BY <1>1, <1>2, <1>3 DEF Next

(* The invariant holds in every reachable state of the allocator. *)
THEOREM AlwaysIInv == Spec => []IInv
<1>1. QED
  BY InitIInv, NextIInv, PTL DEF Spec

(* Type correctness of the allocator and its callers. *)
THEOREM TypeCorrect == Spec => []TypeOK
<1>1. IInv => TypeOK
  BY DEF IInv
<1>2. QED
  BY <1>1, AlwaysIInv, PTL

(* allocate_port never gives one port to two callers. *)
THEOREM PortsUnique == Spec => []NoPortTwice
<1>1. IInv => NoPortTwice
  BY DEF IInv
<1>2. QED
  BY <1>1, AlwaysIInv, PTL

(* recycle_port never drops a port and the refill stays inside the array. *)
THEOREM PortsKept == Spec => []NoPortLost
<1>1. IInv => NoPortLost
  BY DEF IInv
<1>2. QED
  BY <1>1, AlwaysIInv, PTL

(* The blocks of Step ports that callers hold are inside the range, apart. *)
THEOREM BlocksApart == Spec => []BlocksDisjoint
<1>1. IInv => BlocksDisjoint
  <2> SUFFICES ASSUME IInv PROVE BlocksDisjoint
    OBVIOUS
  <2>1. \A p \in held : \E i \in Slots : p = Port(i)
    BY DEF IInv, TypeOK, Pool
  <2>2. \A p \in held : Block(p) \subseteq Start .. (End - 1)
    <3> TAKE p \in held
    <3>1. p \in Nat /\ p >= Start /\ p + Step <= End
      BY <2>1, PortInRange
    <3>2. QED
      BY <3>1, PortRange DEF Block
  <2>3. \A p, q \in held : p # q => Block(p) \intersect Block(q) = {}
    <3> TAKE p, q \in held
    <3> HAVE p # q
    <3>1. PICK i \in Slots : p = Port(i)
      BY <2>1
    <3>2. PICK j \in Slots : q = Port(j)
      BY <2>1
    <3>3. i \in Int /\ j \in Int /\ i # j /\ p \in Nat /\ q \in Nat
      BY <3>1, <3>2, PortInRange DEF Slots
    <3>4. p + Step <= q \/ q + Step <= p
      <4>1. CASE i < j
        BY <4>1, <3>1, <3>2, PortsApart
      <4>2. CASE j < i
        BY <4>2, <3>1, <3>2, PortsApart
      <4>3. QED
        BY <3>3, <4>1, <4>2
    <3>5. QED
      BY <3>3, <3>4, PortRange DEF Block
  <2>4. QED
    BY <2>2, <2>3 DEF BlocksDisjoint
<1>2. QED
  BY <1>1, AlwaysIInv, PTL

(* The allocator implements the abstract pool: every step is a Take of a free
   port, an Exhausted answer with nothing free, a Give, or a stutter. *)
THEOREM AllocatorImplementsPool == Spec => ImplementsPool
<1>1. Init => Abstract!PoolInit
  <2> SUFFICES ASSUME Init PROVE Abstract!PoolInit
    OBVIOUS
  <2>1. Unused \union Returned = Pool
    BY InitIInv DEF IInv, NoPortLost, Init
  <2>2. QED
    BY <2>1 DEF Init, Abstract!PoolInit
<1>2. IInv /\ IInv' /\ [Next]_vars => [Abstract!PoolNext]_(Abstract!poolVars)
  <2> SUFFICES ASSUME IInv, IInv', [Next]_vars
               PROVE  [Abstract!PoolNext]_(Abstract!poolVars)
    OBVIOUS
  <2>1. CASE Allocate
    <3>1. PICK port \in Pool \union {NoPort} :
             /\ AllocatePort(port)
             /\ held' = IF port = NoPort THEN held ELSE held \union {port}
             /\ result' = port
      BY <2>1 DEF Allocate
    <3>2. ASSUME port \in Unused \union Returned,
                 (Unused \union Returned)' = (Unused \union Returned) \ {port}
          PROVE  Abstract!PoolNext
      <4>1. port \in Pool /\ port # NoPort
        BY <3>2, NoPortNotInPool DEF IInv, NoPortLost
      <4>2. Abstract!Take(port)
        BY <3>1, <3>2, <4>1 DEF Abstract!Take
      <4>3. QED
        BY <4>1, <4>2 DEF Abstract!PoolNext
    <3>3. CASE AllocateFromArray(port)
      BY <3>1, <3>2, <3>3, FromArrayIInv
    <3>4. CASE AllocateAfterRefill(port)
      BY <3>1, <3>2, <3>4, AfterRefillIInv
    <3>5. CASE AllocateNothing(port)
      <4>1. Abstract!Exhausted
        BY <3>1, <3>5, NothingIInv DEF Abstract!Exhausted
      <4>2. QED
        BY <4>1 DEF Abstract!PoolNext
    <3>6. QED
      BY <3>1, <3>3, <3>4, <3>5 DEF AllocatePort
  <2>2. CASE \E port \in Pool : Recycle(port)
    <3>1. PICK port \in Pool : Recycle(port)
      BY <2>2
    <3>2. Abstract!Give(port)
      BY <3>1, RecycleIInv DEF Recycle, Abstract!Give
    <3>3. QED
      BY <3>2 DEF Abstract!PoolNext
  <2>3. CASE UNCHANGED vars
    BY <2>3 DEF vars, pmVars, Unused, Returned, Max, Abstract!poolVars
  <2>4. QED
    BY <2>1, <2>2, <2>3 DEF Next
<1>3. QED
  BY <1>1, <1>2, AlwaysIInv, PTL DEF Spec, ImplementsPool, Abstract!PoolSpec
=============================================================================
