---------------------------- MODULE Wire_proofs -----------------------------
(***************************************************************************)
(* Proofs about parts that MCWire runs: the STUN agent, the send queue,    *)
(* the SRTP sessions, the TLS adapter, the web client, the signals, the    *)
(* tasks and the buffers.                                                  *)
(***************************************************************************)
EXTENDS Stun, ThreadQueue, SrtpSession, TlsAdapter, WebClient, Sigslot, Tasks,
        Buffer, SequenceTheorems, FiniteSetTheorems, NaturalsInduction, WellFoundedInduction, TLAPS

-----------------------------------------------------------------------------
(***************************************************************************)
(* The walk over the attributes of a STUN request and the binding response *)
(* for every set of requests of the size of a datagram, every limit of the *)
(* loop and any number of answers.                                         *)
(***************************************************************************)
(* Padding in 16 bits is padding, for what fits into a datagram. *)
LEMMA RealLenPads ==
  ASSUME NEW n \in Nat, n <= MaxDatagram
  PROVE  RealLen(n) = Padded(n)
  BY DEF RealLen, Padded, MaxDatagram

LEMMA PaddedBounds ==
  ASSUME NEW n \in Nat
  PROVE  Padded(n) \in Nat /\ n <= Padded(n) /\ Padded(20) = 20
  BY DEF Padded

AttrRecords == [type : STRING, len : Nat, at : Nat]

(* Every attribute ends where the next one starts, within the request. *)
LEMMA Layout ==
  ASSUME NEW r \in Requests
  PROVE  /\ r.attrs \in Seq(AttrRecords)
         /\ r.size \in Nat /\ r.size + HeaderSize <= MaxDatagram
         /\ Start(r, 1) = 0
         /\ \A i \in 1 .. Len(r.attrs) :
              LET a == r.attrs[i]
              IN  /\ a \in AttrRecords
                  /\ Start(r, i) = a.at
                  /\ Start(r, i + 1) = a.at + 4 + Padded(a.len)
                  /\ a.at + 4 + Padded(a.len) <= r.size
                  /\ a.type = "INTEGRITY" => a.len = 20
         /\ \A i, j \in 1 .. Len(r.attrs) : r.attrs[i].at = r.attrs[j].at => i = j
  <1> DEFINE n == Len(r.attrs)
  <1>1. IsRequest(r)
    BY StunRequests
  <1>2. /\ r.attrs \in Seq(AttrRecords)
        /\ r.size \in Nat /\ r.size + HeaderSize <= MaxDatagram
        /\ n \in Nat
    BY <1>1 DEF IsRequest, AttrRecords
  <1>3. \A i \in 1 .. n :
          /\ r.attrs[i] \in AttrRecords
          /\ r.attrs[i].at \in Nat /\ r.attrs[i].len \in Nat
          /\ Padded(r.attrs[i].len) \in Nat
    <2> TAKE i \in 1 .. n
    <2>1. r.attrs[i] \in AttrRecords
      BY <1>2
    <2>2. r.attrs[i].at \in Nat /\ r.attrs[i].len \in Nat
      BY <2>1 DEF AttrRecords
    <2> QED BY <2>1, <2>2, PaddedBounds
  <1>4. \A i \in 1 .. n :
          /\ (IF i = n THEN r.size ELSE r.attrs[i + 1].at) = r.attrs[i].at + 4 + Padded(r.attrs[i].len)
          /\ r.attrs[i].type = "INTEGRITY" => r.attrs[i].len = 20
    BY <1>1 DEF IsRequest
  <1>5. \A i, j \in 1 .. n : i < j =>
          r.attrs[i].at + 4 + Padded(r.attrs[i].len) <= r.attrs[j].at
    BY <1>1 DEF IsRequest
  <1>6. Start(r, 1) = 0
    <2>1. CASE n = 0
      <3>1. r.attrs = << >>
        BY <2>1, <1>2
      <3> QED BY <2>1, <3>1, <1>1 DEF IsRequest, Start
    <2>2. CASE n # 0
      <3>1. r.attrs # << >> /\ 1 # n + 1
        BY <2>2, <1>2
      <3> QED BY <3>1, <1>1 DEF IsRequest, Start
    <2> QED BY <2>1, <2>2
  <1>7. \A i \in 1 .. n : Start(r, i) = r.attrs[i].at
    BY <1>2 DEF Start
  <1>8. \A i \in 1 .. n : Start(r, i + 1) = r.attrs[i].at + 4 + Padded(r.attrs[i].len)
    BY <1>2, <1>4 DEF Start
  <1>9. ASSUME NEW i \in 1 .. n
        PROVE  r.attrs[i].at + 4 + Padded(r.attrs[i].len) <= r.size
    <2>1. CASE i = n
      <3>1. r.attrs[i].at + 4 + Padded(r.attrs[i].len) = r.size
        BY <2>1, <1>4
      <3> QED BY <1>2, <3>1
    <2>2. CASE i # n
      <3>1. n \in 1 .. n /\ i < n
        BY <2>2, <1>2
      <3>2. r.attrs[n].at + 4 + Padded(r.attrs[n].len) = r.size
        BY <3>1, <1>4
      <3>3. r.attrs[i].at + 4 + Padded(r.attrs[i].len) <= r.attrs[n].at
        BY <3>1, <1>5
      <3>4. /\ r.attrs[i].at \in Nat /\ Padded(r.attrs[i].len) \in Nat
            /\ r.attrs[n].at \in Nat /\ Padded(r.attrs[n].len) \in Nat
        BY <3>1, <1>3
      <3> DEFINE x == r.attrs[i].at + 4 + Padded(r.attrs[i].len)
                 y == Padded(r.attrs[n].len)
                 z == r.attrs[n].at
      <3>5. x \in Nat /\ y \in Nat /\ z \in Nat
        BY <3>4
      <3>6. z + 4 + y = r.size /\ x <= z
        BY <3>2, <3>3
      <3> HIDE DEF x, y, z
      <3>7. x <= r.size
        BY <3>5, <3>6
      <3> QED BY <3>7 DEF x
    <2> QED BY <2>1, <2>2
  <1>10. \A i, j \in 1 .. n : r.attrs[i].at = r.attrs[j].at => i = j
    <2> SUFFICES ASSUME NEW i \in 1 .. n, NEW j \in 1 .. n, i < j
                 PROVE  r.attrs[i].at # r.attrs[j].at
      OBVIOUS
    <2>1. r.attrs[i].at + 4 + Padded(r.attrs[i].len) <= r.attrs[j].at
      BY <1>5
    <2> QED BY <2>1, <1>3
  <1> QED BY <1>2, <1>3, <1>4, <1>6, <1>7, <1>8, <1>9, <1>10

-----------------------------------------------------------------------------
Busy == {"walk", "check", "respond"}

FoundRecords == [type : STRING, endpos : Nat]

(* The walk, as far as it has come. *)
Walked ==
  /\ stun \in Busy \union {"idle", "died"}
  /\ pos \in Nat /\ counter \in Nat /\ counter <= AttrLimit
  /\ attris \in Seq(FoundRecords)
  /\ stun \in Busy => req \in Requests

WalkInv == Walked /\ WalkExact

(* In the loop there is an attribute left, and the one read is the next. *)
LEMMA NextAttribute ==
  ASSUME WalkInv, stun = "walk", InLoop
  PROVE  /\ counter + 1 \in 1 .. Len(req.attrs)
         /\ AttrAt(req, pos) = counter + 1
         /\ pos = req.attrs[counter + 1].at
  <1>1. /\ req \in Requests /\ counter \in Nat /\ pos \in Nat
        /\ counter \in 0 .. Len(req.attrs) /\ pos = Start(req, counter + 1)
        /\ pos + 4 < req.size
    BY DEF WalkInv, Walked, Busy, WalkExact, InLoop
  <1>2. Len(req.attrs) \in Nat /\ req.size \in Nat
    BY <1>1, Layout
  <1>3. counter + 1 \in 1 .. Len(req.attrs)
    BY <1>1, <1>2 DEF Start
  <1>4. pos = req.attrs[counter + 1].at
    BY <1>1, <1>3, Layout
  <1>5. \A i \in 1 .. Len(req.attrs) : req.attrs[i].at = pos <=> i = counter + 1
    BY <1>1, <1>3, <1>4, Layout
  <1>6. AttrAt(req, pos) = counter + 1
    BY <1>3, <1>5 DEF AttrAt
  <1> QED BY <1>3, <1>4, <1>6

(* Where the loop stands after the attribute. *)
LEMMA NextPlace ==
  ASSUME WalkInv, stun = "walk", InLoop,
         NEW a, a = req.attrs[counter + 1]
  PROVE  /\ a \in AttrRecords
         /\ pos + 4 + (IF a.type = "INTEGRITY" THEN a.len ELSE RealLen(a.len))
              = Start(req, counter + 2)
         /\ Start(req, counter + 2) \in Nat
  <1>1. req \in Requests /\ counter \in Nat
    BY DEF WalkInv, Walked, Busy
  <1>2. counter + 1 \in 1 .. Len(req.attrs) /\ pos = a.at
    BY NextAttribute
  <1>3. /\ a \in AttrRecords
        /\ Start(req, counter + 2) = a.at + 4 + Padded(a.len)
        /\ a.at + 4 + Padded(a.len) <= req.size
        /\ a.type = "INTEGRITY" => a.len = 20
        /\ req.size \in Nat /\ req.size + HeaderSize <= MaxDatagram
    <2>1. (counter + 1) + 1 = counter + 2
      BY <1>1
    <2> QED BY <1>1, <1>2, <2>1, Layout
  <1>4. a.len \in Nat /\ a.at \in Nat
    BY <1>3 DEF AttrRecords
  <1>5. Padded(a.len) \in Nat /\ a.len <= Padded(a.len) /\ Padded(20) = 20
    BY <1>4, PaddedBounds
  <1>6. a.len <= MaxDatagram
    BY <1>3, <1>4, <1>5 DEF HeaderSize, MaxDatagram
  <1>7. RealLen(a.len) = Padded(a.len)
    BY <1>4, <1>6, RealLenPads
  <1>8. (IF a.type = "INTEGRITY" THEN a.len ELSE RealLen(a.len)) = Padded(a.len)
    BY <1>3, <1>5, <1>7
  <1>9. a.at + 4 + Padded(a.len) \in Nat
    BY <1>4, <1>5
  <1> QED BY <1>2, <1>3, <1>8, <1>9

(* What was found stays found. *)
LEMMA FoundStays ==
  ASSUME attris \in Seq(FoundRecords), NEW x \in FoundRecords, NEW i, Found(i),
         attris' = Append(attris, x) \/ attris' = attris, UNCHANGED req
  PROVE  Found(i)'
  <1>1. PICK j \in 1 .. Len(attris) :
          attris[j] = [type |-> req.attrs[i].type, endpos |-> HeaderSize + req.attrs[i].at]
    BY DEF Found
  <1>2. j \in 1 .. Len(attris') /\ attris'[j] = attris[j]
    OBVIOUS
  <1>3. attris'[j] = [type |-> req'.attrs[i].type, endpos |-> HeaderSize + req'.attrs[i].at]
    BY <1>1, <1>2
  <1> QED BY <1>2, <1>3 DEF Found

(* One round of the loop moves from one attribute to the next. *)
LEMMA RoundKeeps ==
  ASSUME WalkInv, ParseAttri
  PROVE  WalkInv'
  <1> DEFINE a == req.attrs[counter + 1]
             x == [type |-> a.type, endpos |-> pos + HeaderSize]
  <1>1. stun = "walk" /\ InLoop /\ stun' = stun /\ req' = req /\ counter' = counter + 1
    BY DEF ParseAttri
  <1>2. /\ req \in Requests /\ counter \in Nat /\ pos \in Nat /\ counter <= AttrLimit
        /\ attris \in Seq(FoundRecords) /\ AttrLimit \in Nat
        /\ \A i \in 1 .. counter : req.attrs[i].type \in Known => Found(i)
    BY <1>1, StunRequests DEF WalkInv, Walked, Busy, WalkExact
  <1>3. counter + 1 \in 1 .. Len(req.attrs) /\ AttrAt(req, pos) = counter + 1 /\ pos = a.at
    BY <1>1, NextAttribute
  <1>4. a \in AttrRecords
    BY <1>1, NextPlace
  <1>5. pos' = Start(req, counter + 2) /\ pos' \in Nat
    BY <1>1, <1>3, NextPlace DEF ParseAttri
  <1>6. attris' = IF a.type \in Known THEN Append(attris, x) ELSE attris
    BY <1>3 DEF ParseAttri
  <1>7. a.type \in STRING /\ a.at \in Nat
    BY <1>4 DEF AttrRecords
  <1>8. x \in FoundRecords
    BY <1>2, <1>7 DEF FoundRecords, HeaderSize
  <1> HIDE DEF x
  <1>9. attris' \in Seq(FoundRecords)
    BY <1>2, <1>6, <1>8
  <1>10. counter' <= AttrLimit /\ counter' \in Nat
    BY <1>1, <1>2 DEF InLoop
  <1>11. Walked'
    BY <1>1, <1>2, <1>5, <1>9, <1>10 DEF Walked, Busy
  <1>12. ASSUME NEW i \in 1 .. counter', req'.attrs[i].type \in Known
         PROVE  Found(i)'
    <2>1. CASE i = counter + 1
      <3>1. attris' = Append(attris, x) /\ Len(attris') = Len(attris) + 1
        BY <2>1, <1>1, <1>2, <1>6, <1>8, <1>12
      <3>2. Len(attris') \in 1 .. Len(attris') /\ attris'[Len(attris')] = x
        BY <3>1, <1>2, <1>8
      <3>3. x = [type |-> req'.attrs[i].type, endpos |-> HeaderSize + req'.attrs[i].at]
        BY <2>1, <1>1, <1>2, <1>3, <1>7 DEF x, HeaderSize
      <3> QED BY <3>2, <3>3 DEF Found
    <2>2. CASE i # counter + 1
      <3>1. i \in 1 .. counter /\ Found(i)
        BY <2>2, <1>1, <1>2, <1>12
      <3> QED BY <3>1, <1>1, <1>2, <1>6, <1>8, FoundStays
    <2> QED BY <2>1, <2>2
  <1>13. counter' \in 0 .. Len(req'.attrs) /\ pos' = Start(req', counter' + 1)
    <2>1. (counter + 1) + 1 = counter + 2
      BY <1>2
    <2>2. Len(req.attrs) \in Nat
      BY <1>2, Layout
    <2> QED BY <2>1, <2>2, <1>1, <1>2, <1>3, <1>5
  <1>14. WalkExact'
    BY <1>1, <1>12, <1>13 DEF WalkExact
  <1> QED BY <1>11, <1>14 DEF WalkInv

(* The loop ends at the end, at its limit, or before a last attribute
   without a value. *)
LEMMA EndKeeps ==
  ASSUME WalkInv, ParseEnd
  PROVE  WalkInv'
  <1>1. /\ stun = "walk" /\ ~ InLoop /\ stun' \in {"check", "respond"}
        /\ UNCHANGED <<req, pos, counter, attris>>
    BY DEF ParseEnd
  <1>2. /\ req \in Requests /\ counter \in Nat /\ pos \in Nat
        /\ counter <= AttrLimit /\ AttrLimit \in Nat
        /\ counter \in 0 .. Len(req.attrs) /\ pos = Start(req, counter + 1)
    BY <1>1, StunRequests DEF WalkInv, Walked, Busy, WalkExact
  <1>3. Len(req.attrs) \in Nat /\ req.size \in Nat
    BY <1>2, Layout
  <1>4. \/ counter = Len(req.attrs)
        \/ counter = AttrLimit
        \/ counter + 1 = Len(req.attrs) /\ req.attrs[counter + 1].len = 0
    <2> SUFFICES ASSUME counter # Len(req.attrs), counter # AttrLimit
                 PROVE  counter + 1 = Len(req.attrs) /\ req.attrs[counter + 1].len = 0
      OBVIOUS
    <2>1. counter + 1 \in 1 .. Len(req.attrs) /\ pos + 4 >= req.size
      BY <1>1, <1>2, <1>3 DEF InLoop
    <2> DEFINE a == req.attrs[counter + 1]
               p == Padded(a.len)
    <2>2. a \in AttrRecords /\ pos = a.at /\ a.at + 4 + p <= req.size
      BY <1>2, <2>1, Layout
    <2>3. a.len \in Nat /\ p \in Nat /\ a.len <= p
      BY <2>2, PaddedBounds DEF AttrRecords
    <2> HIDE DEF p
    <2>4. p = 0 /\ a.len = 0 /\ pos + 4 = req.size
      BY <1>2, <1>3, <2>1, <2>2, <2>3
    <2>5. ASSUME counter + 1 # Len(req.attrs)
          PROVE  FALSE
      <3>1. counter + 2 \in 1 .. Len(req.attrs) /\ (counter + 1) + 1 = counter + 2
        BY <1>2, <1>3, <2>1, <2>5
      <3> DEFINE b == req.attrs[counter + 2]
                 q == Padded(b.len)
      <3>2. Start(req, counter + 2) = a.at + 4 + p
        BY <1>2, <2>1, <3>1, Layout DEF p
      <3>3. b \in AttrRecords /\ Start(req, counter + 2) = b.at /\ b.at + 4 + q <= req.size
        BY <1>2, <3>1, Layout
      <3>4. q \in Nat /\ b.at \in Nat
        BY <3>3, PaddedBounds DEF AttrRecords
      <3>5. b.at = req.size
        BY <1>2, <2>2, <2>4, <3>2, <3>3
      <3> HIDE DEF q, b
      <3> QED BY <1>3, <3>3, <3>4, <3>5
    <2> QED BY <2>4, <2>5
  <1>5. WalkExact'
    BY <1>1, <1>4 DEF WalkInv, WalkExact, Found
  <1>6. Walked'
    BY <1>1 DEF WalkInv, Walked, Busy
  <1> QED BY <1>5, <1>6 DEF WalkInv

(* Nothing is asked of a handler that has returned. *)
LEMMA DoneKeeps ==
  ASSUME StunDone
  PROVE  WalkInv'
  <1>1. stun' = "idle" /\ pos' = 0 /\ counter' = 0 /\ attris' = << >>
    BY DEF StunDone
  <1>2. attris' \in Seq(FoundRecords) /\ 0 <= AttrLimit
    BY <1>1, StunRequests
  <1> QED BY <1>1, <1>2 DEF WalkInv, Walked, WalkExact, Busy

(***************************************************************************)
(* parse_attri stays aligned with every request of the size of a datagram, *)
(* whatever its attributes, and MESSAGE-INTEGRITY is found at its place:   *)
(* the 16 bits of get_real_len are enough.                                 *)
(***************************************************************************)
THEOREM WalkStaysExact == StunSpec => []WalkExact
  <1>1. StunInit => WalkInv
    BY StunRequests DEF StunInit, WalkInv, Walked, WalkExact, Busy
  <1>2. WalkInv /\ [StunNext]_stunVars => WalkInv'
    <2> SUFFICES ASSUME WalkInv, [StunNext]_stunVars
                 PROVE  WalkInv'
      OBVIOUS
    <2>1. CASE Reanswer
      BY <2>1 DEF Reanswer, WalkInv, Walked, WalkExact, Found, Busy
    <2>2. ASSUME NEW r \in Requests, Parse(r)
          PROVE  WalkInv'
      <3>1. Walked'
        BY <2>2, StunRequests DEF Parse, Walked, Busy
      <3>2. Start(r, 1) = 0 /\ Len(r.attrs) \in Nat
        BY Layout
      <3>3. stun' \in {"walk", "died"} /\ req' = r /\ pos' = 0 /\ counter' = 0
        BY <2>2 DEF Parse
      <3>4. WalkExact'
        BY <3>2, <3>3 DEF WalkExact
      <3> QED BY <3>1, <3>4 DEF WalkInv
    <2>3. CASE ParseAttri
      BY <2>3, RoundKeeps
    <2>4. CASE ParseEnd
      BY <2>4, EndKeeps
    <2>5. CASE Validate
      <3>1. CASE stun' = "respond" /\ UNCHANGED <<req, pos, counter, attris>>
        BY <2>5, <3>1 DEF Validate, WalkInv, Walked, WalkExact, Found, Busy
      <3> QED BY <2>5, <3>1, DoneKeeps DEF Validate
    <2>6. CASE SendBindingResponse
      BY <2>6, DoneKeeps DEF SendBindingResponse
    <2>7. CASE UNCHANGED stunVars
      BY <2>7 DEF stunVars, WalkInv, Walked, WalkExact, Found, Busy
    <2> QED BY <2>1, <2>2, <2>3, <2>4, <2>5, <2>6, <2>7 DEF StunNext
  <1>3. WalkInv => WalkExact
    BY DEF WalkInv
  <1> QED BY <1>1, <1>2, <1>3, PTL DEF StunSpec

-----------------------------------------------------------------------------
(* The connection's password is the latest or an older one, and nothing is
   sent before there is a connection. *)
PwdInv ==
  /\ answered \in Nat /\ answered > 0
  /\ ice_pwd \in Nat /\ ice_pwd <= answered
  /\ stun = "check" => ice_pwd = 0
  /\ stun = "respond" => ice_pwd # 0
  /\ ice_pwd = 0 => verified = "none"
  /\ RefusedOnlyAfterReoffer

(* With the latest password the response is what the peer expects. *)
LEMMA ResponseAccepted == ice_pwd = answered => PeerAccepts(Response)
  BY DEF PeerAccepts, Response, Hmac, HeaderSize

(***************************************************************************)
(* serialize_bind_response and validate agree on every length that enters  *)
(* a code: a peer refuses a response only if its offer has been answered   *)
(* again since its address was first heard of.                             *)
(***************************************************************************)
THEOREM RefusalHasCause == StunSpec => []RefusedOnlyAfterReoffer
  <1>1. StunInit => PwdInv
    BY DEF StunInit, PwdInv, RefusedOnlyAfterReoffer
  <1>2. PwdInv /\ [StunNext]_stunVars => PwdInv'
    <2> SUFFICES ASSUME PwdInv, [StunNext]_stunVars
                 PROVE  PwdInv'
      OBVIOUS
    <2>1. CASE Reanswer
      BY <2>1 DEF Reanswer, PwdInv, RefusedOnlyAfterReoffer
    <2>2. ASSUME NEW r \in Requests, Parse(r)
          PROVE  PwdInv'
      BY <2>2 DEF Parse, PwdInv, RefusedOnlyAfterReoffer
    <2>3. CASE ParseAttri
      BY <2>3 DEF ParseAttri, PwdInv, RefusedOnlyAfterReoffer
    <2>4. CASE ParseEnd
      BY <2>4 DEF ParseEnd, PwdInv, RefusedOnlyAfterReoffer
    <2>5. CASE Validate
      <3>1. /\ stun = "check" /\ ice_pwd = 0 /\ verified' = "none" /\ answered' = answered
            /\ \/ stun' = "respond" /\ ice_pwd' = answered
               \/ stun' = "idle" /\ ice_pwd' = ice_pwd
        BY <2>5 DEF Validate, StunDone, PwdInv
      <3> QED BY <3>1 DEF PwdInv, RefusedOnlyAfterReoffer
    <2>6. CASE SendBindingResponse
      <3>1. /\ stun = "respond" /\ stun' = "idle"
            /\ verified' = IF PeerAccepts(Response) THEN "accepted" ELSE "rejected"
            /\ UNCHANGED <<answered, ice_pwd>>
        BY <2>6 DEF SendBindingResponse, StunDone
      <3>2. verified' = "rejected" => ice_pwd # answered
        BY <3>1, ResponseAccepted
      <3> QED BY <3>1, <3>2 DEF PwdInv, RefusedOnlyAfterReoffer
    <2>7. CASE UNCHANGED stunVars
      BY <2>7 DEF stunVars, PwdInv, RefusedOnlyAfterReoffer
    <2> QED BY <2>1, <2>2, <2>3, <2>4, <2>5, <2>6, <2>7 DEF StunNext
  <1>3. PwdInv => RefusedOnlyAfterReoffer
    BY DEF PwdInv
  <1> QED BY <1>1, <1>2, <1>3, PTL DEF StunSpec

-----------------------------------------------------------------------------
(***************************************************************************)
(* The invariants of ThreadQueue for every capacity and all sets of        *)
(* threads.                                                                *)
(***************************************************************************)
(* The capacity is at least one. *)
LEMMA MaxPositive == QueueMax \in Nat /\ QueueMax > 0
  BY MaxAssumption DEF QueueMax

(* IInv holds of a new queue. *)
LEMMA InitIInv == QueueInit => IInv
  <1> SUFFICES ASSUME QueueInit
               PROVE  IInv
    OBVIOUS
  <1>1. ~ isFull /\ ~ isNotEmpty /\ isFull \in BOOLEAN /\ isNotEmpty \in BOOLEAN
    BY Zenon DEF QueueInit
  <1>2. count # QueueMax /\ ~ (count > 0) /\ count <= QueueMax /\ count \in Nat
    BY MaxPositive DEF QueueInit
  <1>3. FlagsTellSize
    BY <1>1, <1>2, Zenon DEF FlagsTellSize
  <1>4. TypeOK
    BY <1>1, <1>2 DEF QueueInit, TypeOK
  <1>5. WaitersInOp /\ NoLostWakeup
    BY DEF QueueInit, WaitersInOp, NoLostWakeup, CanGoOn, Waits
  <1> QED BY <1>3, <1>4, <1>5 DEF IInv

(* What a push or a pop does to count and flags, wherever it happens. *)
LEMMA PushFacts ==
  ASSUME IInv, NEW t \in QueueThreads, PushElement(t), ~ isFull
  PROVE  /\ FlagsTellSize'
         /\ count' \in Nat /\ isFull' \in BOOLEAN /\ isNotEmpty' \in BOOLEAN
         /\ doing' = [doing EXCEPT ![t] = "notify"]
  <1>1. count \in Nat /\ count <= QueueMax /\ count # QueueMax
    BY Zenon DEF IInv, TypeOK, FlagsTellSize
  <1>2. count' = count + 1 /\ doing' = [doing EXCEPT ![t] = "notify"]
    BY DEF PushElement, Goto
  <1>3. count' \in Nat /\ count' > 0 /\ count' <= QueueMax /\ (count' >= QueueMax <=> count' = QueueMax)
    BY <1>1, <1>2, MaxPositive
  <1>4. isNotEmpty' /\ isNotEmpty' \in BOOLEAN
    BY Zenon DEF PushElement
  <1>5. isFull' = (isFull \/ count' >= QueueMax)
    BY Zenon DEF PushElement
  <1>6. isFull' \in BOOLEAN
    BY <1>5, Zenon
  <1>7. isFull' <=> count' >= QueueMax
    BY <1>5, Zenon
  <1>8. FlagsTellSize'
    BY <1>3, <1>4, <1>7, Zenon DEF FlagsTellSize
  <1> QED BY <1>2, <1>3, <1>4, <1>6, <1>8, Zenon

LEMMA PopFacts ==
  ASSUME IInv, NEW t \in QueueThreads, TakeFront(t), isNotEmpty
  PROVE  /\ FlagsTellSize'
         /\ count' \in Nat /\ isFull' \in BOOLEAN /\ isNotEmpty' \in BOOLEAN
         /\ doing' = [doing EXCEPT ![t] = "notify"]
  <1>1. count \in Nat /\ count <= QueueMax /\ count > 0
    BY Zenon DEF IInv, TypeOK, FlagsTellSize
  <1>2. count' = count - 1
    BY DEF TakeFront
  <1>3. /\ count' \in Nat /\ count' < QueueMax /\ count' <= QueueMax /\ count' # QueueMax
        /\ ~ (count' >= QueueMax) /\ (count' # 0 <=> count' > 0)
    BY <1>1, <1>2, MaxPositive
  <1>4. isNotEmpty' = (count' # 0) /\ isFull' = FALSE
    BY <1>3, Zenon DEF TakeFront
  <1>5. doing' = [doing EXCEPT ![t] = "notify"]
    BY <1>3 DEF TakeFront, Goto
  <1> QED BY <1>3, <1>4, <1>5, Zenon DEF FlagsTellSize

(* A step that leaves the queue alone and moves t between idle and the
   operation op, with a wait whose predicate does not hold. *)
LEMMA WaitKeeps ==
  ASSUME IInv, NEW t \in QueueThreads, NEW op \in {"push", "push_t", "pop"},
         WaitFor(t, op), Runs(t, op), KeepLeft,
         op \in {"push", "push_t"} => isFull,
         op = "pop" => ~ isNotEmpty
  PROVE  IInv'
  <1>1. TypeOK' /\ FlagsTellSize'
    BY DEF IInv, TypeOK, FlagsTellSize, WaitFor, Goto, KeepLeft
  <1>2. WaitersInOp'
    BY DEF IInv, TypeOK, WaitersInOp, WaitFor, Goto
  <1>3. NoLostWakeup'
    <2> SUFFICES ASSUME NEW u \in QueueThreads, CanGoOn(u)', u \notin leftBehind'
                 PROVE  \E n \in QueueThreads : doing'[n] = "notify"
      BY DEF NoLostWakeup
    <2>0. u \notin leftBehind
      BY DEF KeepLeft, CanGoOn, Waits
    <2>1. u # t
      BY DEF IInv, TypeOK, CanGoOn, Waits, WaitFor, Goto
    <2>2. CanGoOn(u)
      BY <2>1 DEF IInv, TypeOK, CanGoOn, Waits, WaitFor, Goto
    <2>3. PICK n \in QueueThreads : doing[n] = "notify"
      BY <2>0, <2>2 DEF IInv, NoLostWakeup
    <2>4. n # t
      BY <2>3 DEF Runs
    <2> QED BY <2>3, <2>4 DEF IInv, TypeOK, WaitFor, Goto
  <1> QED BY <1>1, <1>2, <1>3 DEF IInv

(* A step after which t is about to notify. *)
LEMMA NotifierKeeps ==
  ASSUME IInv, NEW t \in QueueThreads,
         FlagsTellSize',
         count' \in Nat, isFull' \in BOOLEAN, isNotEmpty' \in BOOLEAN,
         doing' = [doing EXCEPT ![t] = "notify"],
         waiting' \subseteq waiting, t \notin waiting', KeepLeft
  PROVE  IInv'
  <1>1. TypeOK'
    BY DEF IInv, TypeOK, KeepLeft
  <1>2. WaitersInOp'
    BY DEF IInv, TypeOK, WaitersInOp
  <1>3. doing'[t] = "notify"
    BY DEF IInv, TypeOK
  <1>4. NoLostWakeup'
    BY <1>3 DEF NoLostWakeup
  <1> QED BY <1>1, <1>2, <1>4 DEF IInv

(* A step that leaves the queue alone and takes t, which is not about to
   notify, out of the wait set. *)
LEMMA LeaverKeeps ==
  ASSUME IInv, NEW t \in QueueThreads, NEW where \in {"idle", "push", "push_t", "pop"},
         doing[t] # "notify",
         doing' = [doing EXCEPT ![t] = where],
         UNCHANGED <<count, isFull, isNotEmpty>>,
         waiting' \subseteq waiting, t \notin waiting', KeepLeft
  PROVE  IInv'
  <1>1. TypeOK' /\ FlagsTellSize'
    BY DEF IInv, TypeOK, FlagsTellSize, KeepLeft
  <1>2. WaitersInOp'
    BY DEF IInv, TypeOK, WaitersInOp
  <1>3. NoLostWakeup'
    <2> SUFFICES ASSUME NEW u \in QueueThreads, CanGoOn(u)', u \notin leftBehind'
                 PROVE  \E n \in QueueThreads : doing'[n] = "notify"
      BY DEF NoLostWakeup
    <2>0. u \notin leftBehind
      BY DEF KeepLeft, CanGoOn, Waits
    <2>1. u # t
      BY DEF CanGoOn, Waits
    <2>2. CanGoOn(u)
      BY <2>1 DEF IInv, TypeOK, CanGoOn, Waits
    <2>3. PICK n \in QueueThreads : doing[n] = "notify"
      BY <2>0, <2>2 DEF IInv, NoLostWakeup
    <2> QED BY <2>3 DEF IInv, TypeOK
  <1> QED BY <1>1, <1>2, <1>3 DEF IInv

(* Every step of every thread keeps IInv. *)
LEMMA NextIInv == IInv /\ [QueueNext]_queueVars => IInv'
  <1> SUFFICES ASSUME IInv, [QueueNext]_queueVars
               PROVE  IInv'
    OBVIOUS
  <1>1. ASSUME NEW t \in Producers, PushBack(t)
        PROVE  IInv'
    <2>0. t \in QueueThreads
      BY DEF QueueThreads
    <2>1. CASE isFull /\ WaitFor(t, "push")
      BY <2>0, <2>1, <1>1, WaitKeeps DEF PushBack
    <2>2. CASE ~ isFull /\ PushElement(t) /\ UNCHANGED waiting
      <3>1. t \notin waiting /\ KeepLeft
        BY <1>1 DEF PushBack, Runs
      <3> QED BY <2>0, <2>2, <3>1, PushFacts, NotifierKeeps
    <2> QED BY <1>1, <2>1, <2>2 DEF PushBack
  <1>2. ASSUME NEW t \in Producers, PushBackT(t)
        PROVE  IInv'
    <2>0. t \in QueueThreads
      BY DEF QueueThreads
    <2>1. t \notin waiting /\ doing[t] # "notify" /\ KeepLeft
      BY <1>2 DEF PushBackT, Runs
    <2>2. CASE isFull /\ WaitFor(t, "push_t")
      BY <2>0, <2>2, <1>2, WaitKeeps DEF PushBackT
    <2>3. CASE ~ isFull /\ ReturnIdle(t) /\ UNCHANGED waiting
      BY <2>0, <2>1, <2>3, LeaverKeeps DEF ReturnIdle, Goto
    <2>4. CASE ~ isFull /\ PushElement(t) /\ UNCHANGED waiting
      BY <2>0, <2>1, <2>4, PushFacts, NotifierKeeps
    <2> QED BY <1>2, <2>2, <2>3, <2>4 DEF PushBackT
  <1>3. ASSUME NEW t \in Consumers, PopElement(t)
        PROVE  IInv'
    <2>0. t \in QueueThreads
      BY DEF QueueThreads
    <2>1. CASE ~ isNotEmpty /\ WaitFor(t, "pop")
      BY <2>0, <2>1, <1>3, WaitKeeps DEF PopElement
    <2>2. CASE isNotEmpty /\ TakeFront(t) /\ UNCHANGED waiting
      <3>1. t \notin waiting /\ KeepLeft
        BY <1>3 DEF PopElement, Runs
      <3> QED BY <2>0, <2>2, <3>1, PopFacts, NotifierKeeps
    <2> QED BY <1>3, <2>1, <2>2 DEF PopElement
  <1>4. ASSUME NEW t \in Cleaners, ClearQueue(t)
        PROVE  IInv'
    <2>0. ~ isFull' /\ ~ isNotEmpty' /\ isFull' \in BOOLEAN /\ isNotEmpty' \in BOOLEAN
      BY <1>4, Zenon DEF ClearQueue
    <2>1. count' # QueueMax /\ ~ (count' > 0) /\ count' <= QueueMax /\ count' \in Nat
      BY <1>4, MaxPositive DEF ClearQueue
    <2>4. FlagsTellSize'
      BY <2>0, <2>1, Zenon DEF FlagsTellSize
    <2>5. TypeOK'
      BY <1>4, <2>0, <2>1 DEF IInv, TypeOK, ClearQueue
    <2>2. WaitersInOp'
      BY <1>4 DEF IInv, WaitersInOp, ClearQueue
    <2>3. NoLostWakeup'
      BY <1>4 DEF NoLostWakeup, CanGoOn, Waits, ClearQueue
    <2> QED BY <2>2, <2>3, <2>4, <2>5 DEF IInv
  <1>5. ASSUME NEW t \in QueueThreads, TimeOut(t)
        PROVE  IInv'
    <2>1. /\ waiting' \subseteq waiting /\ t \notin waiting' /\ KeepLeft
          /\ doing[t] # "notify"
      BY <1>5 DEF TimeOut
    <2>2. CASE ReturnIdle(t)
      BY <2>1, <2>2, LeaverKeeps DEF ReturnIdle, Goto
    <2>3. CASE ~ isFull /\ PushElement(t)
      BY <2>1, <2>3, PushFacts, NotifierKeeps
    <2>4. CASE isNotEmpty /\ TakeFront(t)
      BY <2>1, <2>4, PopFacts, NotifierKeeps
    <2> QED BY <1>5, <2>2, <2>3, <2>4 DEF TimeOut
  <1>6. ASSUME NEW t \in QueueThreads, NotifyAll(t)
        PROVE  IInv'
    <2>1. TypeOK' /\ FlagsTellSize'
      BY <1>6 DEF IInv, TypeOK, FlagsTellSize, NotifyAll, ReturnIdle, Goto, KeepLeft
    <2>2. WaitersInOp' /\ NoLostWakeup'
      BY <1>6 DEF WaitersInOp, NoLostWakeup, CanGoOn, Waits, NotifyAll
    <2> QED BY <2>1, <2>2 DEF IInv
  <1>7. ASSUME NEW t \in QueueThreads, SpuriousWakeup(t)
        PROVE  IInv'
    <2>1. /\ waiting' \subseteq waiting /\ t \notin waiting' /\ KeepLeft
          /\ doing[t] \in {"push", "push_t", "pop"}
      BY <1>7 DEF SpuriousWakeup, IInv, WaitersInOp
    <2>2. doing' = [doing EXCEPT ![t] = doing[t]]
      BY <1>7 DEF SpuriousWakeup, IInv, TypeOK
    <2> QED BY <1>7, <2>1, <2>2, LeaverKeeps DEF SpuriousWakeup
  <1>8. CASE UNCHANGED queueVars
    BY <1>8 DEF queueVars, IInv, TypeOK, FlagsTellSize, WaitersInOp, NoLostWakeup,
                CanGoOn, Waits
  <1> QED BY <1>1, <1>2, <1>3, <1>4, <1>5, <1>6, <1>7, <1>8 DEF QueueNext

(* IInv is an invariant of the queue. *)
THEOREM QueueInvariant == QueueSpec => []IInv
  <1> QED BY InitIInv, NextIInv, PTL DEF QueueSpec

(* The flags tell the truth about the count, which stays within the
   capacity. *)
THEOREM FlagsRight == QueueSpec => []FlagsTellSize
  <1>1. IInv => FlagsTellSize
    BY DEF IInv
  <1> QED BY <1>1, QueueInvariant, PTL

(* Types of the state. *)
THEOREM QueueTypes == QueueSpec => []TypeOK
  <1>1. IInv => TypeOK
    BY DEF IInv
  <1> QED BY <1>1, QueueInvariant, PTL

(* No thread waits for what is true unless a notify_all is on its way, or it
   has been waiting through a clear. *)
THEOREM WakeupsKept == QueueSpec => []NoLostWakeup
  <1>1. IInv => NoLostWakeup
    BY DEF IInv
  <1> QED BY <1>1, QueueInvariant, PTL

-----------------------------------------------------------------------------
(***************************************************************************)
(* SRTP sessions, for any transports, suites, keys and packets and any     *)
(* number of keyings, each of whose steps may fail.                        *)
(***************************************************************************)
SrtpSessions == [made : BOOLEAN, suite : Supported \union {"none"}, key : SrtpKeys \union {"none"},
                 rtpTag : Nat, rtcpTag : Nat]

(* The tag lengths a session reports are the ones of its context. *)
TagsFollow(s) ==
  HasContext(s) => s.rtpTag = RtpTag(s.suite) /\ s.rtcpTag = RtcpTag(s.suite)

SrtpTypes ==
  /\ srtpInit \in BOOLEAN /\ initFailed \in BOOLEAN
  /\ sendSession \in [Transports -> SrtpSessions]
  /\ recvSession \in [Transports -> SrtpSessions]
  /\ asked \in [Transports -> SUBSET [suite : Suites, send : SrtpKeys, recv : SrtpKeys]]

SessionsRight ==
  \A t \in Transports :
    /\ TagsFollow(sendSession[t]) /\ TagsFollow(recvSession[t])
    /\ asked[t] # {} => initFailed \/ (sendSession[t].made /\ recvSession[t].made)

SrtpInv == SrtpTypes /\ SessionsRight /\ SrtpCarriesPackets

LEMMA TagLengths ==
  ASSUME NEW cs \in Supported
  PROVE  /\ RtpTag(cs) \in Nat /\ RtcpTag(cs) \in Nat
         /\ \A kind : ExtraLen(kind, cs) \in Nat
  BY DEF Supported, RtpTag, RtcpTag, ExtraLen, IndexLen

(* Keying makes a session right or leaves it as it was. *)
LEMMA KeyedSession ==
  ASSUME NEW s \in SrtpSessions, TagsFollow(s), NEW cs, NEW key \in SrtpKeys, NEW n, NEW ok
  PROVE  /\ SetKey(Made(s), cs, key, n, ok) \in SrtpSessions
         /\ TagsFollow(SetKey(Made(s), cs, key, n, ok))
         /\ SetKey(Made(s), cs, key, n, ok).made
  <1> DEFINE m == Made(s)
             k == [m EXCEPT !.suite = cs, !.key = key, !.rtpTag = RtpTag(cs), !.rtcpTag = RtcpTag(cs)]
  <1>1. m \in SrtpSessions /\ TagsFollow(m) /\ m.made
    BY DEF Made, NewSession, NoSession, SrtpSessions, TagsFollow, HasContext
  <1>2. CASE cs \in Supported /\ n = KeyLen(cs) /\ ok
    <2>1. SetKey(m, cs, key, n, ok) = k
      BY <1>2 DEF SetKey
    <2>2. k \in SrtpSessions
      BY <1>1, <1>2, TagLengths DEF SrtpSessions
    <2>3. k.made /\ TagsFollow(k)
      BY <1>1, <1>2 DEF SrtpSessions, TagsFollow
    <2> QED BY <2>1, <2>2, <2>3
  <1>3. CASE ~(cs \in Supported /\ n = KeyLen(cs) /\ ok)
    BY <1>1, <1>3 DEF SetKey
  <1> QED BY <1>2, <1>3

(* A context has the suite and the key of this call, or those it had before. *)
LEMMA KeyOrigin ==
  ASSUME NEW s \in SrtpSessions, NEW cs, NEW key, NEW n, NEW ok
  PROVE  LET k == SetKey(Made(s), cs, key, n, ok)
         IN  HasContext(k) => \/ k.suite = cs /\ k.key = key
                              \/ k.suite = s.suite /\ k.key = s.key
  <1> DEFINE m == Made(s)
             k == SetKey(m, cs, key, n, ok)
  <1>1. m \in SrtpSessions /\ (HasContext(m) => m.suite = s.suite /\ m.key = s.key)
    BY DEF Made, NewSession, NoSession, SrtpSessions, HasContext
  <1> HIDE DEF m
  <1>2. k = m \/ (k.suite = cs /\ k.key = key)
    BY <1>1 DEF SetKey, SrtpSessions
  <1> QED BY <1>1, <1>2 DEF m, HasContext

(* A packet of n bytes that a session protects, in the buffer made for it. *)
LEMMA Protected ==
  ASSUME NEW s \in SrtpSessions, TagsFollow(s), NEW kind \in {"rtp", "rtcp"}, NEW n \in Nat
  PROVE  LET o == Protect(s, kind, n, Room(s, kind, n))
         IN  /\ ~o.refused /\ o.len <= o.cap
             /\ o.kind # "none" => o.len - ExtraLen(o.kind, o.suite) = o.plain
  <1> DEFINE cap == Room(s, kind, n)
  <1>1. CASE ~HasContext(s)
    BY <1>1 DEF Protect, Nothing
  <1>2. CASE HasContext(s)
    <2>1. s.suite \in Supported
      BY <1>2 DEF HasContext, SrtpSessions
    <2>2. cap = n + ExtraLen(kind, s.suite) /\ ExtraLen(kind, s.suite) \in Nat
      BY <1>2, <2>1, TagLengths DEF Room, TagLen, ExtraLen, TagsFollow
    <2>3. cap = n + (IF kind = "rtp" THEN s.rtpTag ELSE s.rtcpTag + IndexLen)
      BY <1>2 DEF Room, TagLen
    <2> DEFINE o == [kind |-> kind, len |-> n + ExtraLen(kind, s.suite), plain |-> n,
                     suite |-> s.suite, key |-> s.key, cap |-> cap, refused |-> FALSE]
    <2>4. Protect(s, kind, n, cap) = o
      <3> HIDE DEF cap
      <3> QED BY <1>2, <2>2, <2>3 DEF Protect
    <2>5. ~o.refused /\ o.len <= o.cap /\ o.len - ExtraLen(o.kind, o.suite) = o.plain
      <3> HIDE DEF cap
      <3> QED BY <2>2
    <2> QED BY <2>4, <2>5
  <1> QED BY <1>1, <1>2

LEMMA ParamSafe ==
  ASSUME SrtpInv, NEW t \in Transports, NEW cs \in Suites, NEW sk \in SrtpKeys, NEW rk \in SrtpKeys,
         NEW sl, NEW rl, NEW initOk \in BOOLEAN, NEW handlerOk \in BOOLEAN,
         NEW sendOk \in BOOLEAN, NEW recvOk \in BOOLEAN,
         SetParam(t, cs, sk, rk, sl, rl, initOk, handlerOk, sendOk, recvOk)
  PROVE  SrtpInv'
  <1> DEFINE c == Keying(cs, sk, rk)
  <1>0. /\ asked' = [asked EXCEPT ![t] = @ \union {c}]
        /\ c.suite = cs /\ c.send = sk /\ c.recv = rk
        /\ c \in [suite : Suites, send : SrtpKeys, recv : SrtpKeys]
    BY DEF SetParam, Keying
  <1> HIDE DEF c
  <1>1. SidesKeyed' => SrtpCarriesPackets'
    <2>1. out' = Nothing /\ derefs' = {}
      BY DEF SetParam
    <2>2. ~Nothing.refused /\ Nothing.len <= Nothing.cap /\ Nothing.kind = "none"
      BY DEF Nothing
    <2> QED BY <2>1, <2>2 DEF SrtpCarriesPackets
  <1>2. CASE UNCHANGED <<sendSession, recvSession>> /\ initFailed'
    <2>1. SrtpTypes'
      <3>1. srtpInit' \in BOOLEAN /\ initFailed' \in BOOLEAN
        BY <1>2 DEF SetParam
      <3> QED BY <1>0, <1>2, <3>1 DEF SrtpInv, SrtpTypes
    <2>2. SessionsRight'
      BY <1>2 DEF SrtpInv, SessionsRight, TagsFollow, HasContext
    <2>3. SidesKeyed'
      BY <1>0, <1>2 DEF SrtpInv, SrtpTypes, SrtpCarriesPackets, SidesKeyed, HasContext
    <2> QED BY <1>1, <2>1, <2>2, <2>3 DEF SrtpInv
  <1>3. CASE ~(UNCHANGED <<sendSession, recvSession>> /\ initFailed')
    <2> DEFINE s == SetKey(Made(sendSession[t]), cs, sk, sl, sendOk)
               r == SetKey(Made(recvSession[t]), cs, rk, rl, recvOk)
    <2>1. /\ srtpInit' /\ UNCHANGED initFailed
          /\ sendSession' = [sendSession EXCEPT ![t] = s]
          /\ recvSession' = [recvSession EXCEPT ![t] = r]
      BY <1>3 DEF SetParam
    <2>2. /\ s \in SrtpSessions /\ TagsFollow(s) /\ s.made
          /\ r \in SrtpSessions /\ TagsFollow(r) /\ r.made
      BY KeyedSession DEF SrtpInv, SrtpTypes, SessionsRight
    <2>5. /\ HasContext(s) => (s.suite = cs /\ s.key = sk)
                              \/ (s.suite = sendSession[t].suite /\ s.key = sendSession[t].key)
          /\ HasContext(r) => (r.suite = cs /\ r.key = rk)
                              \/ (r.suite = recvSession[t].suite /\ r.key = recvSession[t].key)
      BY KeyOrigin DEF SrtpInv, SrtpTypes
    <2> HIDE DEF s, r
    <2>3. SrtpTypes'
      BY <1>0, <2>1, <2>2 DEF SrtpInv, SrtpTypes
    <2>4. SessionsRight'
      BY <1>0, <2>1, <2>2 DEF SrtpInv, SrtpTypes, SessionsRight
    <2>6. SidesKeyed'
      <3>1. ASSUME NEW u \in Transports, u # t
            PROVE  asked'[u] = asked[u] /\ sendSession'[u] = sendSession[u] /\ recvSession'[u] = recvSession[u]
        BY <1>0, <2>1, <3>1 DEF SrtpInv, SrtpTypes
      <3>2. asked'[t] = asked[t] \union {c} /\ sendSession'[t] = s /\ recvSession'[t] = r
        BY <1>0, <2>1 DEF SrtpInv, SrtpTypes
      <3>3. SidesKeyed
        BY DEF SrtpInv, SrtpCarriesPackets
      <3>4. HasContext(s) => \E d \in asked'[t] : d.suite = s.suite /\ d.send = s.key
        BY <1>0, <2>5, <3>2, <3>3 DEF SidesKeyed, HasContext
      <3>5. HasContext(r) => \E d \in asked'[t] : d.suite = r.suite /\ d.recv = r.key
        BY <1>0, <2>5, <3>2, <3>3 DEF SidesKeyed, HasContext
      <3>6. ASSUME NEW u \in Transports
            PROVE  /\ HasContext(sendSession'[u]) =>
                        \E d \in asked'[u] : d.suite = sendSession'[u].suite /\ d.send = sendSession'[u].key
                   /\ HasContext(recvSession'[u]) =>
                        \E d \in asked'[u] : d.suite = recvSession'[u].suite /\ d.recv = recvSession'[u].key
        <4>1. CASE u = t
          BY <3>2, <3>4, <3>5, <4>1
        <4>2. CASE u # t
          BY <3>1, <3>3, <4>2 DEF SidesKeyed
        <4> QED BY <4>1, <4>2
      <3> QED BY <3>6 DEF SidesKeyed, HasContext
    <2> QED BY <1>1, <2>3, <2>4, <2>6 DEF SrtpInv
  <1> QED BY <1>1, <1>2, <1>3 DEF SrtpInv

LEMMA RelaySafe ==
  ASSUME SrtpInv, NEW t \in Transports, NEW u \in Transports, NEW kind \in {"rtp", "rtcp"},
         NEW n \in PacketLens, NEW suite \in Supported, NEW key \in SrtpKeys,
         Relay(t, u, PeerPacket(kind, n, suite, key))
  PROVE  SrtpInv'
  <1> DEFINE p == PeerPacket(kind, n, suite, key)
             m == Unprotect(recvSession[t], p)
  <1>1. (SrtpTypes /\ SessionsRight)'
    BY DEF SrtpInv, SrtpTypes, SessionsRight, Relay, TagsFollow, HasContext
  <1>2. m \in Nat /\ p.kind = kind
    BY SrtpConstants, TagLengths DEF Unprotect, PeerPacket
  <1> HIDE DEF p, m
  <1>3. /\ ~out'.refused /\ out'.len <= out'.cap
        /\ out'.kind # "none" => out'.len - ExtraLen(out'.kind, out'.suite) = out'.plain
    <2>1. CASE out' = Nothing
      BY <2>1 DEF Nothing
    <2>2. CASE out' # Nothing
      <3>1. out' = Protect(sendSession[u], kind, m, Room(sendSession[u], kind, m))
        BY <1>2, <2>2 DEF Relay, p, m
      <3>2. sendSession[u] \in SrtpSessions /\ TagsFollow(sendSession[u])
        BY DEF SrtpInv, SrtpTypes, SessionsRight
      <3> QED BY <1>2, <3>1, <3>2, Protected
    <2> QED BY <2>1, <2>2
  <1>4. \A d \in derefs' : d \in {t, u} /\ ~(sendSession[d].made /\ recvSession[d].made)
    BY DEF Relay, SrtpInv
  <1>5. \A d \in derefs' : asked'[d] = {} \/ initFailed'
    BY <1>1, <1>4 DEF SrtpInv, SessionsRight, Relay
  <1>6. SidesKeyed'
    BY DEF SrtpInv, SrtpCarriesPackets, SidesKeyed, Relay, HasContext
  <1> QED BY <1>1, <1>3, <1>5, <1>6 DEF SrtpInv, SrtpCarriesPackets

(* Packets leave the server as they came in, protected for their subscriber
   under a suite and key that one call of set_srtp_param gave that side of it,
   inside the buffer made for them, and a missing session is used only where
   set_srtp_param ended early or was not called. *)
THEOREM PacketsCarried == SrtpSpec => []SrtpCarriesPackets
  <1>1. SrtpInit => SrtpInv
    <2> SUFFICES ASSUME SrtpInit PROVE SrtpInv
      OBVIOUS
    <2>1. NoSession \in SrtpSessions /\ TagsFollow(NoSession)
      BY DEF NoSession, SrtpSessions, TagsFollow, HasContext
    <2>2. ~Nothing.refused /\ Nothing.len <= Nothing.cap /\ Nothing.kind = "none"
      BY DEF Nothing
    <2> QED BY <2>1, <2>2 DEF SrtpInit, SrtpInv, SrtpTypes, SessionsRight, SrtpCarriesPackets, SidesKeyed, HasContext, NoSession
  <1>2. SrtpInv /\ [SrtpNext]_srtpVars => SrtpInv'
    <2> SUFFICES ASSUME SrtpInv, [SrtpNext]_srtpVars PROVE SrtpInv'
      OBVIOUS
    <2>1. CASE UNCHANGED srtpVars
      BY <2>1 DEF srtpVars, SrtpInv, SrtpTypes, SessionsRight, SrtpCarriesPackets, SidesKeyed, TagsFollow, HasContext
    <2>2. CASE SrtpNext
      BY <2>2, ParamSafe, RelaySafe DEF SrtpNext
    <2> QED BY <2>1, <2>2
  <1>3. SrtpInv => SrtpCarriesPackets
    BY DEF SrtpInv
  <1> QED BY <1>1, <1>2, <1>3, PTL DEF SrtpSpec

-----------------------------------------------------------------------------
(***************************************************************************)
(* The TLS adapter, for any configurations, any number of sessions and of  *)
(* messages.                                                               *)
(***************************************************************************)
Idle == {"NONE", "WAIT", "CONNECTING"}

(* What is sent is accounted for; the library waits for what is pending. *)
DataKept == pending \in Nat /\ sent \in Nat /\ SentOnce /\ retry \in {0, pending}

(* Which state goes with what the adapter holds: a connection has an SSL object,
   data is pending only in a session, the timer runs in the handshake only, and
   the application was told of a connection only in a session. *)
StateFits ==
  /\ ssl_state = "CONNECTED" => ssl_ = "open"
  /\ pending # 0 => ssl_state \notin Idle /\ ssl_ # "none"
  /\ timer => ssl_state = "CONNECTING" /\ ssl_ # "none"
  /\ up => ssl_state \in {"CONNECTED", "ERROR"}
  /\ custom => tls.verifier = "yes"

SessionInv == DataKept /\ StateFits /\ PeerVouched

TlsInv == SessionInv /\ wrongs = {}

(* The same message once more at the end. *)
LEMMA NumbersAppend ==
  ASSUME NEW n \in Nat
  PROVE  Append([i \in 1 .. n |-> i], n + 1) = [i \in 1 .. n + 1 |-> i]
  OBVIOUS

LEMMA CleanupSafe ==
  ASSUME SessionInv, NEW state, state # "CONNECTED", Cleanup(state), up' => state = "ERROR"
  PROVE  SessionInv'
  BY DEF SessionInv, DataKept, StateFits, PeerVouched, SentOnce, Cleanup, Idle

(* The handshake ends well with the certificate of the peer. *)
AcceptsPeer(cert) ==
  /\ PostCheck(cert, Verifies(cert).custom \/ custom)
  /\ ssl_' = "open" /\ ssl_state' = "CONNECTED" /\ timer' = FALSE
  /\ custom' = (Verifies(cert).custom \/ custom) /\ peerCert' = cert
  /\ UNCHANGED <<pending, sent, wire, retry>>

LEMMA ContinueSafe ==
  ASSUME SessionInv, NEW failed, ssl_state \in Idle, UNCHANGED tls, ContinueSSL(failed),
         failed.check \in {"ERROR", "NONE"}, failed.other # "CONNECTED"
  PROVE  SessionInv'
  <1>1. pending = 0 /\ ~up
    BY DEF SessionInv, StateFits, Idle
  <1>2. CASE /\ ssl_' = "handshake" /\ ssl_state' = "CONNECTING"
             /\ UNCHANGED <<pending, custom, peerCert, sent, wire, retry, up>>
    BY <1>1, <1>2 DEF SessionInv, DataKept, StateFits, PeerVouched, SentOnce
  <1>3. CASE /\ ssl_state' = failed.other /\ timer' = FALSE
             /\ UNCHANGED <<ssl_, pending, custom, peerCert, sent, wire, retry, up>>
    BY <1>1, <1>3 DEF SessionInv, DataKept, StateFits, PeerVouched, SentOnce
  <1>4. CASE UNCHANGED up /\ (Cleanup(failed.check) \/ Cleanup(failed.other))
    <2>1. failed.check # "CONNECTED" /\ ~up'
      BY <1>1, <1>4
    <2> QED BY <1>4, <2>1, CleanupSafe
  <1>5. ASSUME NEW sentChain \in BOOLEAN, NEW name \in BOOLEAN,
               AcceptsPeer([chain |-> sentChain, name |-> name])
        PROVE  SessionInv'
    <2> DEFINE cert == [chain |-> sentChain, name |-> name]
    <2>1. Verifies(cert).custom => tls.verifier = "yes"
      BY DEF Verifies
    <2>2. custom => tls.verifier = "yes"
      BY DEF SessionInv, StateFits
    <2>3. StateFits'
      BY <1>1, <1>5, <2>1, <2>2 DEF StateFits, AcceptsPeer
    <2>4. PeerVouched'
      BY <1>5, <2>1, <2>2 DEF PeerVouched, PostCheck, AcceptsPeer
    <2>5. DataKept'
      BY <1>5 DEF SessionInv, DataKept, SentOnce, AcceptsPeer
    <2> QED BY <2>3, <2>4, <2>5 DEF SessionInv
  <1>6. \/ /\ ssl_' = "handshake" /\ ssl_state' = "CONNECTING"
           /\ UNCHANGED <<pending, custom, peerCert, sent, wire, retry, up>>
        \/ /\ ssl_state' = failed.other /\ timer' = FALSE
           /\ UNCHANGED <<ssl_, pending, custom, peerCert, sent, wire, retry, up>>
        \/ UNCHANGED up /\ (Cleanup(failed.check) \/ Cleanup(failed.other))
        \/ \E sentChain, name \in BOOLEAN : AcceptsPeer([chain |-> sentChain, name |-> name])
    <2>1. \/ \E dtlsTimeout \in {FALSE, tls.dtls} :
                /\ ssl_' = "handshake" /\ ssl_state' = "CONNECTING"
                /\ UNCHANGED <<pending, custom, peerCert, sent, wire, retry, up>>
          \/ \E sentChain, name \in BOOLEAN :
                \/ AcceptsPeer([chain |-> sentChain, name |-> name])
                \/ Cleanup(failed.check) /\ UNCHANGED up
          \/ /\ ssl_state' = failed.other /\ timer' = FALSE
             /\ UNCHANGED <<ssl_, pending, custom, peerCert, sent, wire, retry, up>>
          \/ Cleanup(failed.other) /\ UNCHANGED up
      BY ZenonT(60) DEF ContinueSSL, AcceptsPeer
    <2> QED BY <2>1
  <1> QED BY <1>2, <1>3, <1>4, <1>5, <1>6 DEF AcceptsPeer

LEMMA BeginSafe ==
  ASSUME SessionInv, NEW after \in {"ERROR", "NONE"}, NEW tell \in BOOLEAN,
         ssl_state \in {"NONE", "WAIT"}, UNCHANGED tls, BeginSSL(after, tell)
  PROVE  SessionInv'
  <1> DEFINE failed == [check |-> after, other |-> after, keeps |-> FALSE, told |-> tell]
  <1>1. ~up
    BY DEF SessionInv, StateFits
  <1>2. CASE Cleanup(after) /\ UNCHANGED up
    BY <1>1, <1>2, CleanupSafe
  <1>3. CASE ContinueSSL(failed)
    <2>1. failed.check = after /\ failed.other = after /\ ~failed.keeps
      OBVIOUS
    <2> HIDE DEF failed
    <2> QED BY <1>3, <2>1, ContinueSafe DEF Idle
  <1> QED BY <1>2, <1>3 DEF BeginSSL

(* One call of SSL_write, for the next message or for the pending one. *)
LEMMA WriteSafe ==
  ASSUME TlsInv, NEW r \in SslResults,
         \/ SendNext(r)
         \/ SendPending(r),
         UNCHANGED <<ssl_, timer, up, custom, tls, peerCert>>
  PROVE  TlsInv'
  <1> DEFINE m == IF pending = 0 THEN sent + 1 ELSE pending
  <1>1. /\ DoSslWrite(m, r) /\ ssl_ # "none" /\ ssl_state \notin Idle
        /\ m = (IF pending = 0 THEN sent + 1 ELSE sent) /\ retry \in {0, m}
    BY DEF TlsInv, SessionInv, DataKept, StateFits, SentOnce, SendNext, SendPending, Idle
  <1>2. wrongs' = {}
    BY <1>1 DEF TlsInv, DoSslWrite
  <1>3. DataKept'
    <2> DEFINE n == m - 1
    <2>1. n \in Nat /\ m = n + 1 /\ wire = [i \in 1 .. n |-> i]
      BY <1>1 DEF TlsInv, SessionInv, DataKept, SentOnce
    <2>2. CASE r = "none"
      <3>1. wire' = [i \in 1 .. n + 1 |-> i]
        BY <1>1, <2>1, <2>2, NumbersAppend DEF DoSslWrite
      <3>2. sent' = m /\ pending' = 0 /\ retry' = 0
        BY <1>1, <2>2 DEF SendNext, SendPending, DoSslWrite
      <3> QED BY <2>1, <3>1, <3>2 DEF DataKept, SentOnce
    <2>3. CASE r \in {"want_read", "want_write"}
      <3>1. wire' = wire /\ sent' = m /\ pending' = m /\ retry' = m
        BY <1>1, <2>3 DEF SendNext, SendPending, DoSslWrite
      <3> QED BY <2>1, <3>1 DEF DataKept, SentOnce
    <2>4. CASE r \in {"zero", "ssl"}
      <3>1. wire' = wire /\ sent' = sent /\ pending' = pending /\ retry' = 0
        BY <1>1, <2>4 DEF SendNext, SendPending, DoSslWrite
      <3> QED BY <3>1 DEF TlsInv, SessionInv, DataKept, SentOnce
    <2> QED BY <2>2, <2>3, <2>4 DEF SslResults
  <1>4. ssl_state' = ssl_state \/ ssl_state' = "ERROR"
    BY <1>1 DEF DoSslWrite
  <1>5. StateFits' /\ PeerVouched'
    BY <1>1, <1>4 DEF TlsInv, SessionInv, StateFits, PeerVouched, Idle
  <1> QED BY <1>2, <1>3, <1>5 DEF TlsInv, SessionInv

LEMMA TlsStepSafe ==
  ASSUME TlsInv, TlsNext
  PROVE  TlsInv'
  <1> USE DEF Config
  <1>1. CASE StartSSL
    <2>1. CASE BeginSSL("ERROR", TRUE)
      BY <1>1, <2>1, BeginSafe DEF StartSSL, TlsInv
    <2>2. CASE /\ ssl_state' = "WAIT"
               /\ UNCHANGED <<ssl_, timer, pending, custom, peerCert, sent, wire, retry, up>>
      BY <1>1, <2>2 DEF StartSSL, TlsInv, SessionInv, DataKept, StateFits, PeerVouched, SentOnce, Idle
    <2> QED BY <1>1, <2>1, <2>2 DEF StartSSL
  <1>2. CASE TlsSend
    <2>1. ~(ssl_state = "NONE" /\ up)
      BY DEF TlsInv, SessionInv, StateFits
    <2> QED BY <1>2, <2>1, WriteSafe DEF TlsSend
  <1>3. CASE TlsRecv
    BY <1>3 DEF TlsRecv, TlsInv, SessionInv, DataKept, StateFits, PeerVouched, SentOnce, Idle
  <1>4. CASE TlsClose
    BY <1>4, CleanupSafe DEF TlsClose, TlsInv
  <1>5. CASE OnConnectEvent
    <2>1. CASE ssl_state = "WAIT"
      BY <1>5, <2>1, BeginSafe DEF OnConnectEvent, TlsInv
    <2>2. CASE ssl_state # "WAIT"
      BY <1>5, <2>2 DEF OnConnectEvent, TlsInv, SessionInv, DataKept, StateFits, PeerVouched, SentOnce
    <2> QED BY <2>1, <2>2
  <1>6. CASE OnHandshakeEvent
    <2> DEFINE failed == [check |-> "ERROR", other |-> "ERROR", keeps |-> TRUE, told |-> TRUE]
    <2>1. failed.check = "ERROR" /\ failed.other = "ERROR" /\ ContinueSSL(failed)
      BY <1>6 DEF OnHandshakeEvent
    <2> HIDE DEF failed
    <2> QED BY <1>6, <2>1, ContinueSafe DEF OnHandshakeEvent, TlsInv, Idle
  <1>7. CASE OnWriteEnds
    <2>1. CASE pending = 0
      BY <1>7, <2>1 DEF OnWriteEnds, TlsInv, SessionInv, DataKept, StateFits, PeerVouched, SentOnce
    <2>2. CASE pending # 0
      BY <1>7, <2>2, WriteSafe DEF OnWriteEnds
    <2> QED BY <2>1, <2>2
  <1>8. CASE OnTimeout
    <2> DEFINE failed == [check |-> "NONE", other |-> ssl_state, keeps |-> TRUE, told |-> FALSE]
    <2>1. ssl_state = "CONNECTING" /\ ssl_ # "none"
      BY <1>8 DEF OnTimeout, TlsInv, SessionInv, StateFits
    <2>2. failed.check = "NONE" /\ failed.other = ssl_state /\ ContinueSSL(failed)
      BY <1>8 DEF OnTimeout
    <2> HIDE DEF failed
    <2> QED BY <1>8, <2>1, <2>2, ContinueSafe DEF OnTimeout, TlsInv, Idle
  <1>9. CASE SocketConnects \/ OnCloseEvent \/ OnWriteEvent
    BY <1>9 DEF SocketConnects, OnCloseEvent, OnWriteEvent, TlsInv, SessionInv, DataKept, StateFits,
                PeerVouched, SentOnce
  <1> QED BY <1>1, <1>2, <1>3, <1>4, <1>5, <1>6, <1>7, <1>8, <1>9 DEF TlsNext

(* What a TLS connection was given reaches the wire in order and once, in a
   session with a peer that somebody vouches for, and the SSL library is called
   only with an SSL object and with the data it waits for. *)
THEOREM TlsDataKept == TlsSpec => []TlsKeepsData
  <1>1. TlsInit => TlsInv
    BY DEF TlsInit, TlsInv, SessionInv, DataKept, StateFits, PeerVouched, SentOnce, Idle
  <1>2. TlsInv /\ [TlsNext]_tlsVars => TlsInv'
    <2>1. TlsInv /\ UNCHANGED tlsVars => TlsInv'
      BY DEF tlsVars, TlsInv, SessionInv, DataKept, StateFits, PeerVouched, SentOnce
    <2> QED BY <2>1, TlsStepSafe
  <1>3. TlsInv => TlsKeepsData
    BY DEF TlsInv, SessionInv, DataKept, TlsKeepsData
  <1> QED BY <1>1, <1>2, <1>3, PTL DEF TlsSpec

-----------------------------------------------------------------------------
(***************************************************************************)
(* The web client, for any number of pages and of clicks.  What a page     *)
(* keeps is stated of its values: the remote uid u, the peer e, the        *)
(* promises c, and the messages s to the server and r from it; k says that *)
(* the pages are used with care.                                           *)
(***************************************************************************)
KnownUids == Uids \union {NoUid}
Promises == [at : {"media", "offer", "local"}, button : {"join", "publish", "pull"},
             knew : KnownUids, lone : BOOLEAN, mine : BOOLEAN, remote : KnownUids \union {Publisher}]
Peers == [there : BOOLEAN, stream : BOOLEAN, pc : BOOLEAN, remote : KnownUids \union {Publisher},
          joined : BOOLEAN, state : {"stable", "offered"}]
Asks == [cmd : {"join", "publish", "pullstream"}, remote : KnownUids \union {Publisher}]
Answers == [cmd : {"resp-join", "resp-publish", "resp-pullstream"}, first : KnownUids]

PageTypes(u, e, c, s, r) ==
  u \in KnownUids /\ e \in Peers /\ c \in Seq(Promises) /\ s \in Seq(Asks) /\ r \in Seq(Answers)

(* A page that has not joined yet has nothing on its way. *)
Untouched(u, e, c, s, r) ==
  ~e.there => ~e.joined /\ u = NoUid /\ c = << >> /\ s = << >> /\ r = << >>

NoMedia(c) == \A i \in 1 .. Len(c) : c[i].at # "media"
NoAsk(s)   == \A i \in 1 .. Len(s) : s[i].cmd # "join"
NoAnswer(r) == \A i \in 1 .. Len(r) : r[i].cmd # "resp-join"

(* A page that is used with care joins once: its join is with the camera, at
   the server, on the way back or done. *)
JoinsOnce(e, c, s, r) ==
  /\ \A i, j \in 1 .. Len(c) : c[i].at = "media" /\ c[j].at = "media" => i = j
  /\ \A i, j \in 1 .. Len(s) : s[i].cmd = "join" /\ s[j].cmd = "join" => i = j
  /\ \A i, j \in 1 .. Len(r) : r[i].cmd = "resp-join" /\ r[j].cmd = "resp-join" => i = j
  /\ NoMedia(c) \/ (NoAsk(s) /\ NoAnswer(r) /\ ~e.joined)
  /\ NoAsk(s) \/ (NoAnswer(r) /\ ~e.joined)
  /\ NoAnswer(r) \/ ~e.joined

(* What a click has started still means what it meant at the click. *)
Meant(k, u, e, o) ==
  o.at # "media" =>
    /\ o.button \in {"publish", "pull"}
    /\ o.knew # NoUid => u # NoUid
    /\ o.lone /\ o.button = "pull" => (IF o.mine THEN e.remote ELSE o.remote) = o.knew
    /\ k => /\ o.lone /\ e.joined
            /\ (o.button = "publish") <=> (u = NoUid)
            /\ o.button = "pull" => o.knew # NoUid

ClicksMeant(k, u, e, c) == \A i \in 1 .. Len(c) : Meant(k, u, e, c[i])

PageInv(k, u, e, c, s, r) ==
  /\ PageTypes(u, e, c, s, r) /\ Untouched(u, e, c, s, r)
  /\ k => JoinsOnce(e, c, s, r)
  /\ ClicksMeant(k, u, e, c)

PageOf(p) == PageInv(careful, remoteUid[p], peer[p], chain[p], toServer[p], toClient[p])

ClientInv ==
  /\ careful \in BOOLEAN /\ members \subseteq Uids
  /\ remoteUid \in [Uids -> KnownUids] /\ peer \in [Uids -> Peers]
  /\ chain \in [Uids -> Seq(Promises)]
  /\ toServer \in [Uids -> Seq(Asks)] /\ toClient \in [Uids -> Seq(Answers)]
  /\ \A p \in Uids : PageOf(p)
  /\ RequestsFollowButtons

(* A step that is about the page of p. *)
OnlyPage(p) ==
  /\ remoteUid' = [remoteUid EXCEPT ![p] = remoteUid'[p]] /\ peer' = [peer EXCEPT ![p] = peer'[p]]
  /\ chain' = [chain EXCEPT ![p] = chain'[p]] /\ toServer' = [toServer EXCEPT ![p] = toServer'[p]]
  /\ toClient' = [toClient EXCEPT ![p] = toClient'[p]]
  /\ PageInv(careful, remoteUid'[p], peer'[p], chain'[p], toServer'[p], toClient'[p])

LEMMA OnePage ==
  ASSUME ClientInv, NEW p \in Uids, OnlyPage(p),
         UNCHANGED careful, members' \subseteq Uids, RequestsFollowButtons'
  PROVE  ClientInv'
  <1>1. /\ remoteUid'[p] \in KnownUids /\ peer'[p] \in Peers /\ chain'[p] \in Seq(Promises)
        /\ toServer'[p] \in Seq(Asks) /\ toClient'[p] \in Seq(Answers)
    BY DEF OnlyPage, PageInv, PageTypes
  <1>2. /\ remoteUid' \in [Uids -> KnownUids] /\ peer' \in [Uids -> Peers]
        /\ chain' \in [Uids -> Seq(Promises)]
        /\ toServer' \in [Uids -> Seq(Asks)] /\ toClient' \in [Uids -> Seq(Answers)]
    BY <1>1 DEF ClientInv, OnlyPage
  <1>3. \A q \in Uids : PageOf(q)'
    <2> TAKE q \in Uids
    <2>1. CASE q = p
      BY <2>1 DEF OnlyPage, PageOf
    <2>2. CASE q # p
      BY <2>2 DEF ClientInv, PageOf, OnlyPage
    <2> QED BY <2>1, <2>2
  <1> QED BY <1>2, <1>3 DEF ClientInv

(* The page of a user, as it is. *)
LEMMA ThisPage ==
  ASSUME ClientInv, NEW p \in Uids
  PROVE  /\ PageInv(careful, remoteUid[p], peer[p], chain[p], toServer[p], toClient[p])
         /\ remoteUid = [remoteUid EXCEPT ![p] = remoteUid[p]]
         /\ peer = [peer EXCEPT ![p] = peer[p]]
         /\ chain = [chain EXCEPT ![p] = chain[p]]
         /\ toServer = [toServer EXCEPT ![p] = toServer[p]]
         /\ toClient = [toClient EXCEPT ![p] = toClient[p]]
  BY DEF ClientInv, PageOf

(* Where the element at j was before the one at i was taken out. *)
Shift(i, j) == IF j < i THEN j ELSE j + 1

LEMMA Shifts ==
  ASSUME NEW n \in Nat, NEW i \in 1 .. n
  PROVE  /\ \A j \in 1 .. n - 1 : Shift(i, j) \in 1 .. n /\ Shift(i, j) # i
         /\ \A x, y \in 1 .. n - 1 : Shift(i, x) = Shift(i, y) => x = y
  BY DEF Shift

TakeOut(c, i) == SubSeq(c, 1, i - 1) \o SubSeq(c, i + 1, Len(c))

ComesFrom(d, c, i) ==
  /\ \A j \in 1 .. Len(d) : /\ Shift(i, j) \in 1 .. Len(c) /\ Shift(i, j) # i
                            /\ d[j] = c[Shift(i, j)]
  /\ \A x, y \in 1 .. Len(d) : Shift(i, x) = Shift(i, y) => x = y

LEMMA TakenOut ==
  ASSUME NEW S, NEW c \in Seq(S), NEW i \in 1 .. Len(c), NEW d, d = TakeOut(c, i)
  PROVE  d \in Seq(S) /\ Len(d) = Len(c) - 1 /\ ComesFrom(d, c, i)
  <1> DEFINE a == SubSeq(c, 1, i - 1)
             b == SubSeq(c, i + 1, Len(c))
  <1>1. Len(c) \in Nat /\ i \in Nat
    OBVIOUS
  <1>2. a \in Seq(S) /\ Len(a) = i - 1 /\ \A j \in 1 .. i - 1 : a[j] = c[j]
    BY <1>1, SubSeqProperties
  <1>3. b \in Seq(S) /\ Len(b) = Len(c) - i /\ \A j \in 1 .. Len(c) - i : b[j] = c[i + j]
    BY <1>1, SubSeqProperties
  <1> HIDE DEF a, b
  <1>4. d = a \o b /\ d \in Seq(S) /\ Len(d) = Len(c) - 1
    <2>1. d = a \o b
      BY DEF a, b, TakeOut
    <2>2. a \o b \in Seq(S) /\ Len(a \o b) = Len(a) + Len(b)
      BY <1>2, <1>3, ConcatProperties
    <2>3. Len(a) + Len(b) = Len(c) - 1
      BY <1>1, <1>2, <1>3
    <2> QED BY <2>1, <2>2, <2>3
  <1>5. ASSUME NEW j \in 1 .. Len(c) - 1
        PROVE  (a \o b)[j] = c[Shift(i, j)]
    <2>1. CASE j < i
      BY <1>1, <1>2, <1>3, <2>1 DEF Shift
    <2>2. CASE ~(j < i)
      <3>1. j - (i - 1) \in 1 .. Len(c) - i /\ i + (j - (i - 1)) = j + 1
        BY <1>1, <2>2
      <3>2. (a \o b)[j] = b[j - (i - 1)]
        BY <1>1, <1>2, <1>3, <2>2, <3>1
      <3> QED BY <1>3, <2>2, <3>1, <3>2 DEF Shift
    <2> QED BY <2>1, <2>2
  <1>6. \A j \in 1 .. Len(d) : Shift(i, j) \in 1 .. Len(c) /\ Shift(i, j) # i
    BY <1>1, <1>4, Shifts
  <1>7. \A x, y \in 1 .. Len(d) : Shift(i, x) = Shift(i, y) => x = y
    BY <1>1, <1>4, Shifts
  <1> QED BY <1>4, <1>5, <1>6, <1>7 DEF ComesFrom

LEMMA LeastUid ==
  ASSUME NEW S, S \subseteq Uids
  PROVE  Members(S) \in KnownUids
  <1>1. CASE S = {}
    BY <1>1 DEF Members, KnownUids
  <1>2. CASE S # {}
    <2>1. S \subseteq Nat
      BY ClientConstants
    <2>2. PICK n \in S : \A k \in S : ~ (<<k, n>> \in OpToRel(<, Nat))
      BY <1>2, <2>1, NatLessThanWellFounded, WFMin
    <2>3. \E m \in S : \A k \in S : m <= k
      <3>1. \A k \in S : k \in Nat /\ n \in Nat /\ ~ (k < n)
        BY <2>1, <2>2 DEF OpToRel
      <3> QED BY <3>1
    <2>4. (CHOOSE m \in S : \A k \in S : m <= k) \in S
      BY <2>3
    <2> QED BY <1>2, <2>4 DEF Members, KnownUids
  <1> QED BY <1>1, <1>2

-----------------------------------------------------------------------------
(* The promises of a page whose peer is replaced. *)
LEMMA LeftPromises ==
  ASSUME NEW c \in Seq(Promises), NEW x \in KnownUids \union {Publisher}
  PROVE  /\ Left(c, x) \in Seq(Promises) /\ Len(Left(c, x)) = Len(c)
         /\ \A j \in 1 .. Len(c) :
              LET l == Left(c, x)[j]
              IN  /\ l.at = c[j].at /\ l.button = c[j].button /\ l.knew = c[j].knew
                  /\ l.lone = c[j].lone /\ ~l.mine
                  /\ l.remote = IF c[j].mine THEN x ELSE c[j].remote
  <1> DEFINE v == Left(c, x)
  <1>1. DOMAIN c = 1 .. Len(c) /\ Len(c) \in Nat /\ \A j \in 1 .. Len(c) : c[j] \in Promises
    OBVIOUS
  <1>2. \A j \in 1 .. Len(c) :
          v[j] = IF c[j].mine THEN [c[j] EXCEPT !.mine = FALSE, !.remote = x] ELSE c[j]
    BY <1>1 DEF Left
  <1>3. v = [j \in 1 .. Len(c) |-> v[j]]
    BY <1>1, Zenon DEF Left
  <1> HIDE DEF v
  <1>4. ASSUME NEW j \in 1 .. Len(c)
        PROVE  /\ v[j] \in Promises
               /\ v[j].at = c[j].at /\ v[j].button = c[j].button /\ v[j].knew = c[j].knew
               /\ v[j].lone = c[j].lone /\ ~v[j].mine
               /\ v[j].remote = IF c[j].mine THEN x ELSE c[j].remote
    <2>1. c[j] \in Promises /\ c[j].mine \in BOOLEAN
      BY <1>1 DEF Promises
    <2>2. CASE c[j].mine
      <3>1. v[j] = [c[j] EXCEPT !.mine = FALSE, !.remote = x]
        BY <1>2, <2>2
      <3> QED BY <2>1, <2>2, <3>1 DEF Promises
    <2>3. CASE ~c[j].mine
      <3>1. v[j] = c[j]
        BY <1>2, <2>3
      <3> QED BY <2>1, <2>3, <3>1
    <2> QED BY <2>2, <2>3
  <1>5. v \in Seq(Promises) /\ Len(v) = Len(c)
    BY <1>1, <1>3, <1>4
  <1> QED BY <1>4, <1>5 DEF v

LEMMA OneMore ==
  ASSUME NEW S, NEW v \in Seq(S), NEW m \in S, NEW d, d = Append(v, m)
  PROVE  /\ d \in Seq(S) /\ Len(d) = Len(v) + 1 /\ d[Len(v) + 1] = m
         /\ \A j \in 1 .. Len(v) : d[j] = v[j]
  OBVIOUS

LEMMA JoinPage ==
  ASSUME NEW k \in BOOLEAN, NEW u, NEW e, NEW c, NEW s, NEW r, PageInv(k, u, e, c, s, r),
         k => ~e.there,
         NEW f, f = [NoPeer EXCEPT !.there = TRUE, !.joined = e.joined],
         NEW d, d = Append(Left(c, e.remote), Promise("media", "join", NoUid, TRUE))
  PROVE  PageInv(k, u, f, d, s, r)
  <1> DEFINE m == Promise("media", "join", NoUid, TRUE)
             v == Left(c, e.remote)
  <1>1. /\ u \in KnownUids /\ e \in Peers /\ c \in Seq(Promises) /\ s \in Seq(Asks)
        /\ r \in Seq(Answers) /\ Len(c) \in Nat
        /\ k => ~e.joined /\ u = NoUid /\ c = << >> /\ s = << >> /\ r = << >>
    BY DEF PageInv, PageTypes, Untouched
  <1>2. m \in Promises /\ m.at = "media"
    BY DEF Promises, Promise, KnownUids
  <1>3. f \in Peers /\ f.there /\ f.joined = e.joined
    BY <1>1 DEF NoPeer, Peers
  <1>4. e.remote \in KnownUids \union {Publisher}
    BY <1>1 DEF Peers
  <1>5. /\ v \in Seq(Promises) /\ Len(v) = Len(c)
        /\ \A j \in 1 .. Len(c) :
             /\ v[j].at = c[j].at /\ v[j].button = c[j].button /\ v[j].knew = c[j].knew
             /\ v[j].lone = c[j].lone /\ ~v[j].mine
             /\ v[j].remote = IF c[j].mine THEN e.remote ELSE c[j].remote
    BY <1>1, <1>4, LeftPromises
  <1> HIDE DEF m, v
  <1>6. /\ d \in Seq(Promises) /\ Len(d) = Len(c) + 1 /\ d[Len(c) + 1] = m
        /\ \A j \in 1 .. Len(c) : d[j] = v[j]
    <2>1. d = Append(v, m)
      BY DEF m, v
    <2>2. /\ d \in Seq(Promises) /\ Len(d) = Len(v) + 1 /\ d[Len(v) + 1] = m
          /\ \A j \in 1 .. Len(v) : d[j] = v[j]
      <3>1. v \in Seq(Promises) /\ m \in Promises
        BY <1>2, <1>5
      <3> QED BY ONLY <2>1, <3>1, OneMore
    <2> QED BY <1>5, <2>2
  <1>7. k => JoinsOnce(f, d, s, r)
    <2> SUFFICES ASSUME k PROVE JoinsOnce(f, d, s, r)
      OBVIOUS
    <2>1. Len(d) = 1 /\ Len(s) = 0 /\ Len(r) = 0 /\ ~f.joined
      BY <1>1, <1>3, <1>6
    <2>2. NoAsk(s) /\ NoAnswer(r)
      BY <2>1 DEF NoAsk, NoAnswer
    <2>3. /\ \A i, j \in 1 .. Len(d) : i = j
          /\ \A i, j \in 1 .. Len(s) : i = j
          /\ \A i, j \in 1 .. Len(r) : i = j
      BY <2>1
    <2> QED BY <2>1, <2>2, <2>3 DEF JoinsOnce
  <1>8. ClicksMeant(k, u, f, d)
    <2> SUFFICES ASSUME NEW j \in 1 .. Len(d) PROVE Meant(k, u, f, d[j])
      BY DEF ClicksMeant
    <2>1. CASE j \in 1 .. Len(c)
      <3>1. Meant(k, u, e, c[j]) /\ ~k
        <4>1. c # << >>
          BY <2>1
        <4> QED BY <1>1, <2>1, <4>1 DEF PageInv, ClicksMeant
      <3>2. /\ d[j].at = c[j].at /\ d[j].button = c[j].button /\ d[j].knew = c[j].knew
            /\ d[j].lone = c[j].lone /\ ~d[j].mine
            /\ d[j].remote = IF c[j].mine THEN e.remote ELSE c[j].remote
        BY <1>5, <1>6, <2>1
      <3> QED BY <3>1, <3>2 DEF Meant
    <2>2. CASE j \notin 1 .. Len(c)
      <3>1. j = Len(c) + 1
        BY <1>1, <1>6, <2>2
      <3> QED BY <1>2, <1>6, <3>1 DEF Meant
    <2> QED BY <2>1, <2>2
  <1> QED BY <1>1, <1>3, <1>6, <1>7, <1>8 DEF PageInv, PageTypes, Untouched

LEMMA MediaPage ==
  ASSUME NEW k \in BOOLEAN, NEW u, NEW e, NEW c, NEW s, NEW r, PageInv(k, u, e, c, s, r),
         NEW i \in 1 .. Len(c), c[i].at = "media",
         NEW d, d = TakeOut(c, i),
         NEW f, f = [e EXCEPT !.stream = @ \/ c[i].mine],
         NEW t, t = Append(s, [cmd |-> "join", remote |-> NoUid])
  PROVE  PageInv(k, u, e, d, s, r) /\ PageInv(k, u, f, d, t, r)
  <1> DEFINE a == [cmd |-> "join", remote |-> NoUid]
  <1>1. /\ u \in KnownUids /\ e \in Peers /\ c \in Seq(Promises) /\ s \in Seq(Asks)
        /\ r \in Seq(Answers) /\ Len(c) \in Nat /\ c # << >> /\ e.there
    <2>1. c \in Seq(Promises) /\ Len(c) \in Nat /\ c # << >>
      BY DEF PageInv, PageTypes
    <2> QED BY <2>1 DEF PageInv, PageTypes, Untouched
  <1>2. d \in Seq(Promises) /\ ComesFrom(d, c, i)
    BY <1>1, TakenOut
  <1>3. f \in Peers /\ f.there /\ f.joined = e.joined /\ f.remote = e.remote
    <2>1. c[i] \in Promises
      BY <1>1
    <2>2. (e.stream \/ c[i].mine) \in BOOLEAN
      OBVIOUS
    <2> QED BY <1>1, <2>2 DEF Peers
  <1>4. a \in Asks /\ a.cmd = "join"
    BY DEF Asks, KnownUids
  <1> HIDE DEF a
  <1>5. t \in Seq(Asks) /\ Len(t) = Len(s) + 1 /\ t[Len(s) + 1] = a /\ \A j \in 1 .. Len(s) : t[j] = s[j]
    BY <1>1, <1>4 DEF a
  <1>6. k => NoAsk(s) /\ NoAnswer(r) /\ ~e.joined /\ NoMedia(d)
    <2> HAVE k
    <2>1. NoAsk(s) /\ NoAnswer(r) /\ ~e.joined
      BY DEF PageInv, JoinsOnce, NoMedia
    <2>2. \A j \in 1 .. Len(c) : j # i => c[j].at # "media"
      BY DEF PageInv, JoinsOnce
    <2>3. \A j \in 1 .. Len(d) : d[j].at # "media"
      BY <1>2, <2>2 DEF ComesFrom
    <2> QED BY <2>1, <2>3 DEF NoMedia
  <1>7. k => JoinsOnce(e, d, s, r)
    BY <1>6 DEF PageInv, JoinsOnce, NoMedia
  <1>8. k => JoinsOnce(f, d, t, r)
    <2> HAVE k
    <2>1. \A x, y \in 1 .. Len(t) : t[x].cmd = "join" /\ t[y].cmd = "join" => x = y
      BY <1>1, <1>5, <1>6 DEF NoAsk
    <2> QED BY <1>3, <1>6, <2>1 DEF PageInv, JoinsOnce, NoMedia
  <1>9. ClicksMeant(k, u, e, d) /\ ClicksMeant(k, u, f, d)
    <2> SUFFICES ASSUME NEW j \in 1 .. Len(d) PROVE Meant(k, u, e, d[j]) /\ Meant(k, u, f, d[j])
      BY DEF ClicksMeant
    <2>2. Meant(k, u, e, d[j])
      BY <1>2 DEF ComesFrom, PageInv, ClicksMeant
    <2> QED BY <1>3, <2>2 DEF Meant
  <1> QED BY <1>1, <1>2, <1>3, <1>5, <1>7, <1>8, <1>9 DEF PageInv, PageTypes, Untouched

(* A click, which starts an offer o or fails. *)
Clicked(k, u, e, c, button, remote, o, f, d) ==
  /\ e.there /\ button \in {"publish", "pull"} /\ remote \in KnownUids \union {Publisher}
  /\ button = "pull" => remote = u
  /\ k => /\ e.joined /\ c = << >>
          /\ (button = "publish") <=> (u = NoUid)
  /\ o \in Promises /\ o.at = "offer" /\ o.button = button /\ o.knew = u
  /\ o.mine = TRUE /\ (c = << >> => o.lone)
  /\ f = [e EXCEPT !.remote = remote, !.pc = TRUE]
  /\ d \in {Overtaken(c), Append(Overtaken(c), o)}

LEMMA ClickPage ==
  ASSUME NEW k \in BOOLEAN, NEW u, NEW e, NEW c, NEW s, NEW r, PageInv(k, u, e, c, s, r),
         NEW button, NEW remote, NEW o, NEW f, NEW d, Clicked(k, u, e, c, button, remote, o, f, d)
  PROVE  PageInv(k, u, f, d, s, r)
  <1> DEFINE v == Overtaken(c)
  <1>1. /\ u \in KnownUids /\ e \in Peers /\ c \in Seq(Promises) /\ s \in Seq(Asks)
        /\ r \in Seq(Answers) /\ Len(c) \in Nat
    BY DEF PageInv, PageTypes
  <1>2. f \in Peers /\ f.there /\ f.joined = e.joined /\ f.remote = remote
    BY <1>1 DEF Peers, Clicked
  <1>3. /\ v \in Seq(Promises) /\ Len(v) = Len(c)
        /\ \A j \in 1 .. Len(c) : /\ v[j].at = c[j].at /\ v[j].button = c[j].button
                                  /\ v[j].knew = c[j].knew /\ v[j].remote = c[j].remote
                                  /\ v[j].mine = c[j].mine
                                  /\ v[j].lone => c[j].lone /\ ~c[j].mine
    <2>1. \A j \in 1 .. Len(c) : c[j] \in Promises
      BY <1>1
    <2>2. \A j \in 1 .. Len(c) : v[j] = [c[j] EXCEPT !.lone = c[j].lone /\ ~c[j].mine]
      BY <1>1, DOMAIN c = 1 .. Len(c) DEF Overtaken
    <2>3. ASSUME NEW j \in 1 .. Len(c) PROVE v[j] \in Promises
      <3>1. c[j] \in Promises /\ v[j] = [c[j] EXCEPT !.lone = c[j].lone /\ ~c[j].mine]
        BY <2>1, <2>2
      <3>2. (c[j].lone /\ ~c[j].mine) \in BOOLEAN
        OBVIOUS
      <3> HIDE DEF v
      <3> QED BY <3>1, <3>2 DEF Promises
    <2>4. v = [j \in 1 .. Len(c) |-> v[j]]
      <3>1. DOMAIN c = 1 .. Len(c)
        BY <1>1
      <3> QED BY <3>1, Zenon DEF Overtaken
    <2>5. v \in Seq(Promises) /\ Len(v) = Len(c)
      <3> HIDE DEF v
      <3> QED BY <1>1, <2>3, <2>4
    <2>6. ASSUME NEW j \in 1 .. Len(c)
          PROVE  /\ v[j].at = c[j].at /\ v[j].button = c[j].button
                 /\ v[j].knew = c[j].knew /\ v[j].remote = c[j].remote
                 /\ v[j].mine = c[j].mine
                 /\ v[j].lone => c[j].lone /\ ~c[j].mine
      <3>1. c[j] \in Promises /\ v[j] = [c[j] EXCEPT !.lone = c[j].lone /\ ~c[j].mine]
        BY <2>1, <2>2
      <3> HIDE DEF v
      <3> QED BY <3>1 DEF Promises
    <2> QED BY <2>5, <2>6
  <1>4. /\ o \in Promises /\ o.at = "offer" /\ o.button = button /\ o.knew = u
        /\ o.mine = TRUE /\ (k => o.lone)
    BY DEF Clicked
  <1> HIDE DEF v
  <1>5. /\ d \in Seq(Promises) /\ Len(d) \in {Len(c), Len(c) + 1}
        /\ \A j \in 1 .. Len(d) : /\ j \in 1 .. Len(c) => d[j] = v[j]
                                  /\ j \notin 1 .. Len(c) => d[j] = o
    <2>1. CASE d = v
      BY <1>3, <2>1
    <2>2. CASE d = Append(v, o)
      BY <1>3, <1>4, <2>2, AppendProperties
    <2> QED BY <2>1, <2>2 DEF v, Clicked
  <1>6. k => JoinsOnce(f, d, s, r)
    <2> HAVE k
    <2>1. \A j \in 1 .. Len(d) : d[j].at = "media" => j \in 1 .. Len(c) /\ c[j].at = "media"
      BY <1>3, <1>4, <1>5
    <2>2. \A i, j \in 1 .. Len(d) : d[i].at = "media" /\ d[j].at = "media" => i = j
      BY <2>1 DEF PageInv, JoinsOnce
    <2>3. NoMedia(d) \/ ~NoMedia(c)
      BY <2>1 DEF NoMedia
    <2> QED BY <1>2, <2>2, <2>3 DEF PageInv, JoinsOnce
  <1>7. ClicksMeant(k, u, f, d)
    <2> SUFFICES ASSUME NEW j \in 1 .. Len(d) PROVE Meant(k, u, f, d[j])
      BY DEF ClicksMeant
    <2>1. CASE j \in 1 .. Len(c)
      <3>1. Meant(k, u, e, c[j]) /\ ~k
        <4>1. c # << >>
          BY <2>1
        <4> QED BY <2>1, <4>1 DEF PageInv, ClicksMeant, Clicked
      <3> QED BY <1>3, <1>5, <2>1, <3>1 DEF Meant
    <2>2. CASE j \notin 1 .. Len(c)
      <3>1. d[j] = o
        BY <1>5, <2>2
      <3> QED BY <1>2, <1>4, <3>1 DEF Meant, Clicked
    <2> QED BY <2>1, <2>2
  <1> QED BY <1>1, <1>2, <1>5, <1>6, <1>7 DEF PageInv, PageTypes, Untouched

LEMMA LocalPage ==
  ASSUME NEW k \in BOOLEAN, NEW u, NEW e, NEW c, NEW s, NEW r, PageInv(k, u, e, c, s, r),
         NEW i \in 1 .. Len(c), c[i].at = "offer",
         NEW d, d = [c EXCEPT ![i].at = "local"]
  PROVE  PageInv(k, u, e, d, s, r)
  <1>1. c \in Seq(Promises) /\ Len(c) \in Nat /\ c # << >>
    BY DEF PageInv, PageTypes
  <1> DEFINE l == [c[i] EXCEPT !.at = "local"]
  <1>2. c[i] \in Promises
    BY <1>1
  <1>3. /\ l \in Promises /\ l.at = "local" /\ l.button = c[i].button /\ l.knew = c[i].knew
        /\ l.lone = c[i].lone /\ l.mine = c[i].mine /\ l.remote = c[i].remote
    BY <1>2 DEF Promises
  <1>4. d = [c EXCEPT ![i] = l]
    OBVIOUS
  <1> HIDE DEF l
  <1>5. d \in Seq(Promises) /\ Len(d) = Len(c) /\ \A j \in 1 .. Len(c) : d[j] = IF j = i THEN l ELSE c[j]
    BY <1>1, <1>3, <1>4
  <1>6. \A j \in 1 .. Len(c) : d[j].at = "media" <=> c[j].at = "media"
    BY <1>3, <1>5
  <1>7. k => JoinsOnce(e, d, s, r)
    BY <1>5, <1>6 DEF PageInv, JoinsOnce, NoMedia
  <1>8. ClicksMeant(k, u, e, d)
    <2> SUFFICES ASSUME NEW j \in 1 .. Len(c) PROVE Meant(k, u, e, d[j])
      BY <1>5 DEF ClicksMeant
    <2>1. Meant(k, u, e, c[j])
      BY DEF PageInv, ClicksMeant
    <2> QED BY <1>3, <1>5, <2>1 DEF Meant
  <1> QED BY <1>1, <1>5, <1>7, <1>8 DEF PageInv, PageTypes, Untouched

LEMMA SentPage ==
  ASSUME NEW k \in BOOLEAN, NEW u, NEW e, NEW c, NEW s, NEW r, PageInv(k, u, e, c, s, r),
         NEW i \in 1 .. Len(c), c[i].at = "local",
         NEW d, d = TakeOut(c, i),
         NEW f, f = [e EXCEPT !.state = IF c[i].mine THEN "offered" ELSE @],
         NEW a \in Asks, a.cmd # "join", NEW t, t = Append(s, a)
  PROVE  PageInv(k, u, f, d, t, r)
  <1>1. /\ u \in KnownUids /\ e \in Peers /\ c \in Seq(Promises) /\ s \in Seq(Asks)
        /\ r \in Seq(Answers) /\ Len(c) \in Nat /\ c # << >> /\ e.there
    <2>1. c \in Seq(Promises) /\ Len(c) \in Nat /\ c # << >>
      BY DEF PageInv, PageTypes
    <2> QED BY <2>1 DEF PageInv, PageTypes, Untouched
  <1>2. d \in Seq(Promises) /\ ComesFrom(d, c, i)
    BY <1>1, TakenOut
  <1>3. f \in Peers /\ f.there /\ f.joined = e.joined /\ f.remote = e.remote
    BY <1>1 DEF Peers
  <1>4. t \in Seq(Asks) /\ Len(t) = Len(s) + 1 /\ t[Len(s) + 1] = a /\ \A j \in 1 .. Len(s) : t[j] = s[j]
    BY <1>1
  <1>7. k => JoinsOnce(f, d, t, r)
    <2> HAVE k
    <2>1. \A x, y \in 1 .. Len(d) : d[x].at = "media" /\ d[y].at = "media" => x = y
      BY <1>2 DEF ComesFrom, PageInv, JoinsOnce
    <2>2. NoMedia(d) \/ ~NoMedia(c)
      BY <1>2 DEF ComesFrom, NoMedia
    <2>3. \A x \in 1 .. Len(t) : t[x].cmd = "join" => x \in 1 .. Len(s) /\ s[x].cmd = "join"
      <3>0. Len(s) \in Nat
        BY <1>1
      <3>1. \A x \in 1 .. Len(s) + 1 : x \in 1 .. Len(s) \/ x = Len(s) + 1
        BY <3>0
      <3> QED BY <1>4, <3>1
    <2>4. \A x, y \in 1 .. Len(t) : t[x].cmd = "join" /\ t[y].cmd = "join" => x = y
      BY <2>3 DEF PageInv, JoinsOnce
    <2>5. NoAsk(s) => NoAsk(t)
      BY <2>3 DEF NoAsk
    <2> QED BY <1>3, <2>1, <2>2, <2>4, <2>5 DEF PageInv, JoinsOnce
  <1>8. ClicksMeant(k, u, f, d)
    <2> SUFFICES ASSUME NEW j \in 1 .. Len(d) PROVE Meant(k, u, f, d[j])
      BY DEF ClicksMeant
    <2>1. Meant(k, u, e, d[j])
      BY <1>2 DEF ComesFrom, PageInv, ClicksMeant
    <2> QED BY <1>3, <2>1 DEF Meant
  <1> QED BY <1>1, <1>2, <1>3, <1>4, <1>7, <1>8 DEF PageInv, PageTypes, Untouched

(* The server takes a message off, and may answer. *)
Served(s, t, r, q) ==
  /\ s # << >> /\ t = Tail(s)
  /\ \E a \in Answers : /\ a.cmd = "resp-join" => Head(s).cmd = "join"
                        /\ q \in {r, Append(r, a)}

LEMMA ServedPage ==
  ASSUME NEW k \in BOOLEAN, NEW u, NEW e, NEW c, NEW s, NEW r, PageInv(k, u, e, c, s, r),
         NEW t, NEW q, Served(s, t, r, q)
  PROVE  PageInv(k, u, e, c, t, q)
  <1>0. PICK a \in Answers : /\ a.cmd = "resp-join" => Head(s).cmd = "join"
                             /\ q \in {r, Append(r, a)}
    BY DEF Served
  <1>1. /\ u \in KnownUids /\ e \in Peers /\ c \in Seq(Promises) /\ s \in Seq(Asks)
        /\ r \in Seq(Answers) /\ e.there
    <2>1. PageTypes(u, e, c, s, r)
      BY DEF PageInv
    <2>2. e.there
      <3>1. s = << >> \/ e.there
        BY DEF PageInv, Untouched
      <3> QED BY <3>1 DEF Served
    <2> QED BY <2>1, <2>2 DEF PageTypes
  <1>2. /\ s # << >> /\ t \in Seq(Asks) /\ Len(t) = Len(s) - 1
        /\ \A j \in 1 .. Len(t) : t[j] = s[j + 1]
    BY <1>1, HeadTailProperties DEF Served
  <1>3. Len(s) \in Nat /\ Head(s) = s[1] /\ 1 \in 1 .. Len(s)
    BY <1>1, <1>2
  <1>4. \A j \in 1 .. Len(t) : j + 1 \in 1 .. Len(s) /\ j + 1 # 1
    BY <1>2, <1>3
  <1>5. /\ q \in Seq(Answers) /\ Len(r) \in Nat
        /\ \A j \in 1 .. Len(q) : /\ j \in 1 .. Len(r) => q[j] = r[j]
                                  /\ j \notin 1 .. Len(r) => j = Len(r) + 1 /\ q[j] = a
    <2>1. CASE q = r
      BY <1>1, <2>1
    <2>2. CASE q = Append(r, a)
      BY <1>1, <2>2, AppendProperties
    <2> QED BY <1>0, <2>1, <2>2
  <1>10. CASE ~k
    BY <1>1, <1>2, <1>5, <1>10 DEF PageInv, PageTypes, Untouched
  <1> SUFFICES ASSUME k PROVE PageInv(k, u, e, c, t, q)
    BY <1>10
  <1>6. /\ \A x, y \in 1 .. Len(t) : t[x].cmd = "join" /\ t[y].cmd = "join" => x = y
        /\ NoAsk(s) => NoAsk(t)
        /\ Head(s).cmd = "join" => NoAsk(t)
    <2>1. \A x, y \in 1 .. Len(t) : x + 1 = y + 1 => x = y
      BY <1>2, <1>3
    <2>2. \A x, y \in 1 .. Len(s) : s[x].cmd = "join" /\ s[y].cmd = "join" => x = y
      BY DEF PageInv, JoinsOnce
    <2>3. \A x, y \in 1 .. Len(t) : t[x].cmd = "join" /\ t[y].cmd = "join" => x = y
      BY <1>2, <1>4, <2>1, <2>2
    <2>4. NoAsk(s) => NoAsk(t)
      BY <1>2, <1>4 DEF NoAsk
    <2>5. Head(s).cmd = "join" => NoAsk(t)
      BY <1>2, <1>3, <1>4, <2>2 DEF NoAsk
    <2> QED BY <2>3, <2>4, <2>5
  <1>7. CASE NoAnswer(q)
    <2>1. \A x, y \in 1 .. Len(q) : q[x].cmd = "resp-join" /\ q[y].cmd = "resp-join" => x = y
      BY <1>7 DEF NoAnswer
    <2>2. JoinsOnce(e, c, t, q)
      BY <1>6, <1>7, <2>1 DEF PageInv, JoinsOnce
    <2> QED BY <1>1, <1>2, <1>5, <2>2 DEF PageInv, PageTypes, Untouched
  <1>8. CASE ~NoAnswer(q) /\ Head(s).cmd = "join"
    <2>1. ~NoAsk(s) /\ NoAnswer(r) /\ NoMedia(c) /\ ~e.joined /\ NoAsk(t)
      BY <1>3, <1>6, <1>8 DEF PageInv, JoinsOnce, NoAsk
    <2>2. \A x \in 1 .. Len(q) : q[x].cmd = "resp-join" => x = Len(r) + 1
      BY <1>5, <2>1 DEF NoAnswer
    <2>3. \A x, y \in 1 .. Len(q) : q[x].cmd = "resp-join" /\ q[y].cmd = "resp-join" => x = y
      BY <2>2
    <2>4. JoinsOnce(e, c, t, q)
      BY <1>6, <2>1, <2>3 DEF PageInv, JoinsOnce
    <2> QED BY <1>1, <1>2, <1>5, <2>4 DEF PageInv, PageTypes, Untouched
  <1>9. CASE ~NoAnswer(q) /\ Head(s).cmd # "join"
    <2>1. \A x \in 1 .. Len(q) : q[x].cmd = "resp-join" => x \in 1 .. Len(r) /\ r[x].cmd = "resp-join"
      BY <1>0, <1>5, <1>9
    <2>2. ~NoAnswer(r)
      BY <1>9, <2>1 DEF NoAnswer
    <2>3. NoAsk(s) /\ NoMedia(c) /\ ~e.joined
      BY <2>2 DEF PageInv, JoinsOnce
    <2>4. \A x, y \in 1 .. Len(q) : q[x].cmd = "resp-join" /\ q[y].cmd = "resp-join" => x = y
      BY <2>1 DEF PageInv, JoinsOnce
    <2>5. JoinsOnce(e, c, t, q)
      BY <1>6, <2>3, <2>4 DEF PageInv, JoinsOnce
    <2> QED BY <1>1, <1>2, <1>5, <2>5 DEF PageInv, PageTypes, Untouched
  <1> QED BY <1>7, <1>8, <1>9

(* The page takes a message off: the answer to its join, or another one. *)
LEMMA AnsweredPage ==
  ASSUME NEW k \in BOOLEAN, NEW u, NEW e, NEW c, NEW s, NEW r, PageInv(k, u, e, c, s, r),
         r # << >>, NEW q, q = Tail(r),
         NEW v, NEW f,
         \/ /\ Head(r).cmd = "resp-join" /\ f = [e EXCEPT !.joined = TRUE]
            /\ v = IF Head(r).first # NoUid THEN Head(r).first ELSE u
         \/ Head(r).cmd # "resp-join" /\ f = [e EXCEPT !.state = "stable"] /\ v = u
  PROVE  PageInv(k, v, f, c, s, q)
  <1>1. /\ u \in KnownUids /\ e \in Peers /\ c \in Seq(Promises) /\ s \in Seq(Asks)
        /\ r \in Seq(Answers) /\ e.there
    BY DEF PageInv, PageTypes, Untouched
  <1>2. q \in Seq(Answers) /\ Len(q) = Len(r) - 1 /\ \A j \in 1 .. Len(q) : q[j] = r[j + 1]
    BY <1>1, HeadTailProperties
  <1>3. Len(r) \in Nat /\ Head(r) = r[1] /\ 1 \in 1 .. Len(r) /\ Head(r) \in Answers
    BY <1>1
  <1>4. \A j \in 1 .. Len(q) : j + 1 \in 1 .. Len(r) /\ j + 1 # 1
    BY <1>2, <1>3
  <1>5. k => \A x, y \in 1 .. Len(q) : q[x].cmd = "resp-join" /\ q[y].cmd = "resp-join" => x = y
    <2>1. \A x, y \in 1 .. Len(q) : x + 1 = y + 1 => x = y
      BY <1>2, <1>3
    <2> QED BY <1>2, <1>4, <2>1 DEF PageInv, JoinsOnce
  <1>6. NoAnswer(r) => NoAnswer(q)
    BY <1>2, <1>4 DEF NoAnswer
  <1>7. CASE Head(r).cmd = "resp-join"
    <2>1. f \in Peers /\ f.there /\ f.joined /\ f.remote = e.remote
      BY <1>1, <1>7 DEF Peers
    <2>2. v \in KnownUids /\ (u # NoUid => v # NoUid)
      BY <1>1, <1>3, <1>7 DEF Answers
    <2>3. k => ~NoAnswer(r) /\ NoAnswer(q)
      BY <1>2, <1>3, <1>4, <1>7 DEF PageInv, JoinsOnce, NoAnswer
    <2>4. k => NoAsk(s) /\ NoMedia(c) /\ ~e.joined
      BY <2>3 DEF PageInv, JoinsOnce
    <2>5. k => JoinsOnce(f, c, s, q)
      BY <1>5, <2>3, <2>4 DEF PageInv, JoinsOnce
    <2>6. ClicksMeant(k, v, f, c)
      BY <2>1, <2>2, <2>4 DEF PageInv, ClicksMeant, Meant
    <2> QED BY <1>1, <1>2, <2>1, <2>2, <2>5, <2>6 DEF PageInv, PageTypes, Untouched
  <1>8. CASE Head(r).cmd # "resp-join"
    <2>1. f \in Peers /\ f.there /\ f.joined = e.joined /\ f.remote = e.remote /\ v = u
      BY <1>1, <1>8 DEF Peers
    <2>2. k => JoinsOnce(f, c, s, q)
      BY <1>5, <1>6, <2>1 DEF PageInv, JoinsOnce
    <2>3. ClicksMeant(k, v, f, c)
      BY <2>1 DEF PageInv, ClicksMeant, Meant
    <2> QED BY <1>1, <1>2, <2>1, <2>2, <2>3 DEF PageInv, PageTypes, Untouched
  <1> QED BY <1>7, <1>8

LEMMA NewPage ==
  ASSUME NEW k \in BOOLEAN
  PROVE  PageInv(k, NoUid, NoPeer, << >>, << >>, << >>)
  <1>1. NoPeer \in Peers /\ ~NoPeer.there /\ ~NoPeer.joined
    BY DEF NoPeer, Peers
  <1> QED BY <1>1 DEF PageInv, PageTypes, Untouched, JoinsOnce, ClicksMeant, NoMedia, NoAsk, NoAnswer,
                      KnownUids

-----------------------------------------------------------------------------
LEMMA SameRequest ==
  ASSUME ClientInv, UNCHANGED <<careful, request>>
  PROVE  RequestsFollowButtons'
  BY DEF ClientInv, RequestsFollowButtons

LEMMA OfferKeeps ==
  ASSUME ClientInv, NEW p \in Uids, PublishStream(p) \/ PullStream(p)
  PROVE  ClientInv'
  <1>1. PICK button \in {"publish", "pull"}, remote \in {Publisher, remoteUid[p]} :
               CreateOffer(p, button, remote) /\ (button = "pull" => remote = remoteUid[p])
    BY DEF PublishStream, PullStream
  <1> DEFINE o == Promise("offer", button, remoteUid[p], ~UnderWay(chain[p]))
             f == [peer[p] EXCEPT !.remote = remote, !.pc = TRUE]
             d == IF peer[p].pc \/ peer[p].stream THEN Append(Overtaken(chain[p]), o)
                  ELSE Overtaken(chain[p])
  <1>2. /\ peer' = [peer EXCEPT ![p] = f] /\ chain' = [chain EXCEPT ![p] = d]
        /\ UNCHANGED <<remoteUid, toServer, toClient, members, careful, request>>
        /\ peer[p].there
        /\ careful => /\ peer[p].joined /\ chain[p] = << >>
                      /\ (button = "publish") <=> (remoteUid[p] = NoUid)
    BY <1>1 DEF CreateOffer
  <1>3. remote \in KnownUids \union {Publisher} /\ careful \in BOOLEAN /\ members \subseteq Uids
    BY DEF ClientInv
  <1>4. d \in {Overtaken(chain[p]), Append(Overtaken(chain[p]), o)}
    OBVIOUS
  <1> HIDE DEF d
  <1>5. PageInv(careful, remoteUid[p], f, d, toServer[p], toClient[p])
    <2>1. PageInv(careful, remoteUid[p], peer[p], chain[p], toServer[p], toClient[p])
      BY ThisPage
    <2>2. /\ o \in Promises /\ o.at = "offer" /\ o.button = button /\ o.knew = remoteUid[p]
          /\ o.mine = TRUE /\ (chain[p] = << >> => o.lone)
      <3>1. remoteUid[p] \in KnownUids /\ NoUid \in KnownUids
        BY DEF ClientInv, KnownUids
      <3>2. (~UnderWay(chain[p])) \in BOOLEAN /\ (chain[p] = << >> => ~UnderWay(chain[p]))
        BY DEF UnderWay
      <3> QED BY <3>1, <3>2 DEF Promises, Promise
    <2> HIDE DEF o
    <2>3. Clicked(careful, remoteUid[p], peer[p], chain[p], button, remote, o, f, d)
      BY <1>1, <1>2, <1>3, <1>4, <2>2 DEF Clicked
    <2> HIDE DEF f
    <2> QED BY <1>3, <2>1, <2>3, ClickPage
  <1> HIDE DEF f
  <1>6. peer'[p] = f /\ chain'[p] = d
    BY <1>2 DEF ClientInv
  <1>7. OnlyPage(p)
    BY <1>2, <1>5, <1>6, ThisPage DEF OnlyPage
  <1> QED BY <1>2, <1>3, <1>7, OnePage, SameRequest

LEMMA SendKeeps ==
  ASSUME ClientInv, NEW p \in Uids, NEW i \in DOMAIN chain[p], SendSdpOffer(p, i)
  PROVE  ClientInv'
  <1> DEFINE o == chain[p][i]
             a == [cmd |-> Command(p),
                   remote |-> CASE Command(p) # "pullstream" -> NoUid
                                [] Command(p) = "pullstream" /\ o.mine -> peer[p].remote
                                [] Command(p) = "pullstream" /\ ~o.mine -> o.remote]
             f == [peer[p] EXCEPT !.state = IF o.mine THEN "offered" ELSE @]
             d == TakeOut(chain[p], i)
             t == Append(toServer[p], a)
  <1>1. /\ chain[p] \in Seq(Promises) /\ i \in 1 .. Len(chain[p]) /\ peer[p] \in Peers
        /\ careful \in BOOLEAN /\ members \subseteq Uids /\ o \in Promises
    BY DEF ClientInv
  <1>2. Meant(careful, remoteUid[p], peer[p], o) /\ o.at = "local"
    BY <1>1 DEF ClientInv, PageOf, PageInv, ClicksMeant, SendSdpOffer
  <1>3. a \in Asks /\ a.cmd = Command(p) /\ a.cmd # "join"
    <2>1. o.mine \in BOOLEAN /\ o.remote \in KnownUids \union {Publisher}
      BY <1>1 DEF Promises
    <2> QED BY <1>1, <2>1 DEF Asks, Peers, Command, KnownUids
  <1>4. /\ peer' = [peer EXCEPT ![p] = f] /\ chain' = [chain EXCEPT ![p] = d]
        /\ toServer' = [toServer EXCEPT ![p] = t]
        /\ request' = [button |-> o.button, knew |-> o.knew, lone |-> o.lone, cmd |-> a.cmd,
                       remote |-> a.remote]
        /\ UNCHANGED <<remoteUid, toClient, members, careful>>
    BY DEF SendSdpOffer, Done, TakeOut
  <1>5. RequestsFollowButtons'
    <2>1. /\ request'.button = o.button /\ request'.knew = o.knew /\ request'.lone = o.lone
          /\ request'.cmd = Command(p)
          /\ Command(p) = "pullstream" =>
               request'.remote = IF o.mine THEN peer[p].remote ELSE o.remote
      <3>1. o.mine \in BOOLEAN
        BY <1>1 DEF Promises
      <3> QED BY <1>3, <1>4, <3>1
    <2>2. o.knew \in Uids \/ o.knew = NoUid
      BY <1>1 DEF Promises, KnownUids
    <2> QED BY <1>2, <1>4, <2>1, <2>2 DEF RequestsFollowButtons, Meant, Command
  <1> HIDE DEF a, d
  <1>6. PageInv(careful, remoteUid[p], f, d, t, toClient[p])
    BY <1>1, <1>2, <1>3, ThisPage, SentPage DEF d
  <1> HIDE DEF f, t
  <1>7. peer'[p] = f /\ chain'[p] = d /\ toServer'[p] = t
    BY <1>4 DEF ClientInv
  <1>8. OnlyPage(p)
    BY <1>4, <1>6, <1>7, ThisPage DEF OnlyPage
  <1> QED BY <1>1, <1>4, <1>5, <1>8, OnePage

LEMMA ServerKeeps ==
  ASSUME ClientInv, NEW p \in Uids, ServerAnswers(p)
  PROVE  ClientInv'
  <1> DEFINE t == Tail(toServer[p])
             ask == Head(toServer[p])
  <1>1. /\ toServer[p] # << >> /\ toServer' = [toServer EXCEPT ![p] = t]
        /\ UNCHANGED <<remoteUid, peer, chain, careful, request>>
        /\ careful \in BOOLEAN /\ members \subseteq Uids
    BY DEF ServerAnswers, ClientInv
  <1>2. PICK a \in Answers :
          /\ a.cmd = "resp-join" => ask.cmd = "join"
          /\ \/ toClient' = [toClient EXCEPT ![p] = Append(toClient[p], a)]
             \/ UNCHANGED toClient
          /\ members' \subseteq Uids
    <2> DEFINE j == [cmd |-> "resp-join", first |-> Members(members)]
               b == [cmd |-> "resp-publish", first |-> NoUid]
               l == [cmd |-> "resp-pullstream", first |-> NoUid]
    <2>1. j \in Answers /\ b \in Answers /\ l \in Answers /\ b.cmd # "resp-join" /\ l.cmd # "resp-join"
      BY <1>1, LeastUid DEF Answers, KnownUids
    <2> QED BY <1>1, <2>1 DEF ServerAnswers
  <1> DEFINE q == toClient'[p]
  <1>3. toClient' = [toClient EXCEPT ![p] = q] /\ q \in {toClient[p], Append(toClient[p], a)}
    BY <1>2 DEF ClientInv
  <1> HIDE DEF q
  <1>4. PageInv(careful, remoteUid[p], peer[p], chain[p], t, q)
    <2>1. PageInv(careful, remoteUid[p], peer[p], chain[p], toServer[p], toClient[p])
      BY ThisPage
    <2>2. Served(toServer[p], t, toClient[p], q)
      BY <1>1, <1>2, <1>3 DEF Served
    <2> HIDE DEF t
    <2> QED BY <1>1, <2>1, <2>2, ServedPage
  <1> HIDE DEF t
  <1>5. toServer'[p] = t /\ toClient'[p] = q
    BY <1>1 DEF ClientInv, q
  <1>6. OnlyPage(p)
    BY <1>1, <1>3, <1>4, <1>5, ThisPage DEF OnlyPage
  <1> QED BY <1>1, <1>2, <1>6, OnePage, SameRequest

LEMMA MessageKeeps ==
  ASSUME ClientInv, NEW p \in Uids, OnServerMsg(p)
  PROVE  ClientInv'
  <1> DEFINE m == Head(toClient[p])
             q == Tail(toClient[p])
             v == IF m.cmd = "resp-join" /\ m.first # NoUid THEN m.first ELSE remoteUid[p]
             f == IF m.cmd = "resp-join" THEN [peer[p] EXCEPT !.joined = TRUE]
                  ELSE [peer[p] EXCEPT !.state = "stable"]
  <1>1. /\ toClient[p] # << >> /\ toClient' = [toClient EXCEPT ![p] = q]
        /\ UNCHANGED <<chain, toServer, members, careful, request>>
        /\ careful \in BOOLEAN /\ members \subseteq Uids
    BY DEF OnServerMsg, ClientInv
  <1>2. remoteUid' = [remoteUid EXCEPT ![p] = v] /\ peer' = [peer EXCEPT ![p] = f]
    BY ThisPage DEF OnServerMsg, HandleResponseJoin, HandleResponseSdp
  <1>3. \/ /\ m.cmd = "resp-join" /\ f = [peer[p] EXCEPT !.joined = TRUE]
           /\ v = IF m.first # NoUid THEN m.first ELSE remoteUid[p]
        \/ m.cmd # "resp-join" /\ f = [peer[p] EXCEPT !.state = "stable"] /\ v = remoteUid[p]
    OBVIOUS
  <1> HIDE DEF v, f
  <1>4. PageInv(careful, v, f, chain[p], toServer[p], q)
    <2>1. PageInv(careful, remoteUid[p], peer[p], chain[p], toServer[p], toClient[p])
      BY ThisPage
    <2> QED BY <1>1, <1>3, <2>1, AnsweredPage
  <1> HIDE DEF q
  <1>5. remoteUid'[p] = v /\ peer'[p] = f /\ toClient'[p] = q
    BY <1>1, <1>2 DEF ClientInv
  <1>6. OnlyPage(p)
    BY <1>1, <1>2, <1>4, <1>5, ThisPage DEF OnlyPage
  <1> QED BY <1>1, <1>6, OnePage, SameRequest

LEMMA ClientStepKeeps ==
  ASSUME ClientInv, ClientNext
  PROVE  ClientInv'
  <1>1. careful \in BOOLEAN /\ members \subseteq Uids
    BY DEF ClientInv
  <1>2. ASSUME NEW p \in Uids, JoinRoom(p) PROVE ClientInv'
    <2> DEFINE f == [NoPeer EXCEPT !.there = TRUE, !.joined = peer[p].joined]
               d == Append(Left(chain[p], peer[p].remote), Promise("media", "join", NoUid, TRUE))
    <2>1. /\ careful => ~peer[p].there
          /\ peer' = [peer EXCEPT ![p] = f] /\ chain' = [chain EXCEPT ![p] = d]
          /\ UNCHANGED <<remoteUid, toServer, toClient, members, careful, request>>
      BY <1>2 DEF JoinRoom
    <2>2. PageInv(careful, remoteUid[p], f, d, toServer[p], toClient[p])
      BY <1>1, <2>1, ThisPage, JoinPage
    <2> HIDE DEF f, d
    <2>3. peer'[p] = f /\ chain'[p] = d
      BY <2>1 DEF ClientInv
    <2>4. OnlyPage(p)
      BY <2>1, <2>2, <2>3, ThisPage DEF OnlyPage
    <2> QED BY <1>1, <2>1, <2>4, OnePage, SameRequest
  <1>3. ASSUME NEW p \in Uids, NEW i \in DOMAIN chain[p], NEW allowed \in BOOLEAN,
               InitLocalStream(p, i, allowed)
        PROVE  ClientInv'
    <2> DEFINE d == TakeOut(chain[p], i)
               f == [peer[p] EXCEPT !.stream = @ \/ chain[p][i].mine]
               t == Append(toServer[p], [cmd |-> "join", remote |-> NoUid])
    <2>1. /\ chain[p][i].at = "media" /\ chain' = [chain EXCEPT ![p] = d]
          /\ UNCHANGED <<remoteUid, toClient, members, careful, request>>
      BY <1>3 DEF InitLocalStream, Done, TakeOut
    <2>2. \/ UNCHANGED <<peer, toServer>>
          \/ peer' = [peer EXCEPT ![p] = f] /\ toServer' = [toServer EXCEPT ![p] = t]
      BY <1>3 DEF InitLocalStream
    <2>3. i \in 1 .. Len(chain[p])
      BY DEF ClientInv
    <2> HIDE DEF d
    <2>4. /\ PageInv(careful, remoteUid[p], peer[p], d, toServer[p], toClient[p])
          /\ PageInv(careful, remoteUid[p], f, d, t, toClient[p])
      BY <1>1, <2>1, <2>3, ThisPage, MediaPage DEF d
    <2> HIDE DEF f, t
    <2>5. chain'[p] = d
      BY <2>1 DEF ClientInv
    <2>6. CASE UNCHANGED <<peer, toServer>>
      <3>1. OnlyPage(p)
        BY <2>1, <2>4, <2>5, <2>6, ThisPage DEF OnlyPage
      <3> QED BY <1>1, <2>1, <3>1, OnePage, SameRequest
    <2>7. CASE peer' = [peer EXCEPT ![p] = f] /\ toServer' = [toServer EXCEPT ![p] = t]
      <3>1. peer'[p] = f /\ toServer'[p] = t
        BY <2>7 DEF ClientInv
      <3>2. OnlyPage(p)
        BY <2>1, <2>4, <2>5, <2>7, <3>1, ThisPage DEF OnlyPage
      <3> QED BY <1>1, <2>1, <3>2, OnePage, SameRequest
    <2> QED BY <2>2, <2>6, <2>7
  <1>4. ASSUME NEW p \in Uids, NEW i \in DOMAIN chain[p], DoCreateOffer(p, i) PROVE ClientInv'
    <2> DEFINE d == [chain[p] EXCEPT ![i].at = "local"]
    <2>1. /\ chain[p][i].at = "offer" /\ chain' = [chain EXCEPT ![p] = d]
          /\ UNCHANGED <<remoteUid, peer, toServer, toClient, members, careful, request>>
      BY <1>4 DEF DoCreateOffer
    <2>2. i \in 1 .. Len(chain[p])
      BY DEF ClientInv
    <2>3. PageInv(careful, remoteUid[p], peer[p], d, toServer[p], toClient[p])
      BY <1>1, <2>1, <2>2, ThisPage, LocalPage
    <2> HIDE DEF d
    <2>4. chain'[p] = d
      BY <2>1 DEF ClientInv
    <2>5. OnlyPage(p)
      BY <2>1, <2>3, <2>4, ThisPage DEF OnlyPage
    <2> QED BY <1>1, <2>1, <2>5, OnePage, SameRequest
  <1>5. ASSUME NEW p \in Uids, ClosePage(p) PROVE ClientInv'
    <2>1. members' \subseteq Uids /\ UNCHANGED <<careful, request>>
      BY <1>1, <1>5 DEF ClosePage
    <2>2. /\ remoteUid'[p] = NoUid /\ peer'[p] = NoPeer /\ chain'[p] = << >>
          /\ toServer'[p] = << >> /\ toClient'[p] = << >>
      BY <1>5 DEF ClosePage, ClientInv
    <2>3. PageInv(careful, NoUid, NoPeer, << >>, << >>, << >>)
      BY <1>1, NewPage
    <2>4. OnlyPage(p)
      BY <1>5, <2>2, <2>3 DEF ClosePage, OnlyPage
    <2> QED BY <2>1, <2>4, OnePage, SameRequest
  <1> QED BY <1>2, <1>3, <1>4, <1>5, OfferKeeps, SendKeeps, ServerKeeps, MessageKeeps DEF ClientNext

(* Pages used as the readme says ask for what their buttons say; others ask for
   something else only after one of the three ways of using them wrongly. *)
THEOREM ButtonsFollowed == ClientSpec => []RequestsFollowButtons
  <1>1. ClientInit => ClientInv
    <2> SUFFICES ASSUME ClientInit PROVE ClientInv
      OBVIOUS
    <2>1. careful \in BOOLEAN /\ members \subseteq Uids /\ RequestsFollowButtons
      BY DEF ClientInit, RequestsFollowButtons
    <2>2. NoPeer \in Peers /\ NoUid \in KnownUids
      BY DEF NoPeer, Peers, KnownUids
    <2>3. \A p \in Uids : PageOf(p)
      BY <2>1, NewPage DEF ClientInit, PageOf
    <2> QED BY <2>1, <2>2, <2>3 DEF ClientInit, ClientInv
  <1>2. ClientInv /\ [ClientNext]_clientVars => ClientInv'
    <2>1. ClientInv /\ UNCHANGED clientVars => ClientInv'
      BY DEF clientVars, ClientInv, PageOf, RequestsFollowButtons
    <2> QED BY <2>1, ClientStepKeeps
  <1>3. ClientInv => RequestsFollowButtons
    BY DEF ClientInv
  <1> QED BY <1>1, <1>2, <1>3, PTL DEF ClientSpec

-----------------------------------------------------------------------------
(***************************************************************************)
(* Signals and slots, for any number of signals, objects, connections and  *)
(* nested emissions.                                                       *)
(***************************************************************************)
Connections == [id : Nat \ {AtEnd}, dest : Slots]
Emissions == [sig : Signals, first : SUBSET Nat, called : SUBSET Nat, broken : BOOLEAN]

(* The list of a signal with its iterator; n ids have been given out. *)
ListRight(list, at, live, n) ==
  /\ list \subseteq Connections /\ at \in Nat
  /\ \A c \in list : c.id <= n
  /\ \A c, d \in list : c.id = d.id => c = d
  /\ at # AtEnd => at \in IdsOf(list)
  /\ ~live => list = {} /\ at = AtEnd

ListsRight == \A g \in Signals : ListRight(conns[g], current[g], g \in liveSignals, made)

(* Signals and objects know of each other. *)
Knows(o, g) == \A c \in conns[g] : c.dest = o => g \in liveSignals /\ o \in liveSlots /\ g \in senders[o]
Heard(o, g) == o \in liveSlots /\ g \in senders[o] => g \in liveSignals /\ To(conns[g], o) # {}

SidesAgree == \A o \in Slots, g \in Signals : (o \notin forgotten => Knows(o, g)) /\ Heard(o, g)

(* What an emission has still to call is in front of the iterator. *)
Covers(e, list, at) ==
  \A i \in e.first : i \in IdsOf(list) => i \in e.called \/ (at # AtEnd /\ i >= at)

(* Of the emissions of one signal only the innermost is not broken. *)
EmissionsRight ==
  /\ stack \in Seq(Emissions)
  /\ \A k \in 1 .. Len(stack) :
       /\ stack[k].sig \in liveSignals
       /\ \A i \in stack[k].first : i <= made
       /\ ~stack[k].broken => Covers(stack[k], conns[stack[k].sig], current[stack[k].sig])
  /\ \A k, l \in 1 .. Len(stack) : k < l /\ stack[k].sig = stack[l].sig => stack[k].broken

SigTypes ==
  /\ conns \in [Signals -> SUBSET Connections] /\ current \in [Signals -> Nat]
  /\ senders \in [Slots -> SUBSET Signals]
  /\ liveSlots \subseteq Slots /\ liveSignals \subseteq Signals
  /\ made \in Nat

SigInv == SigTypes /\ ListsRight /\ SidesAgree /\ EmissionsRight

LEMMA BeginIsFirst ==
  ASSUME NEW list, list \subseteq Connections
  PROVE  /\ Begin(list) \in Nat /\ IdsOf(list) \subseteq Nat \ {AtEnd}
         /\ list = {} => Begin(list) = AtEnd
         /\ list # {} => Begin(list) \in IdsOf(list) /\ \A i \in IdsOf(list) : Begin(list) <= i
  <1>1. IdsOf(list) \subseteq Nat \ {AtEnd}
    BY DEF IdsOf, Connections
  <1>2. CASE list = {}
    BY <1>1, <1>2 DEF Begin, AtEnd
  <1>3. CASE list # {}
    <2>1. IdsOf(list) # {} /\ IdsOf(list) \subseteq Nat
      BY <1>1, <1>3 DEF IdsOf
    <2>2. PICK n \in IdsOf(list) : \A k \in IdsOf(list) : ~ (<<k, n>> \in OpToRel(<, Nat))
      BY <2>1, NatLessThanWellFounded, WFMin
    <2>3. \A k \in IdsOf(list) : k \in Nat /\ n \in Nat /\ ~ (k < n)
      BY <2>1, <2>2 DEF OpToRel
    <2>4. \A k \in IdsOf(list) : n <= k
      BY <2>3
    <2>5. Begin(list) \in IdsOf(list) /\ \A i \in IdsOf(list) : Begin(list) <= i
      BY <1>3, <2>4 DEF Begin
    <2> QED BY <1>1, <1>3, <2>5
  <1> QED BY <1>2, <1>3

(* Erasing moves the iterator to the next connection that stays. *)
LEMMA Erasing ==
  ASSUME NEW list, NEW at, NEW live \in BOOLEAN, NEW n \in Nat, ListRight(list, at, live, n),
         NEW gone, AtEnd \notin gone
  PROVE  /\ ListRight(Without(list, gone), SkipErased(list, at, gone), live, n)
         /\ \A e : Covers(e, list, at) => Covers(e, Without(list, gone), SkipErased(list, at, gone))
  <1> DEFINE rest == { c \in list : c.id > at /\ c.id \notin gone }
             new == Without(list, gone)
             to == SkipErased(list, at, gone)
  <1>1. list \subseteq Connections /\ at \in Nat /\ new \subseteq list /\ rest \subseteq new
    BY DEF ListRight, Without
  <1>2. IdsOf(new) = IdsOf(list) \ gone /\ IdsOf(new) \subseteq Nat
    BY <1>1 DEF IdsOf, Without, Connections
  <1>3. CASE at \notin gone
    <2>1. to = at /\ (at # AtEnd => at \in IdsOf(new))
      BY <1>2, <1>3 DEF SkipErased, ListRight
    <2>2. ListRight(new, to, live, n)
      BY <1>1, <2>1 DEF ListRight
    <2>3. \A e : Covers(e, list, at) => Covers(e, new, to)
      BY <1>2, <2>1 DEF Covers
    <2> QED BY <2>2, <2>3
  <1>4. CASE at \in gone
    <2>1. to = Begin(rest) /\ at # AtEnd
      BY <1>4 DEF SkipErased
    <2>2. rest \subseteq Connections
      BY <1>1
    <2>3. /\ Begin(rest) \in Nat /\ IdsOf(rest) \subseteq Nat \ {AtEnd}
          /\ rest = {} => Begin(rest) = AtEnd
          /\ rest # {} => Begin(rest) \in IdsOf(rest) /\ \A i \in IdsOf(rest) : Begin(rest) <= i
      BY <2>2, BeginIsFirst
    <2>4. \A i \in IdsOf(new) : i >= at => i \in IdsOf(rest)
      BY <1>1, <1>2, <1>4 DEF IdsOf, Without
    <2>5. IdsOf(rest) \subseteq IdsOf(new)
      BY <1>1 DEF IdsOf
    <2>6. \A i \in IdsOf(rest) : rest # {}
      BY DEF IdsOf
    <2> HIDE DEF rest
    <2>7. ListRight(new, to, live, n)
      <3>1. live
        BY <2>1 DEF ListRight
      <3> QED BY <1>1, <2>1, <2>3, <2>5, <3>1 DEF ListRight
    <2>8. \A i \in IdsOf(new) : i >= at => to # AtEnd /\ i >= to
      BY <1>2, <2>1, <2>3, <2>4, <2>6
    <2> HIDE DEF new, to
    <2>9. \A e : Covers(e, list, at) => Covers(e, new, to)
      BY <1>2, <2>8 DEF Covers
    <2> QED BY <2>7, <2>9 DEF new, to
  <1> QED BY <1>3, <1>4

(* New connections are behind all others. *)
LEMMA Appending ==
  ASSUME NEW list, NEW at, NEW n \in Nat, ListRight(list, at, TRUE, n),
         NEW new, new \subseteq Connections, NEW m \in Nat, n <= m,
         \A c \in new : n < c.id /\ c.id <= m, \A c, d \in new : c.id = d.id => c = d
  PROVE  /\ ListRight(list \union new, at, TRUE, m)
         /\ \A e : (\A i \in e.first : i <= n) /\ Covers(e, list, at) => Covers(e, list \union new, at)
  <1>1. /\ list \subseteq Connections /\ \A c \in list : c.id <= n
        /\ \A c \in list \union new : c.id \in Nat
    BY DEF ListRight, Connections
  <1>2. IdsOf(list \union new) = IdsOf(list) \union IdsOf(new)
    BY DEF IdsOf
  <1>3. \A i \in IdsOf(new) : i \in Nat /\ n < i
    BY <1>1 DEF IdsOf
  <1>4. ListRight(list \union new, at, TRUE, m)
    <2>1. \A c \in list \union new : c.id <= m
      BY <1>1
    <2>2. \A c, d \in list \union new : c.id = d.id => c = d
      <3>1. \A c \in list, d \in new : c.id # d.id
        BY <1>1
      <3> QED BY <3>1 DEF ListRight
    <2> QED BY <1>1, <1>2, <2>1, <2>2 DEF ListRight
  <1>5. ASSUME NEW e, \A i \in e.first : i <= n, Covers(e, list, at)
        PROVE  Covers(e, list \union new, at)
    <2>1. \A i \in e.first : i \notin IdsOf(new)
      BY <1>3, <1>5
    <2> QED BY <1>2, <1>5, <2>1 DEF Covers
  <1> QED BY <1>4, <1>5

(* The emissions go on as before when all lists still cover them. *)
LEMMA EmissionsKept ==
  ASSUME SigInv, UNCHANGED stack, made' \in Nat, made <= made',
         \A k \in 1 .. Len(stack) : stack[k].sig \in liveSignals',
         \A g \in Signals, e \in Emissions :
           (\A i \in e.first : i <= made) /\ g \in liveSignals /\ g \in liveSignals'
               /\ Covers(e, conns[g], current[g]) =>
             Covers(e, conns'[g], current'[g])
  PROVE  EmissionsRight'
  <1>1. ASSUME NEW k \in 1 .. Len(stack)
        PROVE  /\ stack[k].sig \in liveSignals'
               /\ \A i \in stack[k].first : i <= made'
               /\ ~stack[k].broken => Covers(stack[k], conns'[stack[k].sig], current'[stack[k].sig])
    <2>1. stack[k] \in Emissions
      BY DEF SigInv, EmissionsRight
    <2>2. stack[k].sig \in Signals /\ stack[k].first \subseteq Nat
      BY <2>1 DEF Emissions
    <2>3. \A i \in stack[k].first : i <= made
      BY DEF SigInv, EmissionsRight
    <2>4. \A i \in stack[k].first : i <= made'
      BY <2>2, <2>3 DEF SigInv, SigTypes
    <2>5. ~stack[k].broken => Covers(stack[k], conns[stack[k].sig], current[stack[k].sig])
      BY DEF SigInv, EmissionsRight
    <2>6. stack[k].sig \in liveSignals /\ stack[k].sig \in liveSignals'
      BY DEF SigInv, EmissionsRight
    <2> QED BY <2>1, <2>2, <2>3, <2>4, <2>5, <2>6
  <1> QED BY <1>1 DEF SigInv, EmissionsRight, Covers

-----------------------------------------------------------------------------
LEMMA ConnectKeeps ==
  ASSUME SigInv, NEW g \in Signals, NEW o \in Slots, ConnectSlot(g, o)
  PROVE  SigInv'
  <1> DEFINE c == [id |-> made + 1, dest |-> o]
  <1>1. /\ g \in liveSignals /\ o \in liveSlots /\ made' = made + 1 /\ made \in Nat
        /\ conns' = [conns EXCEPT ![g] = conns[g] \union {c}]
        /\ senders' = [senders EXCEPT ![o] = senders[o] \union {g}]
        /\ UNCHANGED <<current, liveSlots, liveSignals, stack, forgotten>>
    BY DEF ConnectSlot, SigInv, SigTypes
  <1>2. c \in Connections /\ c.id = made + 1 /\ c.dest = o
    BY <1>1 DEF Connections, AtEnd
  <1> HIDE DEF c
  <1>3. SigTypes'
    BY <1>1, <1>2 DEF SigInv, SigTypes
  <1>4. ListRight(conns[g], current[g], TRUE, made)
    BY <1>1 DEF SigInv, ListsRight
  <1>5. /\ ListRight(conns[g] \union {c}, current[g], TRUE, made')
        /\ \A e : (\A i \in e.first : i <= made) /\ Covers(e, conns[g], current[g]) =>
                    Covers(e, conns[g] \union {c}, current[g])
    <2>1. {c} \subseteq Connections /\ made' \in Nat /\ made <= made'
          /\ (\A x \in {c} : made < x.id /\ x.id <= made') /\ \A x, y \in {c} : x.id = y.id => x = y
      BY <1>1, <1>2
    <2> QED BY <1>1, <1>4, <2>1, Appending
  <1>6. conns'[g] = conns[g] \union {c} /\ \A h \in Signals : h # g => conns'[h] = conns[h]
    BY <1>1 DEF SigInv, SigTypes
  <1>7. ListsRight'
    <2>1. ASSUME NEW h \in Signals, h # g
          PROVE  ListRight(conns'[h], current'[h], h \in liveSignals', made')
      <3>1. ListRight(conns[h], current[h], h \in liveSignals, made)
        BY DEF SigInv, ListsRight
      <3>2. \A x \in conns[h] : x.id \in Nat
        BY <3>1 DEF ListRight, Connections
      <3> QED BY <1>1, <1>6, <2>1, <3>1, <3>2 DEF ListRight
    <2> QED BY <1>1, <1>5, <1>6, <2>1 DEF ListsRight
  <1>8. SidesAgree'
    BY <1>1, <1>2, <1>6 DEF SigInv, SigTypes, SidesAgree, Knows, Heard, To
  <1>9. EmissionsRight'
    <2>1. \A h \in Signals, e \in Emissions :
            (\A i \in e.first : i <= made) /\ Covers(e, conns[h], current[h]) =>
              Covers(e, conns'[h], current'[h])
      BY <1>1, <1>5, <1>6
    <2>2. \A k \in 1 .. Len(stack) : stack[k].sig \in liveSignals'
      BY <1>1 DEF SigInv, EmissionsRight
    <2>3. made' \in Nat /\ made <= made'
      BY <1>1
    <2> QED BY <1>1, <2>1, <2>2, <2>3, EmissionsKept
  <1> QED BY <1>3, <1>7, <1>8, <1>9 DEF SigInv

(* Connections are erased, wherever; the rest of the state fits. *)
LEMMA ErasedKeeps ==
  ASSUME SigInv, NEW gone \in [Signals -> SUBSET (Nat \ {AtEnd})],
         conns' = [g \in Signals |-> Without(conns[g], gone[g])],
         current' = [g \in Signals |-> SkipErased(conns[g], current[g], gone[g])],
         UNCHANGED <<liveSignals, stack, made>>
  PROVE  /\ ListsRight' /\ EmissionsRight'
         /\ conns' \in [Signals -> SUBSET Connections] /\ current' \in [Signals -> Nat]
  <1>1. ASSUME NEW g \in Signals
        PROVE  /\ ListRight(conns'[g], current'[g], g \in liveSignals', made')
               /\ \A e : Covers(e, conns[g], current[g]) => Covers(e, conns'[g], current'[g])
    <2>1. ListRight(conns[g], current[g], g \in liveSignals, made) /\ made \in Nat
      BY DEF SigInv, SigTypes, ListsRight
    <2>2. AtEnd \notin gone[g] /\ (g \in liveSignals) \in BOOLEAN
      OBVIOUS
    <2>3. /\ ListRight(Without(conns[g], gone[g]), SkipErased(conns[g], current[g], gone[g]),
                       g \in liveSignals, made)
          /\ \A e : Covers(e, conns[g], current[g]) =>
               Covers(e, Without(conns[g], gone[g]), SkipErased(conns[g], current[g], gone[g]))
      BY <2>1, <2>2, Erasing
    <2>4. /\ conns'[g] = Without(conns[g], gone[g])
          /\ current'[g] = SkipErased(conns[g], current[g], gone[g])
      OBVIOUS
    <2> QED BY <2>3, <2>4
  <1>2. ListsRight'
    BY <1>1 DEF ListsRight
  <1>3. EmissionsRight'
    <2>1. \A k \in 1 .. Len(stack) : stack[k].sig \in liveSignals'
      BY DEF SigInv, EmissionsRight
    <2>2. made' \in Nat /\ made <= made'
      BY DEF SigInv, SigTypes
    <2> QED BY <1>1, <2>1, <2>2, EmissionsKept
  <1>4. \A g \in Signals : conns'[g] \subseteq Connections /\ current'[g] \in Nat
    BY <1>1 DEF ListRight
  <1> QED BY <1>2, <1>3, <1>4

LEMMA DisconnectKeeps ==
  ASSUME SigInv, NEW g \in Signals, NEW o \in Slots, DisconnectSlot(g, o)
  PROVE  SigInv'
  <1> DEFINE n == Begin(To(conns[g], o))
             gone == [h \in Signals |-> IF h = g THEN {n} ELSE {}]
  <1>1. /\ g \in liveSignals /\ To(conns[g], o) # {}
        /\ conns' = [conns EXCEPT ![g] = Without(conns[g], {n})]
        /\ current' = [current EXCEPT ![g] = SkipErased(conns[g], current[g], {n})]
        /\ forgotten' = IF \E c, d \in To(conns[g], o) : c # d THEN forgotten \union {o} ELSE forgotten
        /\ senders' = [senders EXCEPT ![o] = senders[o] \ {g}]
        /\ UNCHANGED <<liveSlots, liveSignals, stack, made>>
    BY DEF DisconnectSlot
  <1>2. /\ conns[g] \subseteq Connections /\ To(conns[g], o) \subseteq Connections
        /\ \A c, d \in conns[g] : c.id = d.id => c = d
    BY DEF SigInv, ListsRight, ListRight, To
  <1>3. n \in Nat \ {AtEnd} /\ \E c \in To(conns[g], o) : c.id = n
    <2>1. n \in IdsOf(To(conns[g], o)) /\ IdsOf(To(conns[g], o)) \subseteq Nat \ {AtEnd}
      BY <1>1, <1>2, BeginIsFirst
    <2> QED BY <2>1 DEF IdsOf
  <1> HIDE DEF n
  <1>4. PICK c \in To(conns[g], o) : c.id = n
    BY <1>3
  <1>5. \A x \in conns[g] : x # c => x.id # n
    BY <1>2, <1>4 DEF To
  <1>6. /\ conns' = [h \in Signals |-> Without(conns[h], gone[h])]
        /\ current' = [h \in Signals |-> SkipErased(conns[h], current[h], gone[h])]
    <2>1. \A h \in Signals : h # g => Without(conns[h], {}) = conns[h] /\ SkipErased(conns[h], current[h], {}) = current[h]
      BY DEF Without, SkipErased
    <2> QED BY <1>1, <2>1 DEF SigInv, SigTypes
  <1>7. gone \in [Signals -> SUBSET (Nat \ {AtEnd})]
    BY <1>3
  <1> HIDE DEF gone
  <1>8. /\ ListsRight' /\ EmissionsRight'
        /\ conns' \in [Signals -> SUBSET Connections] /\ current' \in [Signals -> Nat]
    BY <1>1, <1>6, <1>7, ErasedKeeps
  <1>9. SidesAgree'
    <2>1. conns'[g] = conns[g] \ {c} /\ c.dest = o /\ c \in conns[g]
      BY <1>1, <1>4, <1>5 DEF Without, To, SigInv, SigTypes
    <2>2. /\ \A h \in Signals : h # g => conns'[h] = conns[h]
          /\ \A p \in Slots : p # o => senders'[p] = senders[p]
          /\ senders'[o] = senders[o] \ {g}
      BY <1>1 DEF SigInv, SigTypes
    <2>3. ASSUME NEW p \in Slots, NEW h \in Signals, p # o \/ h # g
          PROVE  (p \notin forgotten' => Knows(p, h)') /\ Heard(p, h)'
      <3>1. (p \notin forgotten => Knows(p, h)) /\ Heard(p, h)
        BY DEF SigInv, SidesAgree
      <3>2. p \notin forgotten' => p \notin forgotten
        BY <1>1
      <3>3. \A x : x \in To(conns'[h], p) <=> x \in To(conns[h], p)
        BY <2>1, <2>2, <2>3 DEF To
      <3>4. h \in senders'[p] <=> h \in senders[p]
        BY <2>2, <2>3
      <3> QED BY <1>1, <3>1, <3>2, <3>3, <3>4 DEF Knows, Heard, To
    <2>4. Heard(o, g)'
      BY <2>2 DEF Heard
    <2>5. o \notin forgotten' => Knows(o, g)'
      <3>1. o \notin forgotten' => \A x \in conns[g] : x.dest = o => x = c
        BY <1>1, <1>4 DEF To
      <3> QED BY <2>1, <3>1 DEF Knows
    <2> QED BY <2>3, <2>4, <2>5 DEF SidesAgree
  <1> QED BY <1>1, <1>8, <1>9 DEF SigInv, SigTypes

LEMMA DisconnectSendersKeeps ==
  ASSUME SigInv, NEW o \in Slots, NEW destroy \in BOOLEAN, DisconnectSenders(o, destroy)
  PROVE  SigInv'
  <1> DEFINE gone == [g \in Signals |-> IF g \in senders[o] THEN IdsOf(To(conns[g], o)) ELSE {}]
  <1>1. /\ o \in liveSlots
        /\ conns' = [g \in Signals |-> Without(conns[g], gone[g])]
        /\ current' = [g \in Signals |-> SkipErased(conns[g], current[g], gone[g])]
        /\ senders' = [senders EXCEPT ![o] = {}]
        /\ liveSlots' = IF destroy THEN liveSlots \ {o} ELSE liveSlots
        /\ UNCHANGED <<liveSignals, stack, made, forgotten>>
    BY DEF DisconnectSenders
  <1>2. \A g \in Signals : /\ conns[g] \subseteq Connections
                           /\ \A c, d \in conns[g] : c.id = d.id => c = d
    BY DEF SigInv, ListsRight, ListRight
  <1>3. gone \in [Signals -> SUBSET (Nat \ {AtEnd})]
    BY <1>2 DEF IdsOf, To, Connections
  <1>4. \A g \in Signals : \A c \in conns[g] : c.id \in gone[g] <=> g \in senders[o] /\ c.dest = o
    BY <1>2 DEF IdsOf, To
  <1> HIDE DEF gone
  <1>5. /\ ListsRight' /\ EmissionsRight'
        /\ conns' \in [Signals -> SUBSET Connections] /\ current' \in [Signals -> Nat]
    BY <1>1, <1>3, ErasedKeeps
  <1>6. \A g \in Signals : \A c : c \in conns'[g] <=> c \in conns[g] /\ ~(g \in senders[o] /\ c.dest = o)
    BY <1>1, <1>4 DEF Without
  <1>7. /\ \A p \in Slots : p # o => senders'[p] = senders[p] /\ (p \in liveSlots' <=> p \in liveSlots)
        /\ senders'[o] = {}
    BY <1>1 DEF SigInv, SigTypes
  <1>8. SidesAgree'
    <2>1. ASSUME NEW p \in Slots, NEW h \in Signals, p # o
          PROVE  (p \notin forgotten' => Knows(p, h)') /\ Heard(p, h)'
      <3>1. (p \notin forgotten => Knows(p, h)) /\ Heard(p, h)
        BY DEF SigInv, SidesAgree
      <3>2. \A x : x \in To(conns'[h], p) <=> x \in To(conns[h], p)
        BY <1>6, <2>1 DEF To
      <3> QED BY <1>1, <1>7, <2>1, <3>1, <3>2 DEF Knows, Heard, To
    <2>2. ASSUME NEW h \in Signals
          PROVE  (o \notin forgotten' => Knows(o, h)') /\ Heard(o, h)'
      <3>1. o \notin forgotten => \A c \in conns[h] : c.dest = o => h \in senders[o]
        BY DEF SigInv, SidesAgree, Knows
      <3>2. o \notin forgotten' => \A c \in conns'[h] : c.dest # o
        BY <1>1, <1>6, <3>1
      <3> QED BY <1>7, <3>2 DEF Knows, Heard
    <2> QED BY <2>1, <2>2 DEF SidesAgree
  <1> QED BY <1>1, <1>5, <1>8 DEF SigInv, SigTypes

LEMMA DisconnectAllKeeps ==
  ASSUME SigInv, NEW g \in Signals, NEW destroy \in BOOLEAN, DisconnectAll(g, destroy)
  PROVE  SigInv'
  <1>1. /\ g \in liveSignals
        /\ destroy => \A i \in DOMAIN stack : stack[i].sig # g
        /\ conns' = [conns EXCEPT ![g] = {}] /\ current' = [current EXCEPT ![g] = AtEnd]
        /\ senders' = [o \in Slots |-> senders[o] \ {g}]
        /\ liveSignals' = IF destroy THEN liveSignals \ {g} ELSE liveSignals
        /\ UNCHANGED <<liveSlots, stack, made, forgotten>>
    BY DEF DisconnectAll
  <1>2. SigTypes'
    BY <1>1 DEF SigInv, SigTypes, AtEnd
  <1>3. /\ conns'[g] = {} /\ current'[g] = AtEnd
        /\ \A h \in Signals : h # g => /\ conns'[h] = conns[h] /\ current'[h] = current[h]
                                       /\ h \in liveSignals' <=> h \in liveSignals
    BY <1>1 DEF SigInv, SigTypes
  <1>4. ListsRight'
    <2>1. ListRight({}, AtEnd, g \in liveSignals', made')
      BY DEF ListRight, AtEnd
    <2> QED BY <1>1, <1>3, <2>1 DEF SigInv, ListsRight, ListRight
  <1>5. SidesAgree'
    BY <1>1, <1>3 DEF SigInv, SidesAgree, Knows, Heard, To
  <1>6. EmissionsRight'
    <2>1. \A k \in 1 .. Len(stack) : stack[k].sig \in liveSignals'
      BY <1>1 DEF SigInv, EmissionsRight
    <2>2. \A e : Covers(e, {}, AtEnd)
      BY DEF Covers, IdsOf
    <2>3. made' \in Nat /\ made <= made'
      BY <1>1 DEF SigInv, SigTypes
    <2> QED BY <1>1, <1>3, <2>1, <2>2, <2>3, EmissionsKept
  <1> QED BY <1>2, <1>4, <1>5, <1>6 DEF SigInv

(* Copies of connections are new ones. *)
LEMMA CopiesAreNew ==
  ASSUME NEW list, list \subseteq Connections, NEW n \in Nat, \A c \in list : c.id <= n,
         \A c, d \in list : c.id = d.id => c = d
  PROVE  /\ Again(list, n) \subseteq Connections
         /\ \A c \in Again(list, n) : n < c.id /\ c.id <= n + n
         /\ \A c, d \in Again(list, n) : c.id = d.id => c = d
         /\ \A o : To(Again(list, n), o) # {} <=> To(list, o) # {}
  <1>1. \A c \in list : /\ [c EXCEPT !.id = n + c.id] \in Connections
                        /\ [c EXCEPT !.id = n + c.id].id = n + c.id
                        /\ [c EXCEPT !.id = n + c.id].dest = c.dest
                        /\ c.id \in Nat \ {0}
    BY DEF Connections, AtEnd
  <1>2. \A c \in list : n < n + c.id /\ n + c.id <= n + n
    <2> SUFFICES ASSUME NEW c \in list PROVE n < n + c.id /\ n + c.id <= n + n
      OBVIOUS
    <2>1. c.id \in Nat \ {0} /\ c.id <= n
      BY <1>1
    <2> QED BY <2>1
  <1>3. \A c, d \in list : n + c.id = n + d.id => c = d
    <2> SUFFICES ASSUME NEW c \in list, NEW d \in list, n + c.id = n + d.id PROVE c = d
      OBVIOUS
    <2>1. c.id \in Nat /\ d.id \in Nat
      BY <1>1
    <2>2. c.id = d.id
      BY <2>1
    <2> QED BY <2>2
  <1>4. \A x \in Again(list, n) :
          \E c \in list : x \in Connections /\ x.id = n + c.id /\ x.dest = c.dest /\ x = [c EXCEPT !.id = n + c.id]
    BY <1>1 DEF Again
  <1>5. \A c \in list : [c EXCEPT !.id = n + c.id] \in Again(list, n)
    BY DEF Again
  <1>6. Again(list, n) \subseteq Connections
    BY <1>4
  <1>7. \A c \in Again(list, n) : n < c.id /\ c.id <= n + n
    BY <1>2, <1>4
  <1>8. \A c, d \in Again(list, n) : c.id = d.id => c = d
    BY <1>3, <1>4
  <1>9. \A o : To(Again(list, n), o) # {} <=> To(list, o) # {}
    <2> SUFFICES ASSUME NEW o PROVE To(Again(list, n), o) # {} <=> To(list, o) # {}
      OBVIOUS
    <2>1. ASSUME To(list, o) # {} PROVE To(Again(list, n), o) # {}
      <3>1. PICK c \in list : c.dest = o
        BY <2>1 DEF To
      <3>2. [c EXCEPT !.id = n + c.id] \in Again(list, n) /\ [c EXCEPT !.id = n + c.id].dest = o
        BY <1>1, <1>5, <3>1
      <3> QED BY <3>2 DEF To
    <2>2. ASSUME To(Again(list, n), o) # {} PROVE To(list, o) # {}
      <3>1. PICK x \in Again(list, n) : x.dest = o
        BY <2>2 DEF To
      <3>2. PICK c \in list : x.dest = c.dest
        BY <1>4
      <3> QED BY <3>1, <3>2 DEF To
    <2> QED BY <2>1, <2>2
  <1> QED BY <1>6, <1>7, <1>8, <1>9

LEMMA CopySignalKeeps ==
  ASSUME SigInv, NEW g \in Signals, NEW h \in Signals, CopySignal(g, h)
  PROVE  SigInv'
  <1> DEFINE new == Again(conns[g], made)
  <1>1. /\ g \in liveSignals /\ h \notin liveSignals
        /\ conns' = [conns EXCEPT ![h] = new] /\ made' = made + made
        /\ senders' = [o \in Slots |-> IF To(conns[g], o) # {} THEN senders[o] \union {h} ELSE senders[o]]
        /\ liveSignals' = liveSignals \union {h}
        /\ UNCHANGED <<current, liveSlots, stack, forgotten>>
    BY DEF CopySignal
  <1>2. /\ made \in Nat /\ ListRight(conns[g], current[g], TRUE, made)
        /\ ListRight(conns[h], current[h], h \in liveSignals, made)
    BY <1>1 DEF SigInv, SigTypes, ListsRight
  <1>3. /\ new \subseteq Connections
        /\ \A c \in new : made < c.id /\ c.id <= made + made
        /\ \A c, d \in new : c.id = d.id => c = d
        /\ \A o : To(new, o) # {} <=> To(conns[g], o) # {}
    BY <1>2, CopiesAreNew DEF ListRight
  <1> HIDE DEF new
  <1>4. conns[h] = {} /\ current[h] = AtEnd
    BY <1>1, <1>2 DEF ListRight
  <1>5. /\ conns'[h] = new /\ current'[h] = AtEnd
        /\ \A x \in Signals : x # h => /\ conns'[x] = conns[x] /\ current'[x] = current[x]
                                       /\ x \in liveSignals' <=> x \in liveSignals
    BY <1>1, <1>4 DEF SigInv, SigTypes
  <1>6. made' \in Nat /\ made <= made'
    BY <1>1, <1>2
  <1>7. SigTypes'
    BY <1>1, <1>3, <1>6 DEF SigInv, SigTypes
  <1>8. ListsRight'
    <2>1. ListRight(new, AtEnd, TRUE, made')
      BY <1>1, <1>3 DEF ListRight, AtEnd
    <2>2. ASSUME NEW x \in Signals, x # h
          PROVE  ListRight(conns'[x], current'[x], x \in liveSignals', made')
      <3>1. ListRight(conns[x], current[x], x \in liveSignals, made)
        BY DEF SigInv, ListsRight
      <3>2. \A c \in conns[x] : c.id \in Nat /\ c.id <= made
        BY <3>1 DEF ListRight, Connections
      <3>3. \A c \in conns[x] : c.id <= made'
        BY <1>2, <1>6, <3>2
      <3> QED BY <1>5, <2>2, <3>1, <3>3 DEF ListRight
    <2> QED BY <1>1, <1>5, <2>1, <2>2 DEF ListsRight
  <1>9. SidesAgree'
    <2>1. ASSUME NEW o \in Slots, NEW x \in Signals, x # h
          PROVE  (o \notin forgotten' => Knows(o, x)') /\ Heard(o, x)'
      <3>1. (o \notin forgotten => Knows(o, x)) /\ Heard(o, x)
        BY DEF SigInv, SidesAgree
      <3>2. x \in senders'[o] <=> x \in senders[o]
        BY <1>1, <2>1
      <3> QED BY <1>1, <1>5, <2>1, <3>1, <3>2 DEF Knows, Heard
    <2>2. ASSUME NEW o \in Slots
          PROVE  (o \notin forgotten' => Knows(o, h)') /\ Heard(o, h)'
      <3>1. (o \notin forgotten => Knows(o, g)) /\ Heard(o, h)
        BY DEF SigInv, SidesAgree
      <3>2. \A c \in new : c.dest = o => To(conns[g], o) # {}
        BY <1>3 DEF To
      <3>3. o \notin forgotten => Knows(o, h)'
        BY <1>1, <1>5, <3>1, <3>2 DEF Knows, To
      <3>4. Heard(o, h)'
        <4>1. o \in liveSlots' => (h \in senders'[o] => To(conns[g], o) # {})
          BY <1>1, <3>1 DEF Heard
        <4> QED BY <1>1, <1>3, <1>5, <4>1 DEF Heard
      <3> QED BY <1>1, <3>3, <3>4
    <2> QED BY <2>1, <2>2 DEF SidesAgree
  <1>10. EmissionsRight'
    <2>1. \A k \in 1 .. Len(stack) : stack[k].sig \in liveSignals'
      BY <1>1 DEF SigInv, EmissionsRight
    <2>2. \A x \in Signals : x \in liveSignals => x # h
      BY <1>1
    <2> QED BY <1>1, <1>5, <1>6, <2>1, <2>2, EmissionsKept
  <1> QED BY <1>7, <1>8, <1>9, <1>10 DEF SigInv

LEMMA CopySlotsKeeps ==
  ASSUME SigInv, NEW o \in Slots, NEW p \in Slots, CopySlots(o, p)
  PROVE  SigInv'
  <1> DEFINE Copy(g) == { [c EXCEPT !.dest = p] : c \in Again(To(conns[g], o), made) }
             new == [g \in Signals |-> IF g \in senders[o] THEN Copy(g) ELSE {}]
  <1>1. /\ o \in liveSlots /\ p \notin liveSlots /\ made' = made + made
        /\ conns' = [g \in Signals |-> IF g \in senders[o] THEN conns[g] \union Copy(g) ELSE conns[g]]
        /\ senders' = [senders EXCEPT ![p] = senders[o]]
        /\ liveSlots' = liveSlots \union {p}
        /\ UNCHANGED <<current, liveSignals, stack, forgotten>>
    BY DEF CopySlots
  <1>2. conns' = [g \in Signals |-> conns[g] \union new[g]]
    BY <1>1
  <1>3. made \in Nat /\ made' \in Nat /\ made <= made'
    BY <1>1 DEF SigInv, SigTypes
  <1>4. ASSUME NEW g \in Signals
        PROVE  /\ new[g] \subseteq Connections
               /\ \A c \in new[g] : made < c.id /\ c.id <= made'
               /\ \A c, d \in new[g] : c.id = d.id => c = d
               /\ \A c \in new[g] : c.dest = p
               /\ new[g] # {} => g \in senders[o]
               /\ g \in senders[o] => new[g] # {} /\ g \in liveSignals
    <2> DEFINE list == To(conns[g], o)
               more == Again(list, made)
    <2>1. ListRight(conns[g], current[g], g \in liveSignals, made) /\ Heard(o, g)
      BY DEF SigInv, ListsRight, SidesAgree
    <2>2. /\ list \subseteq Connections /\ (\A c \in list : c.id <= made)
          /\ \A c, d \in list : c.id = d.id => c = d
      BY <2>1 DEF ListRight, To
    <2>3. g \in senders[o] => list # {} /\ g \in liveSignals
      BY <1>1, <2>1 DEF Heard
    <2>4. \A c \in list : c.dest = o
      BY DEF To
    <2> HIDE DEF list
    <2>5. /\ more \subseteq Connections
          /\ \A c \in more : made < c.id /\ c.id <= made + made
          /\ \A c, d \in more : c.id = d.id => c = d
      BY <1>3, <2>2, CopiesAreNew
    <2>6. list # {} => more # {}
      BY DEF Again
    <2> HIDE DEF more
    <2>7. \A c \in more : /\ [c EXCEPT !.dest = p] \in Connections
                          /\ [c EXCEPT !.dest = p].id = c.id
                          /\ [c EXCEPT !.dest = p].dest = p
      BY <2>5 DEF Connections
    <2>8. Copy(g) = { [c EXCEPT !.dest = p] : c \in more }
      BY DEF more, list
    <2>9. /\ Copy(g) \subseteq Connections
          /\ \A c \in Copy(g) : made < c.id /\ c.id <= made' /\ c.dest = p
          /\ \A c, d \in Copy(g) : c.id = d.id => c = d
          /\ more # {} => Copy(g) # {}
      <3> HIDE DEF Copy
      <3>1. \A x \in Copy(g) : \E c \in more :
              x = [c EXCEPT !.dest = p] /\ x \in Connections /\ x.id = c.id /\ x.dest = p
        BY <2>7, <2>8
      <3>2. \A x \in Copy(g) : x \in Connections /\ made < x.id /\ x.id <= made' /\ x.dest = p
        BY <1>1, <2>5, <3>1
      <3>3. \A c, d \in Copy(g) : c.id = d.id => c = d
        BY <2>5, <3>1
      <3>4. more # {} => Copy(g) # {}
        BY <2>8
      <3> QED BY <3>2, <3>3, <3>4
    <2>10. new[g] = IF g \in senders[o] THEN Copy(g) ELSE {}
      OBVIOUS
    <2> HIDE DEF new, Copy
    <2> QED BY <2>3, <2>6, <2>9, <2>10
  <1> HIDE DEF new, Copy
  <1>5. ASSUME NEW g \in Signals
        PROVE  /\ ListRight(conns'[g], current'[g], g \in liveSignals', made')
               /\ \A e : (\A i \in e.first : i <= made) /\ Covers(e, conns[g], current[g]) =>
                           Covers(e, conns'[g], current'[g])
    <2>1. ListRight(conns[g], current[g], g \in liveSignals, made)
      BY DEF SigInv, ListsRight
    <2>2. conns'[g] = conns[g] \union new[g] /\ UNCHANGED <<current, liveSignals>>
      BY <1>1, <1>2
    <2>3. CASE g \in liveSignals
      <3>1. ListRight(conns[g], current[g], TRUE, made)
        BY <2>1, <2>3
      <3>2. /\ ListRight(conns[g] \union new[g], current[g], TRUE, made')
            /\ \A e : (\A i \in e.first : i <= made) /\ Covers(e, conns[g], current[g]) =>
                        Covers(e, conns[g] \union new[g], current[g])
        BY <1>3, <1>4, <3>1, Appending
      <3> QED BY <2>2, <2>3, <3>2
    <2>4. CASE g \notin liveSignals
      <3>1. conns'[g] = conns[g] /\ conns[g] = {}
        BY <1>4, <2>1, <2>2, <2>4 DEF ListRight
      <3> QED BY <2>1, <2>2, <3>1 DEF ListRight
    <2> QED BY <2>3, <2>4
  <1>6. ListsRight'
    BY <1>5 DEF ListsRight
  <1>7. SigTypes'
    <2>1. \A g \in Signals : conns[g] \union new[g] \subseteq Connections
      BY <1>4 DEF SigInv, SigTypes
    <2> QED BY <1>1, <1>2, <1>3, <2>1 DEF SigInv, SigTypes
  <1>8. SidesAgree'
    <2>1. ASSUME NEW q \in Slots, NEW g \in Signals, q # p
          PROVE  (q \notin forgotten' => Knows(q, g)') /\ Heard(q, g)'
      <3>1. (q \notin forgotten => Knows(q, g)) /\ Heard(q, g)
        BY DEF SigInv, SidesAgree
      <3>2. \A c : c \in To(conns'[g], q) <=> c \in To(conns[g], q)
        BY <1>2, <1>4, <2>1 DEF To
      <3>3. senders'[q] = senders[q] /\ (q \in liveSlots' <=> q \in liveSlots)
        BY <1>1, <2>1 DEF SigInv, SigTypes
      <3> QED BY <1>1, <3>1, <3>2, <3>3 DEF Knows, Heard, To
    <2>2. ASSUME NEW g \in Signals
          PROVE  (p \notin forgotten' => Knows(p, g)') /\ Heard(p, g)'
      <3>1. p \notin forgotten => Knows(p, g)
        BY DEF SigInv, SidesAgree
      <3>2. senders'[p] = senders[o] /\ p \in liveSlots' /\ p \notin liveSlots
        BY <1>1 DEF SigInv, SigTypes
      <3>3. p \notin forgotten => \A c \in conns[g] : c.dest # p
        BY <3>1, <3>2 DEF Knows
      <3>4. conns'[g] = conns[g] \union new[g]
        BY <1>2
      <3>5. p \notin forgotten' => Knows(p, g)'
        BY <1>1, <1>4, <3>2, <3>3, <3>4 DEF Knows
      <3>6. Heard(p, g)'
        BY <1>1, <1>4, <3>2, <3>4 DEF Heard, To
      <3> QED BY <3>5, <3>6
    <2> QED BY <2>1, <2>2 DEF SidesAgree
  <1>9. EmissionsRight'
    <2>1. \A k \in 1 .. Len(stack) : stack[k].sig \in liveSignals'
      BY <1>1 DEF SigInv, EmissionsRight
    <2> QED BY <1>1, <1>3, <1>5, <2>1, EmissionsKept
  <1> QED BY <1>6, <1>7, <1>8, <1>9 DEF SigInv

-----------------------------------------------------------------------------
LEMMA EmitKeeps ==
  ASSUME SigInv, NEW g \in Signals, Emit(g)
  PROVE  SigInv'
  <1> DEFINE e == [sig |-> g, first |-> IdsOf(conns[g]), called |-> {}, broken |-> FALSE]
             Outer(i) == IF stack[i].sig = g THEN Broken(g) ELSE stack[i]
             old == [i \in DOMAIN stack |-> Outer(i)]
             n == Len(stack)
  <1>1. /\ g \in liveSignals /\ current' = [current EXCEPT ![g] = Begin(conns[g])]
        /\ stack' = Append(old, e)
        /\ UNCHANGED <<conns, senders, liveSlots, liveSignals, made, forgotten>>
    BY DEF Emit
  <1>2. stack \in Seq(Emissions) /\ n \in Nat /\ DOMAIN stack = 1 .. n /\ \A i \in 1 .. n : stack[i] \in Emissions
    BY DEF SigInv, EmissionsRight
  <1>3. ListRight(conns[g], current[g], TRUE, made) /\ conns[g] \subseteq Connections
    BY <1>1 DEF SigInv, ListsRight, ListRight
  <1>4. /\ Begin(conns[g]) \in Nat /\ IdsOf(conns[g]) \subseteq Nat \ {AtEnd}
        /\ conns[g] = {} => Begin(conns[g]) = AtEnd
        /\ conns[g] # {} => /\ Begin(conns[g]) \in IdsOf(conns[g])
                            /\ \A i \in IdsOf(conns[g]) : Begin(conns[g]) <= i
    BY <1>3, BeginIsFirst
  <1>5. \A i \in IdsOf(conns[g]) : conns[g] # {} /\ i <= made
    BY <1>3 DEF ListRight, IdsOf
  <1>6. ListsRight'
    <2>1. ListRight(conns[g], Begin(conns[g]), TRUE, made)
      BY <1>3, <1>4 DEF ListRight
    <2> QED BY <1>1, <2>1 DEF SigInv, SigTypes, ListsRight
  <1>7. e \in Emissions /\ e.sig = g /\ e.first = IdsOf(conns[g]) /\ ~e.broken
    BY <1>4 DEF Emissions
  <1>8. \A i \in 1 .. n : /\ Outer(i) \in Emissions /\ Outer(i).sig = stack[i].sig
                          /\ Outer(i).first \subseteq stack[i].first
                          /\ Outer(i).broken <=> stack[i].broken \/ stack[i].sig = g
                          /\ stack[i].sig # g => Outer(i) = stack[i]
    BY <1>2 DEF Emissions, Broken
  <1> HIDE DEF e, Outer
  <1>9. /\ stack' \in Seq(Emissions) /\ Len(stack') = n + 1 /\ stack'[n + 1] = e
        /\ \A i \in 1 .. n : stack'[i] = Outer(i)
    <2>1. old \in Seq(Emissions) /\ Len(old) = n /\ \A i \in 1 .. n : old[i] = Outer(i)
      BY <1>2, <1>8
    <2> HIDE DEF old, n
    <2> QED BY <1>1, <1>7, <2>1, <1>2
  <1>10. current'[g] = Begin(conns[g]) /\ \A h \in Signals : h # g => current'[h] = current[h]
    BY <1>1 DEF SigInv, SigTypes
  <1>11. Covers(e, conns[g], Begin(conns[g]))
    <2>1. \A i \in IdsOf(conns[g]) : Begin(conns[g]) # AtEnd /\ i >= Begin(conns[g])
      BY <1>4, <1>5
    <2> QED BY <2>1 DEF Covers
  <1> HIDE DEF n
  <1>12. \A k \in 1 .. n + 1 : k \in 1 .. n \/ k = n + 1
    BY <1>2
  <1>13. ASSUME NEW k \in 1 .. Len(stack')
         PROVE  /\ stack'[k].sig \in liveSignals'
                /\ \A i \in stack'[k].first : i <= made'
                /\ ~stack'[k].broken => Covers(stack'[k], conns'[stack'[k].sig], current'[stack'[k].sig])
    <2>1. CASE k = n + 1
      BY <1>1, <1>5, <1>7, <1>9, <1>10, <1>11, <2>1
    <2>2. CASE k \in 1 .. n
      <3>1. /\ stack[k].sig \in liveSignals /\ stack[k].sig \in Signals
            /\ \A i \in stack[k].first : i <= made
            /\ ~stack[k].broken => Covers(stack[k], conns[stack[k].sig], current[stack[k].sig])
        BY <2>2 DEF SigInv, SigTypes, EmissionsRight, n
      <3>2. stack'[k] = Outer(k)
        BY <1>9, <2>2
      <3>3. /\ stack'[k].sig = stack[k].sig /\ stack'[k].first \subseteq stack[k].first
            /\ ~stack'[k].broken => ~stack[k].broken /\ stack[k].sig # g /\ stack'[k] = stack[k]
        BY <1>8, <2>2, <3>2
      <3>4. ~stack'[k].broken => Covers(stack'[k], conns[stack[k].sig], current[stack[k].sig])
        BY <3>1, <3>3
      <3> QED BY <1>1, <1>10, <3>1, <3>3, <3>4
    <2> QED BY <1>9, <1>12, <2>1, <2>2
  <1>14. ASSUME NEW k \in 1 .. Len(stack'), NEW l \in 1 .. Len(stack'), k < l, stack'[k].sig = stack'[l].sig
         PROVE  stack'[k].broken
    <2>1. k \in 1 .. n
      BY <1>2, <1>9, <1>14
    <2>2. stack'[k].sig = stack[k].sig /\ (stack'[k].broken <=> stack[k].broken \/ stack[k].sig = g)
      BY <1>8, <1>9, <2>1
    <2>3. CASE l = n + 1
      BY <1>7, <1>9, <1>14, <2>2, <2>3
    <2>4. CASE l \in 1 .. n
      <3>1. stack'[l].sig = stack[l].sig
        BY <1>8, <1>9, <2>4
      <3> QED BY <1>14, <2>1, <2>2, <2>4, <3>1 DEF SigInv, EmissionsRight, n
    <2> QED BY <1>9, <1>12, <2>3, <2>4
  <1>15. EmissionsRight'
    BY <1>9, <1>13, <1>14 DEF EmissionsRight, Covers
  <1>16. SigTypes' /\ SidesAgree'
    BY <1>1, <1>4 DEF SigInv, SigTypes, SidesAgree, Knows, Heard
  <1> QED BY <1>6, <1>15, <1>16 DEF SigInv

LEMMA EmitNextKeeps ==
  ASSUME SigInv, EmitNext
  PROVE  SigInv'
  <1> DEFINE n == Len(stack)
             g == stack[n].sig
             at == current[g]
             to == Following(conns[g], at)
             e == [stack[n] EXCEPT !.called = stack[n].called \union {at}]
             rest == { c \in conns[g] : c.id > at }
  <1>1. /\ stack \in Seq(Emissions) /\ n \in Nat /\ n \in 1 .. n
        /\ \A i \in 1 .. n : stack[i] \in Emissions
    BY DEF SigInv, EmissionsRight, EmitNext
  <1>2. /\ at # AtEnd /\ current' = [current EXCEPT ![g] = to]
        /\ stack' = [stack EXCEPT ![n] = e]
        /\ UNCHANGED <<conns, senders, liveSlots, liveSignals, made, forgotten>>
    BY DEF EmitNext, Last
  <1>3. g \in Signals /\ g \in liveSignals
    BY <1>1 DEF SigInv, EmissionsRight, Emissions
  <1>4. ListRight(conns[g], at, TRUE, made) /\ conns[g] \subseteq Connections /\ at \in Nat
    BY <1>3 DEF SigInv, ListsRight, ListRight
  <1>5. /\ e \in Emissions /\ e.sig = g /\ e.first = stack[n].first /\ e.broken = stack[n].broken
        /\ e.called = stack[n].called \union {at}
    BY <1>1, <1>4 DEF Emissions
  <1>6. to = Begin(rest) /\ rest \subseteq conns[g] /\ rest \subseteq Connections
    BY <1>4 DEF Following
  <1>7. /\ Begin(rest) \in Nat /\ IdsOf(rest) \subseteq Nat \ {AtEnd}
        /\ rest = {} => Begin(rest) = AtEnd
        /\ rest # {} => Begin(rest) \in IdsOf(rest) /\ \A i \in IdsOf(rest) : Begin(rest) <= i
    BY <1>6, BeginIsFirst
  <1>8. /\ \A i \in IdsOf(conns[g]) : i >= at /\ i # at => i \in IdsOf(rest)
        /\ IdsOf(rest) \subseteq IdsOf(conns[g]) /\ \A i \in IdsOf(rest) : rest # {}
        /\ IdsOf(conns[g]) \subseteq Nat
    BY <1>4 DEF IdsOf, Connections
  <1> HIDE DEF rest, e, to, at
  <1>9. ListRight(conns[g], to, TRUE, made)
    BY <1>4, <1>6, <1>7, <1>8 DEF ListRight
  <1>10. \A i \in IdsOf(conns[g]) : i >= at /\ i # at => to # AtEnd /\ i >= to
    BY <1>6, <1>7, <1>8
  <1>11. Covers(stack[n], conns[g], at) => Covers(e, conns[g], to)
    BY <1>5, <1>10 DEF Covers
  <1> HIDE DEF g, n
  <1>12. /\ stack' \in Seq(Emissions) /\ Len(stack') = n /\ stack'[n] = e
         /\ \A i \in 1 .. n : i # n => stack'[i] = stack[i]
    BY <1>1, <1>2, <1>5 DEF n
  <1>13. current'[g] = to /\ \A h \in Signals : h # g => current'[h] = current[h]
    BY <1>2, <1>3 DEF SigInv, SigTypes
  <1>14. ASSUME NEW k \in 1 .. n
         PROVE  /\ stack'[k].sig \in liveSignals' /\ stack'[k].sig = stack[k].sig
                /\ stack'[k].broken = stack[k].broken
                /\ \A i \in stack'[k].first : i <= made'
                /\ ~stack'[k].broken => Covers(stack'[k], conns'[stack'[k].sig], current'[stack'[k].sig])
    <2>1. /\ stack[k].sig \in liveSignals /\ stack[k].sig \in Signals
          /\ \A i \in stack[k].first : i <= made
          /\ ~stack[k].broken => Covers(stack[k], conns[stack[k].sig], current[stack[k].sig])
      BY DEF SigInv, SigTypes, EmissionsRight, n
    <2>2. CASE k = n
      <3>1. stack'[k] = e /\ stack[k].sig = g
        BY <1>12, <2>2 DEF g
      <3>2. ~stack[n].broken => Covers(e, conns[g], to)
        BY <1>11, <2>1, <2>2, <3>1 DEF at
      <3> QED BY <1>2, <1>3, <1>5, <1>13, <2>1, <2>2, <3>1, <3>2
    <2>3. CASE k # n
      <3>1. stack'[k] = stack[k]
        BY <1>12, <2>3
      <3>2. ~stack[k].broken => stack[k].sig # g
        <4>1. k < n /\ n \in 1 .. n
          BY <1>1, <2>3
        <4> QED BY <4>1 DEF SigInv, EmissionsRight, n, g
      <3> QED BY <1>2, <1>13, <2>1, <3>1, <3>2
    <2> QED BY <2>2, <2>3
  <1>15. EmissionsRight'
    <2>1. \A k, l \in 1 .. n : k < l /\ stack'[k].sig = stack'[l].sig => stack'[k].broken
      BY <1>14 DEF SigInv, EmissionsRight, n
    <2> QED BY <1>12, <1>14, <2>1 DEF EmissionsRight, Covers
  <1>16. ListsRight'
    <2>1. ListRight(conns[g], to, g \in liveSignals, made)
      BY <1>3, <1>9
    <2> QED BY <1>2, <1>3, <1>13, <2>1 DEF SigInv, ListsRight
  <1>17. SigTypes' /\ SidesAgree'
    BY <1>2, <1>6, <1>7 DEF SigInv, SigTypes, SidesAgree, Knows, Heard
  <1> QED BY <1>15, <1>16, <1>17 DEF SigInv

LEMMA EmitEndsKeeps ==
  ASSUME SigInv, EmitEnds
  PROVE  SigInv'
  <1> DEFINE n == Len(stack)
  <1>1. /\ stack \in Seq(Emissions) /\ n \in Nat /\ n \in 1 .. n
        /\ stack' = SubSeq(stack, 1, n - 1)
        /\ UNCHANGED <<conns, current, senders, liveSlots, liveSignals, made, forgotten>>
    BY DEF SigInv, EmissionsRight, EmitEnds, Front
  <1>2. stack' \in Seq(Emissions) /\ Len(stack') = n - 1 /\ \A k \in 1 .. n - 1 : stack'[k] = stack[k]
    <2>1. n - 1 \in Int /\ 1 \in Int /\ \A k \in 1 .. n - 1 : stack[k] \in Emissions
      BY <1>1
    <2>2. /\ SubSeq(stack, 1, n - 1) \in Seq(Emissions)
          /\ Len(SubSeq(stack, 1, n - 1)) = IF 1 <= n - 1 THEN (n - 1) - 1 + 1 ELSE 0
          /\ \A i \in 1 .. (n - 1) - 1 + 1 : SubSeq(stack, 1, n - 1)[i] = stack[1 + i - 1]
      BY <2>1, SubSeqProperties
    <2>3. /\ stack' \in Seq(Emissions)
          /\ Len(stack') = IF 1 <= n - 1 THEN (n - 1) - 1 + 1 ELSE 0
          /\ \A i \in 1 .. (n - 1) - 1 + 1 : stack'[i] = stack[1 + i - 1]
      BY <1>1, <2>2, Zenon
    <2>4. n \in Nat /\ n >= 1
      BY <1>1
    <2> HIDE DEF n
    <2>5. Len(stack') = n - 1
      BY <2>3, <2>4
    <2>6. ASSUME NEW k \in 1 .. n - 1 PROVE stack'[k] = stack[k]
      <3>1. k \in 1 .. (n - 1) - 1 + 1 /\ 1 + k - 1 = k
        BY <2>4
      <3> QED BY <2>3, <3>1, Zenon
    <2> QED BY <2>3, <2>5, <2>6
  <1>3. \A k \in 1 .. n - 1 : k \in 1 .. n
    BY <1>1
  <1>4. EmissionsRight'
    BY <1>1, <1>2, <1>3 DEF SigInv, EmissionsRight, Covers
  <1>5. SigTypes' /\ SidesAgree' /\ ListsRight'
    BY <1>1 DEF SigInv, SigTypes, SidesAgree, Knows, Heard, ListsRight
  <1> QED BY <1>4, <1>5 DEF SigInv

(* Signals call the slots that are connected, each once, and none of an object
   that is gone, whatever the slots do that are called in between. *)
THEOREM SignalsCallRight == SigSpec => []SlotsCalledRight
  <1>1. SigInit => SigInv
    BY DEF SigInit, SigInv, SigTypes, ListsRight, ListRight, SidesAgree, Knows, Heard, EmissionsRight, AtEnd
  <1>2. SigInv /\ [SigNext]_sigVars => SigInv'
    <2>1. SigInv /\ UNCHANGED sigVars => SigInv'
      BY DEF sigVars, SigInv, SigTypes, ListsRight, SidesAgree, Knows, Heard, EmissionsRight, Covers
    <2>2. SigInv /\ SigNext => SigInv'
      BY ConnectKeeps, DisconnectKeeps, DisconnectAllKeeps, DisconnectSendersKeeps, CopySignalKeeps,
         CopySlotsKeeps, EmitKeeps, EmitNextKeeps, EmitEndsKeeps DEF SigNext
    <2> QED BY <2>1, <2>2
  <1>3. SigInv => SlotsCalledRight
    <2> SUFFICES ASSUME SigInv PROVE SlotsCalledRight
      OBVIOUS
    <2>1. BothSidesKnow
      <3>1. \A g \in Signals : \A c \in conns[g] : c.dest \in Slots
        BY DEF SigInv, SigTypes, Connections
      <3> QED BY <3>1 DEF SigInv, SigTypes, ListsRight, ListRight, SidesAgree, Knows, Heard, BothSidesKnow
    <2>2. EveryoneCalled
      <3> SUFFICES ASSUME stack # << >>, ~Last(stack).broken PROVE EveryoneCalled
        BY DEF EveryoneCalled
      <3>1. Len(stack) \in 1 .. Len(stack) /\ Last(stack) = stack[Len(stack)]
        BY DEF SigInv, EmissionsRight, Last
      <3>2. Covers(Last(stack), conns[Last(stack).sig], current[Last(stack).sig])
        BY <3>1 DEF SigInv, EmissionsRight
      <3> QED BY <3>2 DEF EveryoneCalled, Covers
    <2> QED BY <2>1, <2>2 DEF SlotsCalledRight
  <1> QED BY <1>1, <1>2, <1>3, PTL DEF SigSpec

-----------------------------------------------------------------------------
(***************************************************************************)
(* Repeating and guarded tasks, for any delays, any run of the clock and   *)
(* any length of a millisecond.                                            *)
(***************************************************************************)
(* What is left of a division. *)
LEMMA Division ==
  ASSUME NEW a \in Nat, NEW p \in Nat \ {0}
  PROVE  /\ a \div p \in Nat
         /\ (a \div p) * p <= a
         /\ a < (a \div p) * p + p
  OBVIOUS

(* A quotient does not fall when the dividend grows. *)
LEMMA DivisionGrows ==
  ASSUME NEW a \in Nat, NEW b \in Nat, NEW p \in Nat \ {0}, a <= b
  PROVE  a \div p <= b \div p
  <1> DEFINE q == a \div p
             r == b \div p
  <1>1. q \in Nat /\ r \in Nat /\ q * p <= a /\ b < r * p + p
    BY Division
  <1> HIDE DEF q, r
  <1>2. SUFFICES ASSUME r < q PROVE FALSE
    BY <1>1 DEF q, r
  <1>3. PICK k \in Nat : q = r + 1 + k
    <2>1. q - r - 1 \in Nat /\ q = r + 1 + (q - r - 1)
      BY <1>1, <1>2
    <2> QED BY <2>1
  <1>4. q * p = r * p + p + k * p
    BY <1>1, <1>3
  <1>5. k * p >= 0 /\ q * p \in Nat /\ r * p \in Nat /\ k * p \in Nat
    BY <1>1, <1>3
  <1> QED BY <1>1, <1>4, <1>5

(* Half of a millisecond, and how far a duration in milliseconds is off. *)
LEMMA HalfMilli ==
  /\ PerMilli \in Nat \ {0} /\ PerMilli \div 2 \in Nat
  /\ PerMilli <= (PerMilli \div 2) + (PerMilli \div 2) + 1
  BY UnitAssumption

LEMMA MillisOff ==
  ASSUME NEW n \in Nat
  PROVE  /\ DeltaMs(n) \in Nat
         /\ DeltaMs(n) * PerMilli <= n + (PerMilli \div 2)
         /\ DeltaMs(n) * PerMilli >= n - (PerMilli \div 2)
  <1> DEFINE h == PerMilli \div 2
             d == (n + h) \div PerMilli
  <1>1. h \in Nat /\ PerMilli \in Nat \ {0} /\ PerMilli <= h + h + 1
    BY HalfMilli
  <1> HIDE DEF h
  <1>2. n + h \in Nat /\ n >= 0 /\ n + h >= 0
    BY <1>1
  <1>3. d \in Nat /\ d * PerMilli <= n + h /\ n + h < d * PerMilli + PerMilli
    BY <1>1, <1>2, Division
  <1>4. DeltaMs(n) = d
    BY <1>2 DEF DeltaMs, DivRoundToNearest, Quot, h, d
  <1> HIDE DEF d
  <1>5. d * PerMilli \in Nat
    BY <1>1, <1>3
  <1>6. d * PerMilli >= n - h
    BY <1>1, <1>3, <1>5
  <1> QED BY <1>3, <1>4, <1>6 DEF h

(* A queued task that is due at due, with the schedule at i and the time c. *)
Timely(due, i, c) ==
  /\ due * PerMilli > i - Slack
  /\ \/ due * PerMilli <= i + (PerMilli \div 2)
     \/ due <= Milli(c)

(* A task asked for delay d at the time c is due on time. *)
LEMMA DueOnTime ==
  ASSUME NEW c \in Nat, NEW d \in Nat
  PROVE  LET due == Milli(c) + DeltaMs(d)
         IN  /\ due \in Nat
             /\ due * PerMilli > (c + d) - Slack
             /\ due * PerMilli <= c + d + (PerMilli \div 2)
             /\ \A t : Timely(due, c + d, t)
  <1> DEFINE h == PerMilli \div 2
             m == Milli(c)
             k == DeltaMs(d)
  <1>1. h \in Nat /\ PerMilli \in Nat \ {0}
    BY HalfMilli
  <1>2. m \in Nat /\ m * PerMilli <= c /\ c < m * PerMilli + PerMilli
    BY <1>1, Division DEF Milli
  <1>3. k \in Nat /\ k * PerMilli <= d + h /\ k * PerMilli >= d - h
    BY MillisOff
  <1>4. Slack = PerMilli + h
    BY DEF Slack
  <1> HIDE DEF h, m, k
  <1>5. (m + k) * PerMilli = m * PerMilli + k * PerMilli /\ m * PerMilli \in Nat /\ k * PerMilli \in Nat
    BY <1>1, <1>2, <1>3
  <1>6. (m + k) * PerMilli > (c + d) - Slack /\ (m + k) * PerMilli <= c + d + h
    BY <1>1, <1>2, <1>3, <1>4, <1>5
  <1>7. \A t : Timely(m + k, c + d, t)
    BY <1>6 DEF Timely, h
  <1> QED BY <1>2, <1>3, <1>6, <1>7 DEF h, m, k

LEMMA Scheduled ==
  ASSUME NEW due, NEW next, NEW i, Timely(due, i, clock'),
         rep' = [at |-> "queued", next |-> next, due |-> due], ideal' = i
  PROVE  RepeatsOnSchedule'
  <1>1. rep'.due = due
    OBVIOUS
  <1> QED BY <1>1, Zenon DEF Timely, RepeatsOnSchedule

(* The schedule is kept in next_run_time_, and the flag goes down with its
   object. *)
TaskInv ==
  /\ clock \in Nat
  /\ rep \in [at : {"none", "queued", "gone"}, next : Nat, due : Nat]
  /\ ideal \in Nat
  /\ rep.at = "queued" => rep.next = ideal
  /\ RepeatsOnSchedule
  /\ flag => object

LEMMA RepeatStartKeeps ==
  ASSUME TaskInv, NEW first \in Delays, RepeatStart(first)
  PROVE  TaskInv'
  <1>1. first \in Nat /\ clock \in Nat /\ clock + first \in Nat
    BY TaskDelays DEF TaskInv
  <1> DEFINE due == Milli(clock) + DeltaMs(first)
  <1>2. due \in Nat /\ Timely(due, clock + first, clock')
    BY <1>1, DueOnTime
  <1>3. rep' = [at |-> "queued", next |-> clock + first, due |-> due] /\ ideal' = clock + first
        /\ UNCHANGED <<clock, flag, object>>
    BY DEF RepeatStart, DueAfter
  <1> HIDE DEF due
  <1>4. RepeatsOnSchedule'
    BY <1>2, <1>3, Scheduled
  <1> QED BY <1>1, <1>2, <1>3, <1>4 DEF TaskInv

LEMMA ClockForward ==
  ASSUME TaskInv, UNCHANGED <<rep, ideal, flag, object>>, clock' \in Nat, clock <= clock'
  PROVE  TaskInv'
  <1>1. Milli(clock) <= Milli(clock') /\ Milli(clock) \in Nat /\ Milli(clock') \in Nat
    BY HalfMilli, Division, DivisionGrows DEF TaskInv, Milli
  <1>2. rep.due \in Nat
    BY DEF TaskInv
  <1>3. rep.due <= Milli(clock) => rep.due <= Milli(clock')
    BY <1>1, <1>2
  <1>4. RepeatsOnSchedule'
    BY <1>3 DEF TaskInv, RepeatsOnSchedule
  <1> QED BY <1>4 DEF TaskInv

LEMMA DelayShortened ==
  ASSUME NEW delay \in Nat, NEW lost \in Int
  PROVE  /\ NextDelay(delay, lost) \in Nat
         /\ \/ NextDelay(delay, lost) = delay - lost
            \/ NextDelay(delay, lost) = 0 /\ delay <= lost
  BY DEF NextDelay

(* A task that goes, and one that posts itself again. *)
LEMMA RepeatRunKeeps ==
  ASSUME TaskInv, NEW delay \in Delays \union {PlusInf}, NEW took \in 0 .. 1, NEW stops \in BOOLEAN,
         RepeatRun(delay, took, stops)
  PROVE  TaskInv' /\ StoppedMeansStopped
  <1>1. rep.at = "queued" /\ UNCHANGED <<flag, object>>
    BY DEF RepeatRun
  <1>2. ASSUME rep' = Gone, ran' # "guarded", ran' = "rep" => repAlive, clock' \in Nat, UNCHANGED ideal
        PROVE  TaskInv' /\ StoppedMeansStopped
    BY <1>1, <1>2 DEF TaskInv, RepeatsOnSchedule, StoppedMeansStopped, Gone
  <1>3. CASE ~repAlive
    BY <1>2, <1>3 DEF RepeatRun, TaskInv
  <1>4. CASE repAlive /\ (delay = PlusInf \/ stops)
    <2>1. clock' = clock + took /\ clock \in Nat
      BY <1>4 DEF RepeatRun, TaskInv
    <2>2. clock' \in Nat
      BY <2>1
    <2> QED BY <1>2, <1>4, <2>2 DEF RepeatRun
  <1>5. CASE repAlive /\ ~ (delay = PlusInf \/ stops)
    <2> DEFINE lost == clock' - rep.next
               nd == NextDelay(delay, lost)
               due == Milli(clock') + DeltaMs(nd)
    <2>1. /\ clock' = clock + took /\ ran' = "rep" /\ ideal' = ideal + delay
          /\ rep' = [at |-> "queued", next |-> rep.next + delay, due |-> due]
      BY <1>5 DEF RepeatRun
    <2>2. /\ clock \in Nat /\ clock' \in Nat /\ delay \in Nat /\ rep.next \in Nat /\ ideal \in Nat
          /\ rep.next = ideal
      BY <1>1, <1>5, <2>1, TaskDelays DEF TaskInv
    <2>3. /\ nd \in Nat
          /\ nd = delay - lost \/ (nd = 0 /\ delay <= lost)
          /\ lost = clock' - ideal
      <3>1. lost = clock' - ideal /\ lost \in Int /\ delay - lost \in Int
        BY <2>2
      <3>2. nd \in Nat /\ (nd = delay - lost \/ (nd = 0 /\ delay <= lost))
        BY <2>2, <3>1, DelayShortened
      <3> QED BY <3>1, <3>2
    <2>4. /\ due \in Nat /\ due * PerMilli > (clock' + nd) - Slack
          /\ Timely(due, clock' + nd, clock')
      BY <2>2, <2>3, DueOnTime
    <2>5. nd = 0 => due = Milli(clock')
      <3>1. DeltaMs(0) = 0
        <4>1. DeltaMs(0) = (PerMilli \div 2) \div PerMilli
          BY HalfMilli DEF DeltaMs, DivRoundToNearest, Quot
        <4>2. (PerMilli \div 2) < PerMilli
          BY HalfMilli
        <4> DEFINE h == PerMilli \div 2
                   q == h \div PerMilli
        <4>3. h \in Nat /\ q \in Nat /\ q * PerMilli <= h /\ h < PerMilli /\ PerMilli \in Nat \ {0}
          BY HalfMilli, Division, <4>2
        <4> HIDE DEF h, q
        <4>4. q = 0
          <5>1. SUFFICES ASSUME q >= 1 PROVE FALSE
            BY <4>3
          <5>2. PICK k \in Nat : q = k + 1
            <6>1. q - 1 \in Nat /\ q = (q - 1) + 1
              BY <4>3, <5>1
            <6> QED BY <6>1
          <5>3. q * PerMilli = k * PerMilli + PerMilli /\ k * PerMilli \in Nat
            BY <4>3, <5>2
          <5> QED BY <4>3, <5>3
        <4> QED BY <4>1, <4>4 DEF h, q
      <3>2. Milli(clock') \in Nat
        BY <2>2, HalfMilli, Division DEF Milli
      <3> QED BY <3>1, <3>2
    <2>6. Slack \in Nat /\ Milli(clock') \in Nat /\ PerMilli \div 2 \in Nat /\ due * PerMilli \in Nat
      <3>1. PerMilli \in Nat \ {0} /\ PerMilli \div 2 \in Nat
        BY HalfMilli
      <3>2. Milli(clock') \in Nat
        BY <2>2, <3>1, Division DEF Milli
      <3>3. Slack \in Nat
        BY <3>1 DEF Slack
      <3> HIDE DEF due
      <3> QED BY <2>4, <3>1, <3>2, <3>3
    <2> HIDE DEF lost, nd, due
    <2>7. CASE nd = delay - lost
      <3>1. clock' + nd = ideal'
        BY <2>1, <2>2, <2>3, <2>7
      <3>2. RepeatsOnSchedule'
        <4>1. Timely(due, ideal', clock')
          BY <2>4, <3>1, Zenon
        <4> QED BY <2>1, <4>1, Scheduled
      <3> QED BY <1>1, <1>5, <2>1, <2>2, <2>4, <3>2 DEF TaskInv, StoppedMeansStopped
    <2>8. CASE nd = 0 /\ delay <= lost
      <3>1. ideal' <= clock' /\ ideal' \in Nat /\ lost \in Int
        BY <2>1, <2>2, <2>3, <2>8
      <3>2. due * PerMilli > ideal' - Slack
        BY <2>2, <2>4, <2>6, <2>8, <3>1
      <3>3. due <= Milli(clock')
        BY <2>5, <2>6, <2>8
      <3>4. RepeatsOnSchedule'
        <4>1. Timely(due, ideal', clock')
          BY <3>2, <3>3, Zenon DEF Timely
        <4> QED BY <2>1, <4>1, Scheduled
      <3> QED BY <1>1, <1>5, <2>1, <2>2, <2>4, <3>1, <3>4 DEF TaskInv, StoppedMeansStopped
    <2> QED BY <2>3, <2>7, <2>8
  <1> QED BY <1>3, <1>4, <1>5

(* A repeating task keeps to its schedule, errors do not add up, and nothing
   runs after Stop or after its object is gone. *)
THEOREM TasksOnTime == TaskSpec => TasksKeepTime
  <1>1. TaskInit => TaskInv
    <2>1. TaskInit => clock \in Nat
      BY UnitAssumption DEF TaskInit
    <2> QED BY <2>1 DEF TaskInit, TaskInv, RepeatsOnSchedule
  <1>2. TaskInv /\ [TaskNext]_taskVars => TaskInv' /\ [RepeatsOnSchedule' /\ StoppedMeansStopped]_taskVars
    <2> SUFFICES ASSUME TaskInv, [TaskNext]_taskVars
                 PROVE  TaskInv' /\ [RepeatsOnSchedule' /\ StoppedMeansStopped]_taskVars
      OBVIOUS
    <2>1. ASSUME TaskInv', StoppedMeansStopped
          PROVE  TaskInv' /\ [RepeatsOnSchedule' /\ StoppedMeansStopped]_taskVars
      BY <2>1 DEF TaskInv
    <2>2. ASSUME UNCHANGED <<clock, rep, ideal, flag, object>>
          PROVE  TaskInv'
      BY <2>2 DEF TaskInv, RepeatsOnSchedule
    <2>3. CASE UNCHANGED taskVars
      BY <2>2, <2>3 DEF taskVars
    <2>4. CASE \E first \in Delays : RepeatStart(first)
      BY <2>1, <2>4, RepeatStartKeeps DEF RepeatStart, StoppedMeansStopped
    <2>5. CASE RepeatStop \/ HandleGone \/ GuardedPost
      BY <2>1, <2>2, <2>5 DEF RepeatStop, HandleGone, GuardedPost, StoppedMeansStopped
    <2>6. CASE \E delay \in Delays \union {PlusInf}, took \in 0 .. 1, stops \in BOOLEAN :
                 RepeatRun(delay, took, stops)
      BY <2>1, <2>6, RepeatRunKeeps
    <2>7. CASE GuardedRun
      BY <2>1, <2>2, <2>7 DEF GuardedRun, StoppedMeansStopped, TaskInv
    <2>8. CASE ObjectGone \/ \E alive \in BOOLEAN : SetFlag(alive)
      <3>1. TaskInv'
        BY <2>8 DEF ObjectGone, SetFlag, TaskInv, RepeatsOnSchedule
      <3> QED BY <2>1, <2>8, <3>1 DEF ObjectGone, SetFlag, StoppedMeansStopped
    <2>9. CASE \E d \in {1, PerMilli} : Passes(d)
      <3>1. PICK d \in {1, PerMilli} : Passes(d)
        BY <2>9
      <3>2. d \in Nat /\ clock \in Nat /\ clock' = clock + d /\ UNCHANGED <<rep, ideal, flag, object>>
        BY <3>1, UnitAssumption DEF Passes, TaskInv
      <3>3. TaskInv'
        BY <3>2, ClockForward
      <3> QED BY <2>1, <3>1, <3>3 DEF Passes, StoppedMeansStopped
    <2> QED BY <2>3, <2>4, <2>5, <2>6, <2>7, <2>8, <2>9 DEF TaskNext
  <1> QED BY <1>1, <1>2, PTL DEF TaskSpec, TasksKeepTime

-----------------------------------------------------------------------------
(***************************************************************************)
(* The buffers, for every set of elements and of handles and every size.   *)
(* Keeps(b, v) says that a block holds v and room behind it; each operator *)
(* of Buffer is shown to keep it, and what is behind clean of written      *)
(* elements where the buffer is one that overwrites what it gives up.      *)
(***************************************************************************)
Memory == [size : Nat, cells : Seq(Int)]

(* The elements of a block that are in use are v. *)
Keeps(b, v) ==
  /\ b \in Memory
  /\ b.size = Len(v) /\ b.size <= Len(b.cells)
  /\ \A i \in 1 .. Len(v) : b.cells[i] = v[i]

(* The others were not written by anybody, or were overwritten. *)
Clean(b) == \A i \in b.size + 1 .. Len(b.cells) : b.cells[i] \notin Data

LEMMA MemoryIs ==
  ASSUME NEW b \in Memory
  PROVE  /\ b.size \in Nat /\ b.cells \in Seq(Int) /\ Len(b.cells) \in Nat
         /\ \A n \in Nat : [b EXCEPT !.size = n] \in Memory /\ [b EXCEPT !.size = n].size = n
                           /\ [b EXCEPT !.size = n].cells = b.cells
         /\ \A c \in Seq(Int) : [b EXCEPT !.cells = c] \in Memory /\ [b EXCEPT !.cells = c].cells = c
                                /\ [b EXCEPT !.cells = c].size = b.size
  BY DEF Memory

LEMMA MadeMemory ==
  ASSUME NEW n \in Nat, NEW c \in Seq(Int)
  PROVE  [size |-> n, cells |-> c] \in Memory
  BY DEF Memory

LEMMA NotData ==
  Zero \notin Data /\ Uninitialized \notin Data /\ Zero \in Int /\ Uninitialized \in Int /\ Data \subseteq Int
  BY BufferAssumption DEF Zero, Uninitialized

LEMMA Filled ==
  ASSUME NEW n \in Nat, NEW x \in Int
  PROVE  Fill(n, x) \in Seq(Int) /\ Len(Fill(n, x)) = n /\ \A i \in 1 .. n : Fill(n, x)[i] = x
  BY DEF Fill

LEMMA LargerIs ==
  ASSUME NEW i \in Int, NEW j \in Int
  PROVE  /\ Larger(i, j) \in {i, j} /\ Larger(i, j) >= i /\ Larger(i, j) >= j
         /\ Smaller(i, j) \in {i, j} /\ Smaller(i, j) <= i /\ Smaller(i, j) <= j
  BY DEF Larger, Smaller

LEMMA Cut ==
  ASSUME NEW s \in Seq(Int), NEW n \in Nat, n <= Len(s)
  PROVE  /\ SubSeq(s, 1, n) \in Seq(Int) /\ Len(SubSeq(s, 1, n)) = n
         /\ \A i \in 1 .. n : SubSeq(s, 1, n)[i] = s[i]
  OBVIOUS

LEMMA Joined ==
  ASSUME NEW s \in Seq(Int), NEW r \in Seq(Int)
  PROVE  /\ s \o r \in Seq(Int) /\ Len(s \o r) = Len(s) + Len(r)
         /\ \A i \in 1 .. Len(s) : (s \o r)[i] = s[i]
         /\ \A i \in Len(s) + 1 .. Len(s) + Len(r) : (s \o r)[i] = r[i - Len(s)]
  OBVIOUS

LEMMA SameSeq ==
  ASSUME NEW s \in Seq(Int), NEW r \in Seq(Int), Len(s) = Len(r), \A i \in 1 .. Len(s) : s[i] = r[i]
  PROVE  s = r
  BY SeqEqual

LEMMA KeptContents ==
  ASSUME NEW b, NEW v \in Seq(Int), Keeps(b, v)
  PROVE  Contents(b) = v /\ Len(v) \in Nat
  <1>1. b.cells \in Seq(Int) /\ b.size \in Nat /\ b.size <= Len(b.cells)
    BY MemoryIs DEF Keeps
  <1>2. /\ Contents(b) \in Seq(Int) /\ Len(Contents(b)) = b.size
        /\ \A i \in 1 .. b.size : Contents(b)[i] = b.cells[i]
    BY <1>1, Cut DEF Contents
  <1>3. Contents(b) = v
    BY <1>2, SameSeq DEF Keeps
  <1> QED BY <1>3

LEMMA ContentsKept ==
  ASSUME NEW b \in Memory, b.size <= Len(b.cells)
  PROVE  Contents(b) \in Seq(Int) /\ Keeps(b, Contents(b))
  <1>1. b.cells \in Seq(Int) /\ b.size \in Nat
    BY MemoryIs
  <1> QED BY <1>1, Cut DEF Keeps, Contents

LEMMA EmptyKeeps == Keeps(EmptyBuffer, << >>) /\ Clean(EmptyBuffer)
  <1>1. << >> \in Seq(Int) /\ Len(<< >>) = 0
    OBVIOUS
  <1>2. EmptyBuffer \in Memory
    BY <1>1, MadeMemory DEF EmptyBuffer
  <1>3. EmptyBuffer.size = 0 /\ EmptyBuffer.cells = << >>
    BY DEF EmptyBuffer
  <1> QED BY <1>1, <1>2, <1>3 DEF Keeps, Clean

(* New memory. *)
LEMMA NewKeeps ==
  ASSUME NEW v \in Seq(Int), NEW c \in Nat
  PROVE  /\ Keeps(NewBuffer(v, c), v) /\ Clean(NewBuffer(v, c))
         /\ Len(NewBuffer(v, c).cells) >= c
  <1> DEFINE n == Len(v)
             m == Larger(n, c) - n
             f == Fill(m, Uninitialized)
             cs == v \o f
             b == NewBuffer(v, c)
  <1>1. n \in Nat
    OBVIOUS
  <1>2. m \in Nat /\ n + m >= c
    BY <1>1, LargerIs
  <1> HIDE DEF m
  <1>3. f \in Seq(Int) /\ Len(f) = m /\ \A i \in 1 .. m : f[i] = Uninitialized
    BY <1>2, NotData, Filled
  <1> HIDE DEF f
  <1>4. /\ cs \in Seq(Int) /\ Len(cs) = n + m
        /\ \A i \in 1 .. n : cs[i] = v[i]
        /\ \A i \in n + 1 .. n + m : cs[i] = f[i - n]
    BY <1>3, Joined
  <1>5. b = [size |-> n, cells |-> cs]
    BY DEF NewBuffer, m, f
  <1> HIDE DEF b, cs
  <1>6. b \in Memory /\ b.size = n /\ b.cells = cs
    <2> HIDE DEF n
    <2>1. b.size = n /\ b.cells = cs
      BY <1>5
    <2> QED BY <1>1, <1>4, <1>5, <2>1, MadeMemory
  <1>7. Keeps(b, v)
    BY <1>1, <1>2, <1>4, <1>6 DEF Keeps
  <1>8. Clean(b)
    <2> SUFFICES ASSUME NEW i \in n + 1 .. n + m
                 PROVE  cs[i] \notin Data
      BY <1>4, <1>6 DEF Clean
    <2>1. i - n \in 1 .. m
      BY <1>1, <1>2
    <2> QED BY <1>3, <1>4, <2>1, NotData
  <1> QED BY <1>2, <1>4, <1>6, <1>7, <1>8 DEF b

LEMMA EnsureKeeps ==
  ASSUME NEW b, NEW v \in Seq(Int), Keeps(b, v), NEW n \in Nat, NEW x \in BOOLEAN
  PROVE  /\ Keeps(EnsureCapacity(b, n, x), v)
         /\ Clean(b) => Clean(EnsureCapacity(b, n, x))
         /\ Len(EnsureCapacity(b, n, x).cells) >= n
         /\ n <= Len(b.cells) => EnsureCapacity(b, n, x) = b
         /\ n > Len(b.cells) => Clean(EnsureCapacity(b, n, x))
  <1> DEFINE k == Len(b.cells)
             c == IF x THEN Larger(n, k + k \div 2) ELSE n
  <1>1. k \in Nat
    BY MemoryIs DEF Keeps
  <1>2. CASE n <= k
    BY <1>1, <1>2 DEF EnsureCapacity, Capacity
  <1>3. CASE n > k
    <2>0. ~ (n <= Capacity(b)) /\ Capacity(b) = k
      BY <1>1, <1>3 DEF Capacity
    <2>1. EnsureCapacity(b, n, x) = NewBuffer(Contents(b), c)
      <3> HIDE DEF k
      <3>1. EnsureCapacity(b, n, x) = NewBuffer(Contents(b),
              IF x THEN Larger(n, Capacity(b) + Capacity(b) \div 2) ELSE n)
        BY <2>0 DEF EnsureCapacity
      <3> QED BY <2>0, <3>1
    <2>2. Contents(b) = v
      BY KeptContents
    <2>3. k + k \div 2 \in Nat
      <3> HIDE DEF k
      <3> QED BY <1>1
    <2>4. c \in Nat /\ c >= n
      <3> DEFINE y == k + k \div 2
      <3>1. y \in Nat
        BY <2>3
      <3> HIDE DEF k, y
      <3>2. Larger(n, y) \in Nat /\ Larger(n, y) >= n
        BY <3>1, LargerIs
      <3>3. c = IF x THEN Larger(n, y) ELSE n
        BY DEF y
      <3> HIDE DEF c
      <3> QED BY <3>2, <3>3
    <2> HIDE DEF c
    <2>5. /\ Keeps(NewBuffer(v, c), v) /\ Clean(NewBuffer(v, c))
          /\ Len(NewBuffer(v, c).cells) >= c
      BY <2>4, NewKeeps
    <2>6. Len(NewBuffer(v, c).cells) \in Nat
      BY <2>5, MemoryIs DEF Keeps
    <2>7. Len(NewBuffer(v, c).cells) >= n
      BY <2>4, <2>5, <2>6
    <2> QED BY <1>1, <1>3, <2>1, <2>2, <2>5, <2>7
  <1> QED BY <1>1, <1>2, <1>3

(* memcpy. *)
LEMMA OverwriteIs ==
  ASSUME NEW b \in Memory, NEW p \in Nat, NEW d \in Seq(Int)
  PROVE  /\ Overwrite(b, p, d) \in Memory
         /\ Overwrite(b, p, d).size = b.size
         /\ Len(Overwrite(b, p, d).cells) = Len(b.cells)
         /\ \A i \in 1 .. Len(b.cells) :
              /\ i > p /\ i <= p + Len(d) => Overwrite(b, p, d).cells[i] = d[i - p]
              /\ ~ (i > p /\ i <= p + Len(d)) => Overwrite(b, p, d).cells[i] = b.cells[i]
  <1> DEFINE n == Len(b.cells)
             f == [i \in 1 .. n |-> IF i > p /\ i <= p + Len(d) THEN d[i - p] ELSE b.cells[i]]
             r == Overwrite(b, p, d)
  <1>1. n \in Nat /\ b.cells \in Seq(Int) /\ DOMAIN b.cells = 1 .. n
    BY MemoryIs
  <1>2. \A i \in 1 .. n : (IF i > p /\ i <= p + Len(d) THEN d[i - p] ELSE b.cells[i]) \in Int
    <2> SUFFICES ASSUME NEW i \in 1 .. n
                 PROVE  (IF i > p /\ i <= p + Len(d) THEN d[i - p] ELSE b.cells[i]) \in Int
      OBVIOUS
    <2>1. b.cells[i] \in Int
      BY <1>1
    <2>2. i > p /\ i <= p + Len(d) => i - p \in 1 .. Len(d)
      BY <1>1
    <2>3. i > p /\ i <= p + Len(d) => d[i - p] \in Int
      BY <2>2
    <2> QED BY <2>1, <2>3
  <1>3. f \in [1 .. n -> Int]
    BY <1>2
  <1>4. f \in Seq(Int) /\ Len(f) = n
    BY <1>1, <1>3
  <1>5. r = [b EXCEPT !.cells = f]
    BY <1>1 DEF Overwrite, Memory
  <1>6. r \in Memory /\ r.size = b.size /\ r.cells = f
    <2> HIDE DEF f, r, n
    <2> QED BY <1>4, <1>5, MemoryIs
  <1>7. \A i \in 1 .. n : f[i] = IF i > p /\ i <= p + Len(d) THEN d[i - p] ELSE b.cells[i]
    OBVIOUS
  <1> HIDE DEF f, r
  <1> QED BY <1>4, <1>6, <1>7 DEF r

(* d behind the elements v, in the memory of e. *)
Appended(r, v, d, e) ==
  /\ r \in Memory
  /\ r.size = Len(v) + Len(d)
  /\ Len(r.cells) = Len(e.cells) /\ Len(e.cells) >= Len(v) + Len(d)
  /\ \A i \in 1 .. Len(e.cells) :
       /\ i > Len(v) /\ i <= Len(v) + Len(d) => r.cells[i] = d[i - Len(v)]
       /\ ~ (i > Len(v) /\ i <= Len(v) + Len(d)) => r.cells[i] = e.cells[i]

LEMMA AppendIs ==
  ASSUME NEW b, NEW v \in Seq(Int), Keeps(b, v), NEW d \in Seq(Int)
  PROVE  Appended(AppendData(b, d), v, d, EnsureCapacity(b, b.size + Len(d), TRUE))
  <1> DEFINE e == EnsureCapacity(b, b.size + Len(d), TRUE)
             s == Len(v)
             n == Len(d)
             o == Overwrite(e, s, d)
             r == AppendData(b, d)
  <1>1. s \in Nat /\ n \in Nat /\ b.size = s
    BY DEF Keeps
  <1>2. Keeps(e, v) /\ Len(e.cells) >= s + n
    <2> DEFINE m == b.size + Len(d)
    <2>1. m \in Nat /\ m = s + n /\ e = EnsureCapacity(b, m, TRUE)
      BY <1>1
    <2> HIDE DEF s, n, m, e
    <2>2. Keeps(EnsureCapacity(b, m, TRUE), v) /\ Len(EnsureCapacity(b, m, TRUE).cells) >= m
      BY <2>1, EnsureKeeps
    <2> QED BY <2>1, <2>2
  <1> HIDE DEF e
  <1>3. e \in Memory
    BY <1>2 DEF Keeps
  <1>4. /\ o \in Memory /\ Len(o.cells) = Len(e.cells)
        /\ \A i \in 1 .. Len(e.cells) :
             /\ i > s /\ i <= s + n => o.cells[i] = d[i - s]
             /\ ~ (i > s /\ i <= s + n) => o.cells[i] = e.cells[i]
    BY <1>1, <1>3, OverwriteIs
  <1>5. r = [o EXCEPT !.size = s + n]
    BY <1>1 DEF AppendData, e
  <1> HIDE DEF o, r, s, n
  <1>6. r \in Memory /\ r.size = s + n /\ r.cells = o.cells
    <2>1. s + n \in Nat
      BY <1>1
    <2> QED BY <1>4, <1>5, <2>1, MemoryIs
  <1> QED BY <1>2, <1>4, <1>6 DEF r, s, n, e, Appended

LEMMA AppendKeeps ==
  ASSUME NEW b, NEW v \in Seq(Int), Keeps(b, v), NEW d \in Seq(Int)
  PROVE  Keeps(AppendData(b, d), v \o d) /\ (Clean(b) => Clean(AppendData(b, d)))
  <1> DEFINE s == Len(v)
             n == Len(d)
             e == EnsureCapacity(b, b.size + Len(d), TRUE)
             r == AppendData(b, d)
             k == Len(e.cells)
             w == v \o d
  <1>1. s \in Nat /\ n \in Nat /\ b.size = s /\ b.size + Len(d) \in Nat
    BY DEF Keeps
  <1>2. Keeps(e, v) /\ (Clean(b) => Clean(e))
    BY <1>1, EnsureKeeps
  <1>3. k \in Nat
    BY <1>2, MemoryIs DEF Keeps
  <1>4. /\ r \in Memory /\ r.size = s + n /\ Len(r.cells) = k /\ k >= s + n
        /\ \A i \in 1 .. k :
             /\ i > s /\ i <= s + n => r.cells[i] = d[i - s]
             /\ ~ (i > s /\ i <= s + n) => r.cells[i] = e.cells[i]
    <2>1. Appended(r, v, d, e)
      BY AppendIs
    <2> HIDE DEF r, e
    <2> QED BY <2>1 DEF Appended
  <1>5. /\ w \in Seq(Int) /\ Len(w) = s + n
        /\ \A i \in 1 .. s : w[i] = v[i]
        /\ \A i \in s + 1 .. s + n : w[i] = d[i - s]
    BY Joined
  <1>6. e.size = s /\ \A i \in 1 .. s : e.cells[i] = v[i]
    BY <1>2 DEF Keeps
  <1> HIDE DEF s, n, e, r, k, w
  <1>7. \A i \in 1 .. s + n : r.cells[i] = w[i]
    <2> SUFFICES ASSUME NEW i \in 1 .. s + n
                 PROVE  r.cells[i] = w[i]
      OBVIOUS
    <2>1. i \in 1 .. k
      BY <1>1, <1>3, <1>4
    <2>2. CASE i <= s
      <3>1. i \in 1 .. s /\ ~ (i > s)
        BY <1>1, <2>2
      <3> QED BY <1>4, <1>5, <1>6, <2>1, <3>1
    <2>3. CASE i > s
      <3>1. i \in s + 1 .. s + n /\ i <= s + n
        BY <1>1, <2>3
      <3> QED BY <1>4, <1>5, <2>1, <2>3, <3>1
    <2> QED BY <1>1, <2>2, <2>3
  <1>8. Keeps(r, w)
    BY <1>4, <1>5, <1>7 DEF Keeps
  <1>9. ASSUME Clean(b)
        PROVE  Clean(r)
    <2> SUFFICES ASSUME NEW i \in s + n + 1 .. k
                 PROVE  r.cells[i] \notin Data
      BY <1>4 DEF Clean
    <2>1. i \in 1 .. k /\ i \in s + 1 .. k /\ ~ (i <= s + n)
      BY <1>1, <1>3
    <2>2. e.cells[i] \notin Data
      BY <1>2, <1>6, <1>9, <2>1 DEF Clean, k
    <2> QED BY <1>4, <2>1, <2>2
  <1> QED BY <1>8, <1>9 DEF r, w

(* A size is set: the elements that there were remain. *)
Resized(r, v, n) ==
  /\ r \in Memory /\ r.size = n /\ n <= Len(r.cells)
  /\ \A i \in 1 .. n : i <= Len(v) => r.cells[i] = v[i]

CleanFrom(r, k) == \A i \in k + 1 .. Len(r.cells) : r.cells[i] \notin Data

LEMMA SetSizeIs ==
  ASSUME NEW b, NEW v \in Seq(Int), Keeps(b, v), NEW n \in Nat, NEW zero \in BOOLEAN
  PROVE  /\ Resized(SetSize(b, n, zero), v, n)
         /\ Clean(b) /\ (zero \/ n >= Len(v)) => Clean(SetSize(b, n, zero))
         /\ Clean(b) /\ n >= Len(v) => CleanFrom(SetSize(b, n, zero), Len(v))
  <1> DEFINE s == Len(v)
             e == EnsureCapacity(b, n, TRUE)
             c == [e EXCEPT !.size = n]
             k == Len(e.cells)
             r == SetSize(b, n, zero)
  <1>1. s \in Nat /\ b.size = s
    BY DEF Keeps
  <1>2. Keeps(e, v) /\ (Clean(b) => Clean(e)) /\ k >= n
    BY EnsureKeeps
  <1>3. /\ e \in Memory /\ k \in Nat /\ e.size = s /\ s <= k
        /\ \A i \in 1 .. s : e.cells[i] = v[i]
    BY <1>2, MemoryIs DEF Keeps
  <1>4. c \in Memory /\ c.size = n /\ c.cells = e.cells
    BY <1>3, MemoryIs
  <1>5. r = IF zero /\ n < s THEN ZeroTrailing(c, s - n) ELSE c
    BY <1>1 DEF SetSize
  <1>6. Clean(b) => \A i \in s + 1 .. k : e.cells[i] \notin Data
    BY <1>2, <1>3 DEF Clean
  <1> HIDE DEF s, e, c, k, r
  <1>7. CASE ~ (zero /\ n < s)
    <2>1. r = c
      BY <1>5, <1>7
    <2>2. Resized(r, v, n)
      <3> SUFFICES ASSUME NEW i \in 1 .. n, i <= s
                   PROVE  e.cells[i] = v[i]
        BY <1>2, <1>4, <2>1 DEF Resized, s, k
      <3> QED BY <1>1, <1>3
    <2>3. Clean(b) => CleanFrom(r, s)
      BY <1>4, <1>6, <2>1 DEF CleanFrom, k
    <2>4. Clean(b) /\ n >= s => Clean(r)
      <3> SUFFICES ASSUME Clean(b), n >= s, NEW i \in n + 1 .. k
                   PROVE  e.cells[i] \notin Data
        BY <1>4, <2>1 DEF Clean, k
      <3>1. i \in s + 1 .. k
        BY <1>1, <1>3
      <3> QED BY <1>6, <3>1
    <2>5. zero => n >= s
      BY <1>1, <1>7
    <2> QED BY <2>2, <2>3, <2>4, <2>5 DEF r, s
  <1>8. CASE zero /\ n < s
    <2> DEFINE m == s - n
               f == Fill(m, Zero)
    <2>1. m \in Nat /\ n + m = s
      BY <1>1, <1>8
    <2> HIDE DEF m
    <2>2. f \in Seq(Int) /\ Len(f) = m /\ \A i \in 1 .. m : f[i] = Zero
      BY <2>1, NotData, Filled
    <2>3. r = Overwrite(c, n, f)
      BY <1>4, <1>5, <1>8 DEF ZeroTrailing, m
    <2> HIDE DEF f
    <2>4. /\ r \in Memory /\ r.size = n /\ Len(r.cells) = k
          /\ \A i \in 1 .. k :
               /\ i > n /\ i <= n + m => r.cells[i] = f[i - n]
               /\ ~ (i > n /\ i <= n + m) => r.cells[i] = e.cells[i]
      <3>1. /\ r \in Memory /\ r.size = c.size /\ Len(r.cells) = Len(c.cells)
            /\ \A i \in 1 .. Len(c.cells) :
                 /\ i > n /\ i <= n + Len(f) => r.cells[i] = f[i - n]
                 /\ ~ (i > n /\ i <= n + Len(f)) => r.cells[i] = c.cells[i]
        BY <1>4, <2>2, <2>3, OverwriteIs
      <3>2. Len(c.cells) = k /\ Len(f) = m /\ c.size = n /\ c.cells = e.cells
        BY <1>4, <2>2 DEF k
      <3> QED BY <3>1, <3>2
    <2>5. Resized(r, v, n)
      <3> SUFFICES ASSUME NEW i \in 1 .. n, i <= s
                   PROVE  r.cells[i] = v[i]
        BY <1>2, <2>4 DEF Resized, s
      <3>1. i \in 1 .. k /\ i \in 1 .. s /\ ~ (i > n)
        BY <1>1, <1>2, <1>3
      <3> QED BY <1>3, <2>4, <3>1
    <2>6. Clean(b) => Clean(r)
      <3> SUFFICES ASSUME Clean(b), NEW i \in n + 1 .. k
                   PROVE  r.cells[i] \notin Data
        BY <2>4 DEF Clean
      <3>1. i \in 1 .. k /\ i > n
        BY <1>3
      <3>2. CASE i <= s
        <4>1. i - n \in 1 .. m /\ i <= n + m
          BY <1>1, <2>1, <3>1, <3>2
        <4> QED BY <2>2, <2>4, <3>1, <4>1, NotData
      <3>3. CASE i > s
        <4>1. i \in s + 1 .. k /\ ~ (i <= n + m)
          BY <1>1, <1>3, <2>1, <3>1, <3>3
        <4> QED BY <1>6, <2>4, <3>1, <4>1
      <3> QED BY <1>1, <1>3, <3>2, <3>3
    <2>7. ~ (n >= s)
      BY <1>1, <1>8
    <2> QED BY <2>5, <2>6, <2>7 DEF r, s
  <1> QED BY <1>7, <1>8

LEMMA NothingJoined ==
  ASSUME NEW d \in Seq(Int)
  PROVE  << >> \o d = d /\ << >> \in Seq(Int) /\ Len(<< >>) = 0
  OBVIOUS

(* What is behind the first n elements is overwritten up to size s. *)
LEMMA ZeroTrailingKeeps ==
  ASSUME NEW c, NEW d \in Seq(Int), Keeps(c, d), NEW s \in Nat, s > Len(d)
  PROVE  /\ Keeps(ZeroTrailing(c, s - Len(d)), d)
         /\ CleanFrom(c, s) => Clean(ZeroTrailing(c, s - Len(d)))
  <1> DEFINE n == Len(d)
             m == s - n
             f == Fill(m, Zero)
             r == ZeroTrailing(c, m)
             k == Len(c.cells)
  <1>1. /\ n \in Nat /\ m \in Nat /\ n + m = s /\ c \in Memory /\ k \in Nat /\ c.size = n /\ n <= k
        /\ \A i \in 1 .. n : c.cells[i] = d[i]
    BY MemoryIs DEF Keeps
  <1> HIDE DEF m
  <1>2. f \in Seq(Int) /\ Len(f) = m /\ \A i \in 1 .. m : f[i] = Zero
    BY <1>1, NotData, Filled
  <1>3. r = Overwrite(c, n, f)
    BY <1>1 DEF ZeroTrailing
  <1> HIDE DEF n, f, r, k
  <1>4. /\ r \in Memory /\ r.size = n /\ Len(r.cells) = k
        /\ \A i \in 1 .. k :
             /\ i > n /\ i <= n + Len(f) => r.cells[i] = f[i - n]
             /\ ~ (i > n /\ i <= n + Len(f)) => r.cells[i] = c.cells[i]
    <2>1. /\ r \in Memory /\ r.size = c.size /\ Len(r.cells) = Len(c.cells)
          /\ \A i \in 1 .. Len(c.cells) :
               /\ i > n /\ i <= n + Len(f) => r.cells[i] = f[i - n]
               /\ ~ (i > n /\ i <= n + Len(f)) => r.cells[i] = c.cells[i]
      <3>1. c \in Memory /\ n \in Nat /\ f \in Seq(Int)
        BY <1>1, <1>2
      <3> QED BY <1>3, <3>1, OverwriteIs
    <2> QED BY <1>1, <2>1 DEF k
  <1>5. Keeps(r, d)
    <2> SUFFICES ASSUME NEW i \in 1 .. n
                 PROVE  r.cells[i] = d[i]
      BY <1>1, <1>4 DEF Keeps, n
    <2>1. i \in 1 .. k /\ ~ (i > n)
      BY <1>1
    <2> QED BY <1>1, <1>4, <2>1
  <1>6. CleanFrom(c, s) => Clean(r)
    <2> SUFFICES ASSUME CleanFrom(c, s), NEW i \in n + 1 .. k
                 PROVE  r.cells[i] \notin Data
      BY <1>4 DEF Clean
    <2>1. i \in 1 .. k /\ i > n
      BY <1>1
    <2>2. CASE i <= s
      <3>1. i - n \in 1 .. m /\ i <= n + m
        BY <1>1, <2>1, <2>2
      <3> QED BY <1>2, <1>4, <2>1, <3>1, NotData
    <2>3. CASE i > s
      <3>1. i \in s + 1 .. k /\ ~ (i <= n + m)
        BY <1>1, <2>1, <2>3
      <3>2. c.cells[i] \notin Data
        BY <3>1 DEF CleanFrom, k
      <3> QED BY <1>2, <1>4, <2>1, <3>1, <3>2
    <2> QED BY <2>1, <2>2, <2>3
  <1> QED BY <1>5, <1>6 DEF r, m, n

LEMMA SetDataKeeps ==
  ASSUME NEW b, NEW v \in Seq(Int), Keeps(b, v), NEW d \in Seq(Int), NEW zero \in BOOLEAN
  PROVE  Keeps(SetData(b, d, zero), d) /\ (Clean(b) /\ zero => Clean(SetData(b, d, zero)))
  <1> DEFINE b0 == [b EXCEPT !.size = 0]
             e == EnsureCapacity(b0, b0.size + Len(d), TRUE)
             c == AppendData(b0, d)
             n == Len(d)
             s == Len(v)
             k == Len(e.cells)
             r == SetData(b, d, zero)
  <1>1. n \in Nat /\ s \in Nat /\ b \in Memory /\ b.size = s /\ s <= Len(b.cells)
    BY DEF Keeps
  <1>2. b0 \in Memory /\ b0.size = 0 /\ b0.cells = b.cells /\ Len(b.cells) \in Nat
    <2>1. /\ Len(b.cells) \in Nat
          /\ \A m \in Nat : [b EXCEPT !.size = m] \in Memory /\ [b EXCEPT !.size = m].size = m
                            /\ [b EXCEPT !.size = m].cells = b.cells
      BY ONLY <1>1, MemoryIs
    <2>2. 0 \in Nat
      OBVIOUS
    <2> QED BY <2>1, <2>2
  <1>3. Keeps(b0, << >>)
    BY <1>2, NothingJoined DEF Keeps
  <1>4. Keeps(c, d)
    <2> HIDE DEF b0
    <2>1. Keeps(c, << >> \o d)
      BY <1>3, NothingJoined, AppendKeeps
    <2> QED BY <2>1, NothingJoined
  <1>5. Appended(c, << >>, d, e)
    <2> HIDE DEF b0
    <2> QED BY <1>3, NothingJoined, AppendIs
  <1>6. r = IF zero /\ c.size < b.size THEN ZeroTrailing(c, b.size - c.size) ELSE c
    BY DEF SetData
  <1>7. c.size = n
    BY <1>4 DEF Keeps
  <1>8. ASSUME Clean(b)
        PROVE  \A i \in 1 .. k : i > n /\ i > s => c.cells[i] \notin Data
    <2> SUFFICES ASSUME NEW i \in 1 .. k, i > n, i > s
                 PROVE  c.cells[i] \notin Data
      OBVIOUS
    <2> HIDE DEF b0
    <2>1. b0.size + Len(d) \in Nat /\ b0.size + Len(d) = n
      BY <1>1, <1>2
    <2>2. /\ n <= Len(b0.cells) => e = b0
          /\ n > Len(b0.cells) => Clean(e)
          /\ Keeps(e, << >>)
      <3> DEFINE m == b0.size + Len(d)
      <3> HIDE DEF m
      <3>1. /\ m <= Len(b0.cells) => EnsureCapacity(b0, m, TRUE) = b0
            /\ m > Len(b0.cells) => Clean(EnsureCapacity(b0, m, TRUE))
            /\ Keeps(EnsureCapacity(b0, m, TRUE), << >>)
        BY <1>3, <2>1, NothingJoined, EnsureKeeps DEF m
      <3> QED BY <2>1, <3>1 DEF m
    <2> HIDE DEF e, c, k
    <2>3. c.cells[i] = e.cells[i]
      <3>1. ~ (i <= Len(<< >>) + n)
        BY <1>1, NothingJoined
      <3> QED BY <1>5, <3>1 DEF Appended, k
    <2>4. CASE n <= Len(b0.cells)
      <3>1. e.cells = b.cells /\ k = Len(b.cells)
        BY <1>2, <2>2, <2>4 DEF k
      <3>2. i \in s + 1 .. Len(b.cells)
        BY <1>1, <1>2, <3>1
      <3> QED BY <1>1, <1>8, <2>3, <3>1, <3>2 DEF Clean
    <2>5. CASE n > Len(b0.cells)
      <3>1. e.size = 0
        BY <2>2, NothingJoined DEF Keeps
      <3>2. i \in 0 + 1 .. k
        OBVIOUS
      <3> QED BY <2>2, <2>3, <2>5, <3>1, <3>2 DEF Clean, k
    <2> QED BY <1>1, <1>2, <2>4, <2>5
  <1>9. Len(c.cells) = k /\ k \in Nat
    <2>1. Len(c.cells) = k
      <3> HIDE DEF e, c
      <3> QED BY <1>5 DEF Appended
    <2>2. Len(c.cells) \in Nat
      <3> HIDE DEF c
      <3> QED BY <1>4, MemoryIs DEF Keeps
    <2> QED BY <2>1, <2>2
  <1> HIDE DEF b0, e, c, k, n, s, r
  <1>10. CASE zero /\ n < s
    <2>1. r = ZeroTrailing(c, s - n)
      BY <1>1, <1>6, <1>7, <1>10
    <2>2. Keeps(r, d) /\ (CleanFrom(c, s) => Clean(r))
      BY <1>1, <1>4, <1>10, <2>1, ZeroTrailingKeeps DEF n
    <2>3. ASSUME Clean(b)
          PROVE  CleanFrom(c, s)
      <3> SUFFICES ASSUME NEW i \in s + 1 .. k
                   PROVE  c.cells[i] \notin Data
        BY <1>9 DEF CleanFrom
      <3>1. i \in 1 .. k /\ i > n /\ i > s
        BY <1>1, <1>9, <1>10
      <3> QED BY <1>8, <2>3, <3>1
    <2> QED BY <2>2, <2>3 DEF r
  <1>11. CASE ~ (zero /\ n < s)
    <2>1. r = c
      BY <1>1, <1>6, <1>7, <1>11
    <2>2. ASSUME Clean(b), zero
          PROVE  Clean(c)
      <3> SUFFICES ASSUME NEW i \in n + 1 .. k
                   PROVE  c.cells[i] \notin Data
        BY <1>7, <1>9 DEF Clean
      <3>1. i \in 1 .. k /\ i > n /\ i > s
        BY <1>1, <1>9, <1>11, <2>2
      <3> QED BY <1>8, <2>2, <3>1
    <2> QED BY <1>4, <2>1, <2>2 DEF r
  <1> QED BY <1>10, <1>11

LEMMA ClearKeeps ==
  ASSUME NEW b \in Memory, NEW zero \in BOOLEAN
  PROVE  Keeps(Clear(b, zero), << >>) /\ (zero => Clean(Clear(b, zero)))
  <1> DEFINE k == Len(b.cells)
             r == Clear(b, zero)
             f == Fill(k, Zero)
  <1>1. k \in Nat /\ b.cells \in Seq(Int)
    BY MemoryIs
  <1>2. f \in Seq(Int) /\ Len(f) = k /\ \A i \in 1 .. k : f[i] = Zero
    BY <1>1, NotData, Filled
  <1>3. r = [size |-> 0, cells |-> IF zero THEN f ELSE b.cells]
    BY DEF Clear, Capacity
  <1> HIDE DEF f, r
  <1>4. r.size = 0 /\ r.cells = (IF zero THEN f ELSE b.cells)
    BY <1>3
  <1>5. r \in Memory
    BY <1>1, <1>2, <1>3, MadeMemory
  <1>6. Keeps(r, << >>)
    <2>1. Len(r.cells) \in Nat
      BY <1>5, MemoryIs
    <2> QED BY <1>4, <1>5, <2>1, NothingJoined DEF Keeps
  <1>7. zero => Clean(r)
    <2> SUFFICES ASSUME zero, NEW i \in 0 + 1 .. k
                 PROVE  r.cells[i] \notin Data
      BY <1>2, <1>4 DEF Clean
    <2>1. i \in 1 .. k
      OBVIOUS
    <2> QED BY <1>2, <1>4, <2>1, NotData
  <1> QED BY <1>6, <1>7 DEF r

(* Memory that is given back holds nothing. *)
LEMMA ReleasedIsZero ==
  ASSUME NEW b \in Memory
  PROVE  Released(b) \subseteq {Zero}
  <1> DEFINE k == Len(b.cells)
  <1>1. k \in Nat /\ DOMAIN b.cells = 1 .. k
    BY MemoryIs
  <1>2. Clear(b, TRUE).cells = Fill(k, Zero)
    BY DEF Clear, Capacity
  <1>3. \A i \in 1 .. k : Fill(k, Zero)[i] = Zero
    BY <1>1, NotData, Filled
  <1> QED BY <1>1, <1>2, <1>3 DEF Released

LEMMA WithSetterKeeps ==
  ASSUME NEW b, NEW v \in Seq(Int), Keeps(b, v), Clean(b), NEW d \in Seq(Int), NEW max \in Nat, max >= Len(d)
  PROVE  Keeps(WithSetter(b, max, d), v \o d) /\ Clean(WithSetter(b, max, d))
  <1> DEFINE s == Len(v)
             n == Len(d)
             q == b.size + max
             e == SetSize(b, q, TRUE)
             k == Len(e.cells)
             o == Overwrite(e, s, d)
             r == WithSetter(b, max, d)
             w == v \o d
  <1>1. s \in Nat /\ n \in Nat /\ b.size = s /\ q \in Nat /\ q >= s + n /\ q >= s
    BY DEF Keeps
  <1>2. Resized(e, v, q) /\ CleanFrom(e, s)
    <2> HIDE DEF q
    <2> QED BY <1>1, SetSizeIs
  <1> HIDE DEF e
  <1>3. /\ e \in Memory /\ k \in Nat /\ k >= s + n
        /\ \A i \in 1 .. s : e.cells[i] = v[i]
    <2> HIDE DEF q
    <2>1. e \in Memory /\ e.size = q /\ q <= k /\ \A i \in 1 .. q : i <= s => e.cells[i] = v[i]
      BY <1>2 DEF Resized
    <2>2. k \in Nat
      BY <2>1, MemoryIs
    <2>3. \A i \in 1 .. s : i \in 1 .. q /\ i <= s
      BY <1>1
    <2> QED BY <1>1, <2>1, <2>2, <2>3
  <1>4. /\ o \in Memory /\ Len(o.cells) = k
        /\ \A i \in 1 .. k :
             /\ i > s /\ i <= s + n => o.cells[i] = d[i - s]
             /\ ~ (i > s /\ i <= s + n) => o.cells[i] = e.cells[i]
    BY <1>1, <1>3, OverwriteIs
  <1>5. r = [o EXCEPT !.size = s + n]
    BY <1>1 DEF WithSetter, e
  <1>6. /\ w \in Seq(Int) /\ Len(w) = s + n
        /\ \A i \in 1 .. s : w[i] = v[i]
        /\ \A i \in s + 1 .. s + n : w[i] = d[i - s]
    BY Joined
  <1> HIDE DEF o, r, s, n, q, k, w
  <1>7. r \in Memory /\ r.size = s + n /\ r.cells = o.cells
    <2>1. s + n \in Nat
      BY <1>1
    <2> QED BY <1>4, <1>5, <2>1, MemoryIs
  <1>8. \A i \in 1 .. s + n : r.cells[i] = w[i]
    <2> SUFFICES ASSUME NEW i \in 1 .. s + n
                 PROVE  r.cells[i] = w[i]
      OBVIOUS
    <2>1. i \in 1 .. k
      BY <1>1, <1>3
    <2>2. CASE i <= s
      <3>1. i \in 1 .. s /\ ~ (i > s)
        BY <1>1, <2>2
      <3> QED BY <1>3, <1>4, <1>6, <1>7, <2>1, <3>1
    <2>3. CASE i > s
      <3>1. i \in s + 1 .. s + n /\ i <= s + n
        BY <1>1, <2>3
      <3> QED BY <1>4, <1>6, <1>7, <2>1, <2>3, <3>1
    <2> QED BY <1>1, <2>2, <2>3
  <1>9. Keeps(r, w)
    BY <1>3, <1>4, <1>6, <1>7, <1>8 DEF Keeps
  <1>10. Clean(r)
    <2> SUFFICES ASSUME NEW i \in s + n + 1 .. k
                 PROVE  r.cells[i] \notin Data
      BY <1>4, <1>7 DEF Clean
    <2>1. i \in 1 .. k /\ i \in s + 1 .. k /\ ~ (i <= s + n)
      BY <1>1, <1>3
    <2>2. e.cells[i] \notin Data
      BY <1>2, <2>1 DEF CleanFrom, k
    <2> QED BY <1>4, <1>7, <2>1, <2>2
  <1> QED BY <1>9, <1>10 DEF r, w

(* A buffer that was given another size keeps what it had of its elements, and
   has anything behind them. *)
LEMMA ResizedKeeps ==
  ASSUME NEW r, NEW u \in Seq(Int), NEW n \in Nat, Resized(r, u, n), Len(u) <= n
  PROVE  /\ u \o SubSeq(Contents(r), Len(u) + 1, n) \in Seq(Int)
         /\ Keeps(r, u \o SubSeq(Contents(r), Len(u) + 1, n))
  <1> DEFINE p == Len(u)
             c == Contents(r)
             t == SubSeq(c, p + 1, n)
             w == u \o t
  <1>1. r \in Memory /\ r.size = n /\ n <= Len(r.cells) /\ p \in Nat /\ p <= n
        /\ \A i \in 1 .. n : i <= p => r.cells[i] = u[i]
    BY DEF Resized
  <1>2. r.cells \in Seq(Int) /\ Len(r.cells) \in Nat
    BY <1>1, MemoryIs
  <1>3. c \in Seq(Int) /\ Len(c) = n /\ \A i \in 1 .. n : c[i] = r.cells[i]
    BY <1>1, <1>2, Cut DEF Contents
  <1> HIDE DEF c, p
  <1>4. t \in Seq(Int) /\ Len(t) = n - p /\ \A i \in 1 .. n - p : t[i] = c[p + i]
    BY <1>1, <1>3
  <1> HIDE DEF t
  <1>5. /\ w \in Seq(Int) /\ Len(w) = p + (n - p)
        /\ \A i \in 1 .. p : w[i] = u[i]
        /\ \A i \in p + 1 .. p + (n - p) : w[i] = t[i - p]
    BY <1>4, Joined DEF p
  <1> HIDE DEF w
  <1>6. Len(w) = n
    BY <1>1, <1>5
  <1>7. \A i \in 1 .. n : r.cells[i] = w[i]
    <2> SUFFICES ASSUME NEW i \in 1 .. n
                 PROVE  r.cells[i] = w[i]
      OBVIOUS
    <2>1. CASE i <= p
      <3>1. i \in 1 .. p
        BY <2>1
      <3> QED BY <1>1, <1>5, <2>1, <3>1
    <2>2. CASE i > p
      <3>1. i \in p + 1 .. p + (n - p) /\ i - p \in 1 .. n - p /\ p + (i - p) = i
        BY <1>1, <2>2
      <3>2. w[i] = t[i - p] /\ t[i - p] = c[i]
        BY <1>4, <1>5, <3>1
      <3> QED BY <1>3, <3>2
    <2> QED BY <1>1, <2>1, <2>2
  <1>8. Keeps(r, w)
    BY <1>1, <1>6, <1>7 DEF Keeps
  <1> QED BY <1>5, <1>8 DEF w, t, c, p

LEMMA ResizedPrefix ==
  ASSUME NEW r, NEW v \in Seq(Int), NEW n \in Nat, Resized(r, v, n)
  PROVE  Resized(r, SubSeq(v, 1, Smaller(n, Len(v))), n)
  <1> DEFINE p == Smaller(n, Len(v))
             u == SubSeq(v, 1, p)
  <1>1. p \in Nat /\ p <= n /\ p <= Len(v) /\ Len(v) \in Nat
    BY LargerIs
  <1> HIDE DEF p
  <1>2. Len(u) = p /\ \A i \in 1 .. p : u[i] = v[i]
    BY <1>1, Cut
  <1> HIDE DEF u
  <1>3. \A i \in 1 .. n : i <= p => r.cells[i] = u[i]
    <2> SUFFICES ASSUME NEW i \in 1 .. n, i <= p
                 PROVE  r.cells[i] = u[i]
      OBVIOUS
    <2>1. i \in 1 .. p /\ i <= Len(v)
      BY <1>1
    <2> QED BY <1>2, <2>1 DEF Resized
  <1>4. Resized(r, u, n)
    BY <1>2, <1>3 DEF Resized
  <1> QED BY <1>4 DEF u, p

LEMMA PiecesTyped ==
  ASSUME NEW d \in Pieces
  PROVE  d \in Seq(Int)
  <1>1. \A x \in Data : x \in Int
    BY NotData
  <1>2. \A x, y \in Int : <<x>> \in Seq(Int) /\ <<x, y>> \in Seq(Int)
    OBVIOUS
  <1>3. CASE \E x \in Data : d = <<x>>
    BY <1>1, <1>2, <1>3
  <1>4. CASE \E x, y \in Data : d = <<x, y>>
    <2>1. PICK x \in Data, y \in Data : d = <<x, y>>
      BY <1>4
    <2> QED BY <1>1, <1>2, <2>1
  <1> QED BY <1>3, <1>4 DEF Pieces

-----------------------------------------------------------------------------
ZbufInv ==
  /\ DOMAIN zbuf = Zs /\ DOMAIN zval = Zs
  /\ \A z \in Zs : zval[z] \in Seq(Int) /\ Keeps(zbuf[z], zval[z]) /\ Clean(zbuf[z])
  /\ freed \subseteq {Zero}

LEMMA ZbufStarts ==
  ASSUME ZbufInit
  PROVE  ZbufInv
  <1>1. << >> \in Seq(Int)
    OBVIOUS
  <1> QED BY <1>1, EmptyKeeps DEF ZbufInit, ZbufInv

LEMMA StoreKeeps ==
  ASSUME ZbufInv, NEW z \in Zs, NEW b, NEW v \in Seq(Int), Keeps(b, v), Clean(b), Store(z, b, v)
  PROVE  ZbufInv'
  <1>1. zbuf' = [zbuf EXCEPT ![z] = b] /\ zval' = [zval EXCEPT ![z] = v]
    BY DEF Store
  <1>2. zbuf[z] \in Memory
    BY DEF ZbufInv, Keeps
  <1>3. freed' \subseteq {Zero}
    BY <1>2, ReleasedIsZero DEF Store, ZbufInv
  <1> QED BY <1>1, <1>3 DEF ZbufInv

LEMMA ZAppendKeeps ==
  ASSUME ZbufInv, NEW z \in Zs, NEW data \in Pieces, NEW spare \in 0 .. 1, ZAppend(z, data, spare)
  PROVE  ZbufInv'
  <1>1. data \in Seq(Int) /\ zval[z] \in Seq(Int) /\ Keeps(zbuf[z], zval[z]) /\ Clean(zbuf[z])
    BY PiecesTyped DEF ZbufInv
  <1>2. zval[z] \o data \in Seq(Int)
    BY <1>1, Joined
  <1>3. CASE spare = 0
    <2>1. Store(z, AppendData(zbuf[z], data), zval[z] \o data)
      BY <1>3 DEF ZAppend
    <2>2. Keeps(AppendData(zbuf[z], data), zval[z] \o data) /\ Clean(AppendData(zbuf[z], data))
      BY <1>1, AppendKeeps
    <2> QED BY <1>2, <2>1, <2>2, StoreKeeps
  <1>4. CASE spare # 0
    <2> DEFINE m == Len(data) + spare
    <2>1. Store(z, WithSetter(zbuf[z], m, data), zval[z] \o data)
      BY <1>4 DEF ZAppend
    <2>2. m \in Nat /\ m >= Len(data)
      BY <1>1
    <2> HIDE DEF m
    <2>3. Keeps(WithSetter(zbuf[z], m, data), zval[z] \o data) /\ Clean(WithSetter(zbuf[z], m, data))
      BY <1>1, <2>2, WithSetterKeeps
    <2> QED BY <1>2, <2>1, <2>3, StoreKeeps
  <1> QED BY <1>3, <1>4

LEMMA ZSetDataKeeps ==
  ASSUME ZbufInv, NEW z \in Zs, NEW data \in Pieces, ZSetData(z, data)
  PROVE  ZbufInv'
  <1>1. data \in Seq(Int) /\ zval[z] \in Seq(Int) /\ Keeps(zbuf[z], zval[z]) /\ Clean(zbuf[z])
    BY PiecesTyped DEF ZbufInv
  <1>2. Keeps(SetData(zbuf[z], data, TRUE), data) /\ Clean(SetData(zbuf[z], data, TRUE))
    BY <1>1, SetDataKeeps
  <1> QED BY <1>1, <1>2, StoreKeeps DEF ZSetData

LEMMA ZSetSizeKeeps ==
  ASSUME ZbufInv, NEW z \in Zs, NEW n \in Nat, ZSetSize(z, n)
  PROVE  ZbufInv'
  <1> DEFINE b == SetSize(zbuf[z], n, TRUE)
             p == Smaller(n, zbuf[z].size)
             u == SubSeq(zval[z], 1, p)
             w == u \o SubSeq(Contents(b), p + 1, n)
  <1>1. zval[z] \in Seq(Int) /\ Keeps(zbuf[z], zval[z]) /\ Clean(zbuf[z])
    BY DEF ZbufInv
  <1>2. Resized(b, zval[z], n) /\ Clean(b)
    BY <1>1, SetSizeIs
  <1>3. Store(z, b, w)
    BY DEF ZSetSize
  <1>4. p = Smaller(n, Len(zval[z]))
    BY <1>1 DEF Keeps
  <1> HIDE DEF b
  <1>5. Resized(b, u, n)
    BY <1>1, <1>2, <1>4, ResizedPrefix
  <1>6. p \in Nat /\ p <= n /\ p <= Len(zval[z])
    <2>1. Len(zval[z]) \in Nat
      BY <1>1
    <2> QED BY <1>4, <2>1, LargerIs
  <1> HIDE DEF p
  <1>7. u \in Seq(Int) /\ Len(u) = p
    BY <1>1, <1>6, Cut
  <1> HIDE DEF u
  <1>8. w \in Seq(Int) /\ Keeps(b, w)
    BY <1>5, <1>6, <1>7, ResizedKeeps
  <1> HIDE DEF w
  <1> QED BY <1>2, <1>3, <1>8, StoreKeeps

LEMMA ZReserveKeeps ==
  ASSUME ZbufInv, NEW z \in Zs, NEW n \in Nat, ZReserve(z, n)
  PROVE  ZbufInv'
  <1>1. zval[z] \in Seq(Int) /\ Keeps(zbuf[z], zval[z]) /\ Clean(zbuf[z])
    BY DEF ZbufInv
  <1>2. Keeps(EnsureCapacity(zbuf[z], n, FALSE), zval[z]) /\ Clean(EnsureCapacity(zbuf[z], n, FALSE))
    BY <1>1, EnsureKeeps
  <1> QED BY <1>1, <1>2, StoreKeeps DEF ZReserve

LEMMA ZClearKeeps ==
  ASSUME ZbufInv, NEW z \in Zs, ZClear(z)
  PROVE  ZbufInv'
  <1>1. zbuf[z] \in Memory
    BY DEF ZbufInv, Keeps
  <1>2. Keeps(Clear(zbuf[z], TRUE), << >>) /\ Clean(Clear(zbuf[z], TRUE))
    <2>1. \A zero \in BOOLEAN : /\ Keeps(Clear(zbuf[z], zero), << >>)
                                /\ zero => Clean(Clear(zbuf[z], zero))
      BY <1>1, ClearKeeps
    <2> QED BY <2>1
  <1>3. << >> \in Seq(Int)
    OBVIOUS
  <1> QED BY <1>2, <1>3, StoreKeeps DEF ZClear

LEMMA ZMoveKeeps ==
  ASSUME ZbufInv, NEW z \in Zs, NEW from \in Zs, ZMove(z, from)
  PROVE  ZbufInv'
  <1>1. /\ z # from
        /\ zbuf' = [zbuf EXCEPT ![z] = zbuf[from], ![from] = EmptyBuffer]
        /\ zval' = [zval EXCEPT ![z] = zval[from], ![from] = << >>]
        /\ freed' = freed \union Released(zbuf[z])
    BY DEF ZMove
  <1>2. zbuf[z] \in Memory
    BY DEF ZbufInv, Keeps
  <1>3. freed' \subseteq {Zero}
    BY <1>1, <1>2, ReleasedIsZero DEF ZbufInv
  <1>4. << >> \in Seq(Int)
    OBVIOUS
  <1>5. DOMAIN zbuf' = Zs /\ DOMAIN zval' = Zs
    BY <1>1 DEF ZbufInv
  <1>6. \A y \in Zs : \/ y = from /\ zbuf'[y] = EmptyBuffer /\ zval'[y] = << >>
                      \/ \E x \in Zs : zbuf'[y] = zbuf[x] /\ zval'[y] = zval[x]
    BY <1>1 DEF ZbufInv
  <1>7. \A y \in Zs : zval'[y] \in Seq(Int) /\ Keeps(zbuf'[y], zval'[y]) /\ Clean(zbuf'[y])
    BY <1>4, <1>6, EmptyKeeps DEF ZbufInv
  <1> QED BY <1>3, <1>5, <1>7 DEF ZbufInv

LEMMA ZSwapKeeps ==
  ASSUME ZbufInv, ZSwap
  PROVE  ZbufInv'
  <1>1. \A z \in Zs : \E o \in Zs : o # z
    BY DEF Zs
  <1>2. \A z \in Zs : (CHOOSE o \in Zs : o # z) \in Zs
    BY <1>1
  <1>3. /\ DOMAIN zbuf' = Zs /\ DOMAIN zval' = Zs /\ UNCHANGED freed
        /\ \A z \in Zs : /\ zbuf'[z] = zbuf[CHOOSE o \in Zs : o # z]
                         /\ zval'[z] = zval[CHOOSE o \in Zs : o # z]
    BY DEF ZSwap
  <1> QED BY <1>2, <1>3 DEF ZbufInv

LEMMA ZbufSteps ==
  ASSUME ZbufInv, [ZbufNext]_zbufVars
  PROVE  ZbufInv'
  <1>1. ASSUME NEW z \in Zs, NEW data \in Pieces,
               ZSetData(z, data) \/ \E spare \in 0 .. 1 : ZAppend(z, data, spare)
        PROVE  ZbufInv'
    BY <1>1, ZSetDataKeeps, ZAppendKeeps
  <1>2. ASSUME NEW z \in Zs, NEW n \in 0 .. MaxCapacity, ZSetSize(z, n) \/ ZReserve(z, n)
        PROVE  ZbufInv'
    <2>1. n \in Nat
      BY <1>2, BufferAssumption
    <2> QED BY <1>2, <2>1, ZSetSizeKeeps, ZReserveKeeps
  <1>3. ASSUME NEW z \in Zs, ZClear(z) \/ \E from \in Zs : ZMove(z, from)
        PROVE  ZbufInv'
    BY <1>3, ZClearKeeps, ZMoveKeeps
  <1>4. CASE UNCHANGED zbufVars
    BY <1>4 DEF zbufVars, ZbufInv
  <1> QED BY <1>1, <1>2, <1>3, <1>4, ZSwapKeeps DEF ZbufNext

LEMMA NothingIsLeft ==
  ASSUME ZbufInv
  PROVE  NothingLeftBehind
  <1> SUFFICES ASSUME NEW z \in Zs
               PROVE  /\ zbuf[z].size <= Capacity(zbuf[z])
                      /\ \A i \in zbuf[z].size + 1 .. Capacity(zbuf[z]) : zbuf[z].cells[i] \notin Data
                      /\ Contents(zbuf[z]) = zval[z]
    BY DEF ZbufInv, NothingLeftBehind
  <1>1. zval[z] \in Seq(Int) /\ Keeps(zbuf[z], zval[z]) /\ Clean(zbuf[z])
    BY DEF ZbufInv
  <1>2. Contents(zbuf[z]) = zval[z]
    BY <1>1, KeptContents
  <1> QED BY <1>1, <1>2 DEF Keeps, Clean, Capacity

LEMMA NothingStaysBehind == ZbufSpec => []NothingLeftBehind
  <1>1. ZbufSpec => []ZbufInv
    BY ZbufStarts, ZbufSteps, PTL DEF ZbufSpec
  <1> QED BY <1>1, NothingIsLeft, PTL

(* The handles that share a block. *)
Users(bf, b) == { h \in Handles : bf[h] = b }

CountsUsers(bf, rf) == \A b \in Blocks : rf[b] = Cardinality(Users(bf, b))

Owns(p, hp, v) == v \in Seq(Int) /\ IF p = Null THEN v = << >> ELSE Keeps(hp[p], v)

CowInv ==
  /\ DOMAIN buffer = Handles /\ \A h \in Handles : buffer[h] \in Blocks \union {Null}
  /\ DOMAIN heap = Blocks /\ DOMAIN value = Handles
  /\ CountsUsers(buffer, refs)
  /\ \A h \in Handles : Owns(buffer[h], heap, value[h])

(* h shows v from now on, the others what they did. *)
Now(h, v) ==
  /\ DOMAIN value' = Handles /\ value'[h] = v
  /\ \A o \in Handles : o # h => value'[o] = value[o]

LEMMA BlocksAre ==
  /\ IsFiniteSet(Blocks) /\ IsFiniteSet(Handles) /\ Null \notin Blocks
  /\ Cardinality(Handles) \in Nat /\ Cardinality(Blocks) = Cardinality(Handles) + 1
  <1> DEFINE n == Cardinality(Handles)
  <1>1. IsFiniteSet(Handles) /\ n \in Nat
    BY CowAssumption, FS_CardinalityType
  <1> HIDE DEF n
  <1>2. IsFiniteSet(1 .. n + 1) /\ Cardinality(1 .. n + 1) = n + 1
    <2>1. 1 \in Int /\ n + 1 \in Int /\ ~ (1 > n + 1) /\ (n + 1) - 1 + 1 = n + 1
      BY <1>1
    <2>2. /\ IsFiniteSet(1 .. n + 1)
          /\ Cardinality(1 .. n + 1) = IF 1 > n + 1 THEN 0 ELSE (n + 1) - 1 + 1
      BY <2>1, FS_Interval
    <2> QED BY <2>1, <2>2
  <1>3. 0 \notin 1 .. n + 1
    OBVIOUS
  <1> QED BY <1>1, <1>2, <1>3 DEF Blocks, Null, n

LEMMA UsersAre ==
  ASSUME NEW bf, NEW b
  PROVE  IsFiniteSet(Users(bf, b)) /\ Cardinality(Users(bf, b)) \in Nat
  <1>1. Users(bf, b) \subseteq Handles
    BY DEF Users
  <1> QED BY <1>1, BlocksAre, FS_Subset, FS_CardinalityType

Moved(bf, h, p, b) ==
  Cardinality(Users([bf EXCEPT ![h] = p], b))
    = Cardinality(Users(bf, b)) + (IF b = p THEN 1 ELSE 0) - (IF b = bf[h] THEN 1 ELSE 0)

(* A handle refers to another block: the old one counts one less, the new one one more. *)
LEMMA UsersMove ==
  ASSUME NEW bf, DOMAIN bf = Handles, NEW h \in Handles, NEW p, NEW b
  PROVE  Moved(bf, h, p, b)
  <1> DEFINE U == Users(bf, b)
             V == Users([bf EXCEPT ![h] = p], b)
  <1>1. IsFiniteSet(U) /\ Cardinality(U) \in Nat
    BY UsersAre
  <1>2. (h \in U <=> bf[h] = b) /\ (h \in V <=> p = b) /\ \A o \in Handles : o # h => (o \in U <=> o \in V)
    BY DEF Users
  <1>3. U \subseteq Handles /\ V \subseteq Handles
    BY DEF Users
  <1> HIDE DEF U, V
  <1>4. /\ Cardinality(U \union {h}) = IF h \in U THEN Cardinality(U) ELSE Cardinality(U) + 1
        /\ Cardinality(U \ {h}) = IF h \in U THEN Cardinality(U) - 1 ELSE Cardinality(U)
    BY <1>1, FS_AddElement, FS_RemoveElement
  <1>5. p = b => V = U \union {h}
    BY <1>2, <1>3
  <1>6. p # b => V = U \ {h}
    BY <1>2, <1>3
  <1> DEFINE c == Cardinality(U)
             d == Cardinality(V)
             old == bf[h]
  <1>7. /\ p = b => d = IF old = b THEN c ELSE c + 1
        /\ p # b => d = IF old = b THEN c - 1 ELSE c
    BY <1>2, <1>4, <1>5, <1>6
  <1>8. c \in Nat
    BY <1>1
  <1> HIDE DEF c, d, old
  <1>9. d = c + (IF b = p THEN 1 ELSE 0) - (IF b = old THEN 1 ELSE 0)
    <2>1. CASE b = p
      BY <1>7, <1>8, <2>1
    <2>2. CASE b # p
      BY <1>7, <1>8, <2>2
    <2> QED BY <2>1, <2>2
  <1> QED BY <1>9 DEF c, d, old, U, V, Moved

LEMMA RepointCounts ==
  ASSUME CowInv, NEW h \in Handles, NEW p, Repoint(h, p)
  PROVE  CountsUsers(buffer', refs')
  <1> SUFFICES ASSUME NEW b \in Blocks
               PROVE  refs'[b] = Cardinality(Users(buffer', b))
    BY DEF CountsUsers
  <1>1. /\ buffer' = [buffer EXCEPT ![h] = p]
        /\ refs'[b] = refs[b] + (IF b = p THEN 1 ELSE 0) - (IF b = buffer[h] THEN 1 ELSE 0)
    BY DEF Repoint
  <1>2. refs[b] = Cardinality(Users(buffer, b)) /\ DOMAIN buffer = Handles
    BY DEF CowInv, CountsUsers
  <1>3. DOMAIN buffer = Handles
    BY <1>2
  <1>4. Moved(buffer, h, p, b)
    BY <1>3, UsersMove
  <1> QED BY <1>1, <1>2, <1>4 DEF Moved

(* There are more blocks than handles: one is free. *)
LEMMA FreeBlockIs ==
  ASSUME CowInv
  PROVE  FreeBlock \in Blocks /\ \A h \in Handles : buffer[h] # FreeBlock
  <1>1. \E b \in Blocks : refs[b] = 0
    <2> SUFFICES ASSUME \A b \in Blocks : refs[b] # 0
                 PROVE  FALSE
      OBVIOUS
    <2>1. \A b \in Blocks : Users(buffer, b) # {}
      <3> SUFFICES ASSUME NEW b \in Blocks, Users(buffer, b) = {}
                   PROVE  FALSE
        OBVIOUS
      <3>1. Cardinality(Users(buffer, b)) = 0
        BY FS_EmptySet
      <3> QED BY <3>1 DEF CowInv, CountsUsers
    <2> DEFINE f == [b \in Blocks |-> CHOOSE h \in Handles : buffer[h] = b]
    <2>2. \A b \in Blocks : f[b] \in Handles /\ buffer[f[b]] = b
      BY <2>1 DEF Users
    <2>3. f \in [Blocks -> Handles]
      BY <2>2
    <2> HIDE DEF f
    <2>4. Cardinality(Handles) < Cardinality(Blocks)
      BY BlocksAre
    <2>5. \E x, y \in Blocks : x # y /\ f[x] = f[y]
      BY <2>3, <2>4, BlocksAre, FS_PigeonHole
    <2> QED BY <2>2, <2>5
  <1>2. FreeBlock \in Blocks /\ refs[FreeBlock] = 0
    BY <1>1 DEF FreeBlock
  <1>3. Cardinality(Users(buffer, FreeBlock)) = 0
    BY <1>2 DEF CowInv, CountsUsers
  <1>4. Users(buffer, FreeBlock) = {}
    BY <1>3, UsersAre, FS_EmptySet
  <1> QED BY <1>2, <1>4 DEF Users

(* A block that counts one is its handle's alone. *)
LEMMA OneUser ==
  ASSUME CowInv, NEW h \in Handles, buffer[h] # Null, HasOneRef(buffer[h])
  PROVE  \A o \in Handles : o # h => buffer[o] # buffer[h]
  <1>1. buffer[h] \in Blocks /\ Cardinality(Users(buffer, buffer[h])) = 1
    BY DEF CowInv, CountsUsers, HasOneRef
  <1>2. \E x : Users(buffer, buffer[h]) = {x}
    BY <1>1, UsersAre, FS_Singleton
  <1> QED BY <1>2 DEF Users

LEMMA StaysKeeps ==
  ASSUME CowInv, NEW h \in Handles, NEW v, Now(h, v), UNCHANGED <<buffer, heap, refs>>,
         Owns(buffer[h], heap, v)
  PROVE  CowInv'
  <1>1. \A o \in Handles : Owns(buffer[o], heap, value'[o])
    BY DEF Now, CowInv
  <1> QED BY <1>1 DEF CowInv, Now, Owns

LEMMA NewBlockKeeps ==
  ASSUME CowInv, NEW h \in Handles, NEW v \in Seq(Int), Now(h, v), NEW b, Keeps(b, v), NewBlock(h, b)
  PROVE  CowInv'
  <1> DEFINE p == FreeBlock
  <1>1. p \in Blocks /\ \A o \in Handles : buffer[o] # p
    BY FreeBlockIs
  <1> HIDE DEF p
  <1>2. Repoint(h, p) /\ heap' = [heap EXCEPT ![p] = b]
    BY DEF NewBlock, p
  <1>3. buffer' = [buffer EXCEPT ![h] = p]
    BY <1>2 DEF Repoint
  <1>4. CountsUsers(buffer', refs')
    BY <1>2, RepointCounts
  <1>5. DOMAIN buffer' = Handles /\ \A o \in Handles : buffer'[o] \in Blocks \union {Null}
    BY <1>1, <1>3 DEF CowInv
  <1>6. \A o \in Handles : Owns(buffer'[o], heap', value'[o])
    <2> SUFFICES ASSUME NEW o \in Handles
                 PROVE  Owns(buffer'[o], heap', value'[o])
      OBVIOUS
    <2>1. CASE o = h
      <3>1. buffer'[o] = p /\ value'[o] = v /\ heap'[p] = b
        BY <1>1, <1>2, <1>3, <2>1 DEF Now, CowInv
      <3> QED BY <1>1, <3>1, BlocksAre DEF Owns
    <2>2. CASE o # h
      <3>1. buffer'[o] = buffer[o] /\ value'[o] = value[o] /\ buffer[o] # p
        BY <1>1, <1>3, <2>2 DEF Now, CowInv
      <3>2. heap'[buffer[o]] = heap[buffer[o]] \/ buffer[o] = Null
        BY <1>2, <3>1 DEF CowInv
      <3> QED BY <3>1, <3>2 DEF Owns, CowInv
    <2> QED BY <2>1, <2>2
  <1>7. DOMAIN heap' = Blocks /\ DOMAIN value' = Handles
    BY <1>2 DEF CowInv, Now
  <1> QED BY <1>4, <1>5, <1>6, <1>7 DEF CowInv

LEMMA InPlaceKeeps ==
  ASSUME CowInv, NEW h \in Handles, NEW v \in Seq(Int), Now(h, v), NEW b, Keeps(b, v), InPlace(h, b),
         buffer[h] # Null, HasOneRef(buffer[h])
  PROVE  CowInv'
  <1> DEFINE p == buffer[h]
  <1>1. p \in Blocks /\ \A o \in Handles : o # h => buffer[o] # p
    BY OneUser DEF CowInv
  <1>2. heap' = [heap EXCEPT ![p] = b] /\ UNCHANGED <<buffer, refs>>
    BY DEF InPlace
  <1>3. \A o \in Handles : Owns(buffer[o], heap', value'[o])
    <2> SUFFICES ASSUME NEW o \in Handles
                 PROVE  Owns(buffer[o], heap', value'[o])
      OBVIOUS
    <2>1. CASE o = h
      <3>1. value'[o] = v /\ heap'[p] = b
        BY <1>1, <1>2, <2>1 DEF Now, CowInv
      <3> QED BY <2>1, <3>1 DEF Owns
    <2>2. CASE o # h
      <3>1. value'[o] = value[o] /\ buffer[o] # p
        BY <1>1, <2>2 DEF Now
      <3>2. heap'[buffer[o]] = heap[buffer[o]] \/ buffer[o] = Null
        BY <1>2, <3>1 DEF CowInv
      <3> QED BY <3>1, <3>2 DEF Owns, CowInv
    <2> QED BY <2>1, <2>2
  <1>4. DOMAIN heap' = Blocks /\ DOMAIN value' = Handles
    BY <1>2 DEF CowInv, Now
  <1> QED BY <1>2, <1>3, <1>4 DEF CowInv

LEMMA WriteToKeeps ==
  ASSUME CowInv, NEW h \in Handles, NEW v \in Seq(Int), Now(h, v), buffer[h] # Null,
         NEW alone, NEW copied, Keeps(alone, v), Keeps(copied, v), WriteTo(h, alone, copied)
  PROVE  CowInv'
  BY InPlaceKeeps, NewBlockKeeps DEF WriteTo

LEMMA ShowsNow ==
  ASSUME CowInv, NEW h \in Handles, NEW v, Shows(h, v)
  PROVE  Now(h, v)
  BY DEF CowInv, Shows, Now

LEMMA StillNow ==
  ASSUME CowInv, NEW h \in Handles, UNCHANGED value
  PROVE  Now(h, value[h])
  BY DEF CowInv, Now

LEMMA CowStarts ==
  ASSUME CowInit
  PROVE  CowInv
  <1>1. \A b \in Blocks : Users(buffer, b) = {}
    BY BlocksAre DEF CowInit, Users
  <1>2. Cardinality({}) = 0
    BY FS_EmptySet
  <1>3. CountsUsers(buffer, refs)
    BY <1>1, <1>2 DEF CowInit, CountsUsers
  <1>4. << >> \in Seq(Int)
    OBVIOUS
  <1> QED BY <1>3, <1>4 DEF CowInit, CowInv, Owns

(* What a handle shows is what its block keeps. *)
LEMMA MineKeeps ==
  ASSUME CowInv, NEW h \in Handles
  PROVE  /\ value[h] \in Seq(Int) /\ Len(value[h]) \in Nat
         /\ buffer[h] = Null => value[h] = << >>
         /\ buffer[h] # Null => /\ Keeps(MyBuffer(h), value[h]) /\ MyBuffer(h) \in Memory
                                /\ Contents(MyBuffer(h)) = value[h]
                                /\ Capacity(MyBuffer(h)) \in Nat
                                /\ Capacity(MyBuffer(h)) = Len(MyBuffer(h).cells)
  <1>1. Owns(buffer[h], heap, value[h])
    BY DEF CowInv
  <1>2. value[h] \in Seq(Int) /\ Len(value[h]) \in Nat
    BY <1>1 DEF Owns
  <1>3. CASE buffer[h] # Null
    <2>1. Keeps(MyBuffer(h), value[h])
      BY <1>1, <1>3 DEF Owns, MyBuffer
    <2>2. MyBuffer(h) \in Memory
      BY <2>1 DEF Keeps
    <2> QED BY <1>2, <1>3, <2>1, <2>2, KeptContents, MemoryIs DEF Capacity
  <1> QED BY <1>1, <1>2, <1>3 DEF Owns

LEMMA CowTyped ==
  ASSUME NEW d \in Pieces \union {<< >>}
  PROVE  d \in Seq(Int) /\ Len(d) \in Nat
  <1>1. << >> \in Seq(Int)
    OBVIOUS
  <1>2. d \in Seq(Int)
    BY <1>1, PiecesTyped
  <1> QED BY <1>2

LEMMA CopySetDataKeeps ==
  ASSUME CowInv, NEW h \in Handles, NEW d \in Pieces \union {<< >>}, CopySetData(h, d)
  PROVE  CowInv'
  <1>1. d \in Seq(Int) /\ Len(d) \in Nat /\ Now(h, d)
    BY CowTyped, ShowsNow DEF CopySetData
  <1>2. CASE buffer[h] # Null
    <2>1. /\ Keeps(SetData(MyBuffer(h), d, FALSE), d)
          /\ Keeps(NewBuffer(d, Capacity(MyBuffer(h))), d)
      <3>1. Keeps(MyBuffer(h), value[h]) /\ Capacity(MyBuffer(h)) \in Nat /\ value[h] \in Seq(Int)
        BY <1>2, MineKeeps
      <3> QED BY <1>1, <3>1, SetDataKeeps, NewKeeps
    <2>2. WriteTo(h, SetData(MyBuffer(h), d, FALSE), NewBuffer(d, Capacity(MyBuffer(h))))
      BY <1>2 DEF CopySetData
    <2> QED BY <1>1, <1>2, <2>1, <2>2, WriteToKeeps
  <1>3. CASE buffer[h] = Null /\ d # << >>
    <2>1. Keeps(NewBuffer(d, Len(d)), d)
      BY <1>1, NewKeeps
    <2> QED BY <1>1, <1>3, <2>1, NewBlockKeeps DEF CopySetData
  <1>4. CASE buffer[h] = Null /\ d = << >>
    <2>1. Owns(buffer[h], heap, d)
      BY <1>1, <1>4 DEF Owns
    <2> QED BY <1>1, <1>4, <2>1, StaysKeeps DEF CopySetData
  <1> QED BY <1>2, <1>3, <1>4

LEMMA CopyAppendKeeps ==
  ASSUME CowInv, NEW h \in Handles, NEW d \in Pieces \union {<< >>}, CopyAppend(h, d)
  PROVE  CowInv'
  <1> DEFINE v == value[h]
             w == v \o d
             n == Len(v) + Len(d)
             m == Larger(Capacity(MyBuffer(h)), n)
             copied == AppendData(NewBuffer(Contents(MyBuffer(h)), m), d)
  <1>1. d \in Seq(Int) /\ Len(d) \in Nat /\ v \in Seq(Int) /\ Len(v) \in Nat
    BY CowTyped, MineKeeps
  <1>2. w \in Seq(Int) /\ Now(h, w) /\ n \in Nat
    BY <1>1, Joined, ShowsNow DEF CopyAppend
  <1>3. CASE buffer[h] = Null
    <2>1. w = d
      BY <1>1, <1>3, MineKeeps, NothingJoined
    <2>2. Keeps(NewBuffer(d, Len(d)), w)
      BY <1>1, <2>1, NewKeeps
    <2> QED BY <1>2, <1>3, <2>2, NewBlockKeeps DEF CopyAppend
  <1>4. CASE buffer[h] # Null
    <2>1. Keeps(MyBuffer(h), v) /\ Contents(MyBuffer(h)) = v /\ Capacity(MyBuffer(h)) \in Nat
      BY <1>4, MineKeeps
    <2>2. m \in Nat
      BY <1>2, <2>1 DEF Larger
    <2> HIDE DEF m
    <2>3. Keeps(NewBuffer(v, m), v)
      BY <1>1, <2>2, NewKeeps
    <2>4. Keeps(AppendData(MyBuffer(h), d), w)
      BY <1>1, <2>1, AppendKeeps
    <2>5. Keeps(copied, w)
      BY <1>1, <2>1, <2>3, AppendKeeps
    <2>6. WriteTo(h, AppendData(MyBuffer(h), d), copied)
      BY <1>4 DEF CopyAppend, m
    <2> HIDE DEF copied, w
    <2> QED BY <1>2, <1>4, <2>4, <2>5, <2>6, WriteToKeeps
  <1> QED BY <1>3, <1>4

LEMMA CopyEnsureCapacityKeeps ==
  ASSUME CowInv, NEW h \in Handles, NEW n \in Nat, CopyEnsureCapacity(h, n)
  PROVE  CowInv'
  <1> DEFINE v == value[h]
  <1>1. v \in Seq(Int) /\ Now(h, v)
    BY MineKeeps, StillNow DEF CopyEnsureCapacity
  <1>2. Owns(buffer[h], heap, v)
    BY DEF CowInv
  <1>3. CASE UNCHANGED <<buffer, heap, refs>>
    BY <1>1, <1>2, <1>3, StaysKeeps
  <1>4. CASE buffer[h] = Null /\ NewBlock(h, NewBuffer(<< >>, n))
    <2>1. v = << >> /\ << >> \in Seq(Int)
      BY <1>1, <1>4, MineKeeps
    <2>2. Keeps(NewBuffer(<< >>, n), v)
      BY <2>1, NewKeeps
    <2> QED BY <1>1, <1>4, <2>2, NewBlockKeeps
  <1>5. CASE /\ buffer[h] # Null
             /\ WriteTo(h, EnsureCapacity(MyBuffer(h), n, FALSE), NewBuffer(Contents(MyBuffer(h)), n))
    <2>1. Keeps(MyBuffer(h), v) /\ Contents(MyBuffer(h)) = v
      BY <1>5, MineKeeps
    <2>2. Keeps(EnsureCapacity(MyBuffer(h), n, FALSE), v)
      BY <1>1, <2>1, EnsureKeeps
    <2>3. Keeps(NewBuffer(Contents(MyBuffer(h)), n), v)
      BY <1>1, <2>1, NewKeeps
    <2> QED BY <1>1, <1>5, <2>2, <2>3, WriteToKeeps
  <1> QED BY <1>3, <1>4, <1>5 DEF CopyEnsureCapacity

LEMMA CopyClearKeeps ==
  ASSUME CowInv, NEW h \in Handles, CopyClear(h)
  PROVE  CowInv'
  <1> DEFINE v == << >>
  <1>1. v \in Seq(Int) /\ Now(h, v)
    BY ShowsNow DEF CopyClear
  <1>2. CASE buffer[h] = Null
    <2>1. Owns(buffer[h], heap, v)
      BY <1>1, <1>2 DEF Owns
    <2> QED BY <1>1, <1>2, <2>1, StaysKeeps DEF CopyClear
  <1>3. CASE buffer[h] # Null
    <2>1. MyBuffer(h) \in Memory /\ Capacity(MyBuffer(h)) \in Nat
      BY <1>3, MineKeeps
    <2>2. \A zero \in BOOLEAN : Keeps(Clear(MyBuffer(h), zero), v)
      BY <2>1, ClearKeeps
    <2>3. Keeps(NewBuffer(v, Capacity(MyBuffer(h))), v)
      BY <1>1, <2>1, NewKeeps
    <2>4. WriteTo(h, Clear(MyBuffer(h), FALSE), NewBuffer(v, Capacity(MyBuffer(h))))
      BY <1>3 DEF CopyClear
    <2>5. Keeps(Clear(MyBuffer(h), FALSE), v)
      BY <2>2
    <2> QED BY <1>1, <1>3, <2>3, <2>4, <2>5, WriteToKeeps
  <1> QED BY <1>2, <1>3

LEMMA CopySetSizeKeeps ==
  ASSUME CowInv, NEW h \in Handles, NEW n \in Nat, CopySetSize(h, n)
  PROVE  CowInv'
  <1> DEFINE v == value[h]
             p == Smaller(n, Len(v))
             u == SubSeq(v, 1, p)
             fresh == NewBuffer(Fill(n, Uninitialized), n)
             alone == SetSize(MyBuffer(h), n, FALSE)
             m == Larger(Capacity(MyBuffer(h)), n)
             copied == SetSize(NewBuffer(u, m), n, FALSE)
             b == IF buffer[h] = Null THEN fresh ELSE IF HasOneRef(buffer[h]) THEN alone ELSE copied
             w == u \o SubSeq(Contents(b), Len(u) + 1, n)
  <1>1. v \in Seq(Int) /\ Len(v) \in Nat
    BY MineKeeps
  <1>2. p \in Nat /\ p <= n /\ p <= Len(v)
    BY <1>1, LargerIs
  <1>3. u \in Seq(Int) /\ Len(u) = p
    BY <1>1, <1>2, Cut
  <1>4. /\ Shows(h, w)
        /\ buffer[h] # Null => WriteTo(h, b, b)
        /\ buffer[h] = Null => IF n > 0 THEN NewBlock(h, b) ELSE UNCHANGED <<buffer, heap, refs>>
    BY DEF CopySetSize
  <1>5. ASSUME buffer[h] = Null
        PROVE  Resized(b, u, n)
    <2>1. Len(u) = 0
      BY <1>2, <1>3, <1>5, MineKeeps
    <2>2. Fill(n, Uninitialized) \in Seq(Int) /\ Len(Fill(n, Uninitialized)) = n
      BY Filled, NotData
    <2>3. Keeps(fresh, Fill(n, Uninitialized))
      BY <2>2, NewKeeps
    <2> HIDE DEF u, fresh
    <2>4. Resized(fresh, u, n)
      BY <2>1, <2>2, <2>3 DEF Keeps, Resized
    <2> QED BY <1>5, <2>4 DEF u, fresh
  <1>6. ASSUME buffer[h] # Null /\ HasOneRef(buffer[h])
        PROVE  Resized(b, u, n)
    <2>1. Keeps(MyBuffer(h), v)
      BY <1>6, MineKeeps
    <2>2. Resized(alone, v, n)
      BY <1>1, <2>1, SetSizeIs
    <2> HIDE DEF alone
    <2>3. Resized(alone, u, n)
      BY <1>1, <2>2, ResizedPrefix
    <2> QED BY <1>6, <2>3
  <1>7. ASSUME buffer[h] # Null /\ ~ HasOneRef(buffer[h])
        PROVE  Resized(b, u, n)
    <2>1. Capacity(MyBuffer(h)) \in Nat
      BY <1>7, MineKeeps
    <2>2. m \in Nat
      BY <2>1 DEF Larger
    <2> HIDE DEF m, u
    <2>3. Keeps(NewBuffer(u, m), u)
      BY <1>3, <2>2, NewKeeps
    <2>4. Resized(copied, u, n)
      BY <1>3, <2>3, SetSizeIs
    <2> QED BY <1>7, <2>4
  <1>8. Resized(b, u, n)
    BY <1>5, <1>6, <1>7
  <1> HIDE DEF b, p, u
  <1>9. w \in Seq(Int) /\ Keeps(b, w)
    BY <1>2, <1>3, <1>8, ResizedKeeps
  <1>10. Len(w) = n
    BY <1>8, <1>9 DEF Keeps, Resized
  <1> HIDE DEF w
  <1>11. Now(h, w)
    BY <1>4, ShowsNow
  <1>12. CASE buffer[h] # Null
    BY <1>4, <1>9, <1>11, <1>12, WriteToKeeps
  <1>13. CASE buffer[h] = Null /\ n > 0
    BY <1>4, <1>9, <1>11, <1>13, NewBlockKeeps
  <1>14. CASE buffer[h] = Null /\ ~ (n > 0)
    <2>1. w = << >>
      BY <1>9, <1>10, <1>14
    <2>2. Owns(buffer[h], heap, w)
      BY <1>9, <1>14, <2>1 DEF Owns
    <2> QED BY <1>4, <1>11, <1>14, <2>2, StaysKeeps
  <1> QED BY <1>12, <1>13, <1>14

(* One element is written. *)
LEMMA OneWritten ==
  ASSUME NEW b, NEW v \in Seq(Int), Keeps(b, v), NEW i \in DOMAIN v, NEW x \in Int
  PROVE  Keeps(Overwrite(b, i - 1, <<x>>), [v EXCEPT ![i] = x])
  <1> DEFINE w == [v EXCEPT ![i] = x]
             d == <<x>>
             p == i - 1
             r == Overwrite(b, p, d)
  <1>1. i \in Nat /\ i >= 1 /\ i <= Len(v) /\ Len(v) \in Nat
    OBVIOUS
  <1>2. w \in Seq(Int) /\ Len(w) = Len(v) /\ \A j \in 1 .. Len(v) : w[j] = IF j = i THEN x ELSE v[j]
    OBVIOUS
  <1>3. d \in Seq(Int) /\ Len(d) = 1 /\ d[1] = x
    OBVIOUS
  <1>4. p \in Nat /\ i - p = 1 /\ \A j \in Int : (j > p /\ j <= p + 1) <=> j = i
    BY <1>1
  <1>5. b \in Memory /\ b.size = Len(v) /\ b.size <= Len(b.cells) /\ Len(b.cells) \in Nat
        /\ \A j \in 1 .. Len(v) : b.cells[j] = v[j]
    BY MemoryIs DEF Keeps
  <1> HIDE DEF d, p
  <1>6. /\ r \in Memory /\ r.size = b.size /\ Len(r.cells) = Len(b.cells)
        /\ \A j \in 1 .. Len(b.cells) :
             /\ j > p /\ j <= p + Len(d) => r.cells[j] = d[j - p]
             /\ ~ (j > p /\ j <= p + Len(d)) => r.cells[j] = b.cells[j]
    BY <1>3, <1>4, <1>5, OverwriteIs
  <1> HIDE DEF r, w
  <1>7. ASSUME NEW j \in 1 .. Len(v)
        PROVE  r.cells[j] = w[j]
    <2>1. j \in Int /\ j \in 1 .. Len(b.cells)
      BY <1>1, <1>5
    <2>2. CASE j = i
      BY <1>1, <1>2, <1>3, <1>4, <1>6, <2>1, <2>2
    <2>3. CASE j # i
      BY <1>2, <1>3, <1>4, <1>5, <1>6, <2>1, <2>3
    <2> QED BY <2>2, <2>3
  <1>8. Keeps(r, w)
    BY <1>2, <1>5, <1>6, <1>7 DEF Keeps
  <1> QED BY <1>8 DEF r, w, p, d

LEMMA CopyWriteKeeps ==
  ASSUME CowInv, NEW h \in Handles, NEW i, NEW x \in Data, CopyWrite(h, i, x)
  PROVE  CowInv'
  <1> DEFINE v == value[h]
             w == [v EXCEPT ![i] = x]
             c == Capacity(MyBuffer(h))
  <1>1. v \in Seq(Int) /\ i \in DOMAIN v /\ x \in Int
    BY MineKeeps, NotData DEF CopyWrite
  <1>2. w \in Seq(Int) /\ Now(h, w)
    BY <1>1, ShowsNow DEF CopyWrite
  <1>3. buffer[h] # Null
    BY <1>1, MineKeeps
  <1>4. Keeps(MyBuffer(h), v) /\ Contents(MyBuffer(h)) = v /\ c \in Nat
    BY <1>3, MineKeeps
  <1>5. Keeps(NewBuffer(v, c), v)
    BY <1>1, <1>4, NewKeeps
  <1>6. WriteTo(h, Overwrite(MyBuffer(h), i - 1, <<x>>), Overwrite(NewBuffer(v, c), i - 1, <<x>>))
    BY <1>4 DEF CopyWrite
  <1>7. Keeps(Overwrite(MyBuffer(h), i - 1, <<x>>), w) /\ Keeps(Overwrite(NewBuffer(v, c), i - 1, <<x>>), w)
    BY <1>1, <1>4, <1>5, OneWritten
  <1> HIDE DEF w
  <1> QED BY <1>2, <1>3, <1>6, <1>7, WriteToKeeps

LEMMA CopyFromKeeps ==
  ASSUME CowInv, NEW h \in Handles, NEW from \in Handles, CopyFrom(h, from)
  PROVE  CowInv'
  <1> DEFINE p == buffer[from]
  <1>1. p \in Blocks \union {Null} /\ Repoint(h, p) /\ heap' = heap
    BY DEF CopyFrom, CowInv
  <1>2. buffer' = [buffer EXCEPT ![h] = p] /\ value' = [value EXCEPT ![h] = value[from]]
    BY DEF CopyFrom, Repoint, Shows
  <1>3. CountsUsers(buffer', refs')
    BY <1>1, RepointCounts
  <1>4. \A o \in Handles : Owns(buffer'[o], heap', value'[o])
    BY <1>1, <1>2 DEF CowInv
  <1>5. /\ DOMAIN buffer' = Handles /\ DOMAIN value' = Handles
        /\ \A o \in Handles : buffer'[o] \in Blocks \union {Null}
    BY <1>1, <1>2 DEF CowInv
  <1> QED BY <1>1, <1>3, <1>4, <1>5 DEF CowInv

(* Two handles refer to other blocks. *)
BothMoved(h, p, o, q, b) ==
  Cardinality(Users([[buffer EXCEPT ![h] = p] EXCEPT ![o] = q], b))
    = Cardinality(Users(buffer, b))
        + (IF b = p THEN 1 ELSE 0) - (IF b = buffer[h] THEN 1 ELSE 0)
        + (IF b = q THEN 1 ELSE 0) - (IF b = buffer[o] THEN 1 ELSE 0)

LEMMA TwoMove ==
  ASSUME CowInv, NEW h \in Handles, NEW o \in Handles, h # o, NEW p, NEW q, NEW b
  PROVE  BothMoved(h, p, o, q, b)
  <1> DEFINE bf == [buffer EXCEPT ![h] = p]
             bg == [bf EXCEPT ![o] = q]
  <1>1. DOMAIN buffer = Handles /\ DOMAIN bf = Handles /\ bf[o] = buffer[o]
    BY DEF CowInv
  <1>2. Moved(buffer, h, p, b)
    BY <1>1, UsersMove
  <1> HIDE DEF bf
  <1>3. Moved(bf, o, q, b)
    BY <1>1, UsersMove
  <1>4. Cardinality(Users(bf, b))
          = Cardinality(Users(buffer, b)) + (IF b = p THEN 1 ELSE 0) - (IF b = buffer[h] THEN 1 ELSE 0)
    BY <1>2 DEF Moved, bf
  <1>5. Cardinality(Users(bg, b))
          = Cardinality(Users(bf, b)) + (IF b = q THEN 1 ELSE 0) - (IF b = buffer[o] THEN 1 ELSE 0)
    BY <1>1, <1>3 DEF Moved
  <1> QED BY <1>4, <1>5 DEF bf, BothMoved

LEMMA MoveFromKeeps ==
  ASSUME CowInv, NEW h \in Handles, NEW from \in Handles, MoveFrom(h, from)
  PROVE  CowInv'
  <1> DEFINE p == buffer[from]
  <1>1. /\ h # from /\ heap' = heap
        /\ value' = [[value EXCEPT ![h] = value[from]] EXCEPT ![from] = << >>]
        /\ buffer' = [[buffer EXCEPT ![h] = p] EXCEPT ![from] = Null]
    BY DEF MoveFrom
  <1>2. CountsUsers(buffer', refs')
    <2> SUFFICES ASSUME NEW b \in Blocks
                 PROVE  refs'[b] = Cardinality(Users(buffer', b))
      BY DEF CountsUsers
    <2>1. b # Null /\ refs[b] = Cardinality(Users(buffer, b)) /\ refs[b] \in Nat
      BY BlocksAre, UsersAre DEF CowInv, CountsUsers
    <2>2. refs'[b] = IF b = buffer[h] THEN refs[b] - 1 ELSE refs[b]
      BY DEF MoveFrom
    <2>3. BothMoved(h, p, from, Null, b)
      BY <1>1, TwoMove
    <2> QED BY <1>1, <2>1, <2>2, <2>3 DEF BothMoved
  <1>3. DOMAIN buffer' = Handles /\ DOMAIN value' = Handles
    BY <1>1 DEF CowInv
  <1>4. \A o \in Handles : buffer'[o] \in Blocks \union {Null} /\ Owns(buffer'[o], heap', value'[o])
    <2> SUFFICES ASSUME NEW o \in Handles
                 PROVE  buffer'[o] \in Blocks \union {Null} /\ Owns(buffer'[o], heap', value'[o])
      OBVIOUS
    <2>1. CASE o = from
      <3>1. buffer'[o] = Null /\ value'[o] = << >> /\ << >> \in Seq(Int)
        BY <1>1, <2>1 DEF CowInv
      <3> QED BY <3>1 DEF Owns
    <2>2. CASE o = h
      <3>1. buffer'[o] = buffer[from] /\ value'[o] = value[from]
        BY <1>1, <2>2 DEF CowInv
      <3> QED BY <1>1, <3>1 DEF CowInv
    <2>3. CASE o # h /\ o # from
      <3>1. buffer'[o] = buffer[o] /\ value'[o] = value[o]
        BY <1>1, <2>3 DEF CowInv
      <3> QED BY <1>1, <3>1 DEF CowInv
    <2> QED BY <2>1, <2>2, <2>3
  <1> QED BY <1>1, <1>2, <1>3, <1>4 DEF CowInv

LEMMA SwapKeeps ==
  ASSUME CowInv, NEW h \in Handles, NEW with \in Handles, Swap(h, with)
  PROVE  CowInv'
  <1>1. /\ h # with /\ heap' = heap /\ refs' = refs
        /\ value' = [[value EXCEPT ![h] = value[with]] EXCEPT ![with] = value[h]]
        /\ buffer' = [[buffer EXCEPT ![h] = buffer[with]] EXCEPT ![with] = buffer[h]]
    BY DEF Swap
  <1>2. CountsUsers(buffer', refs')
    <2> SUFFICES ASSUME NEW b \in Blocks
                 PROVE  refs'[b] = Cardinality(Users(buffer', b))
      BY DEF CountsUsers
    <2>1. refs[b] = Cardinality(Users(buffer, b)) /\ refs[b] \in Nat
      BY UsersAre DEF CowInv, CountsUsers
    <2>2. BothMoved(h, buffer[with], with, buffer[h], b)
      BY <1>1, TwoMove
    <2> QED BY <1>1, <2>1, <2>2 DEF BothMoved
  <1>3. DOMAIN buffer' = Handles /\ DOMAIN value' = Handles
    BY <1>1 DEF CowInv
  <1>4. \A o \in Handles : buffer'[o] \in Blocks \union {Null} /\ Owns(buffer'[o], heap', value'[o])
    BY <1>1 DEF CowInv
  <1> QED BY <1>1, <1>2, <1>3, <1>4 DEF CowInv

LEMMA CowSteps ==
  ASSUME CowInv, [CowNext]_cowVars
  PROVE  CowInv'
  <1>1. ASSUME NEW h \in Handles, NEW d \in Pieces \union {<< >>}, CopySetData(h, d) \/ CopyAppend(h, d)
        PROVE  CowInv'
    BY <1>1, CopySetDataKeeps, CopyAppendKeeps
  <1>2. ASSUME NEW h \in Handles, NEW n \in 0 .. MaxSize, CopySetSize(h, n) \/ CopyEnsureCapacity(h, n)
        PROVE  CowInv'
    BY <1>2, CopySetSizeKeeps, CopyEnsureCapacityKeeps
  <1>3. ASSUME NEW h \in Handles, NEW i \in 1 .. MaxSize, NEW x \in Data, CopyWrite(h, i, x)
        PROVE  CowInv'
    BY <1>3, CopyWriteKeeps
  <1>4. ASSUME NEW h \in Handles, NEW o \in Handles, CopyFrom(h, o) \/ MoveFrom(h, o) \/ Swap(h, o)
        PROVE  CowInv'
    BY <1>4, CopyFromKeeps, MoveFromKeeps, SwapKeeps
  <1>5. ASSUME NEW h \in Handles, CopyClear(h)
        PROVE  CowInv'
    BY <1>5, CopyClearKeeps
  <1>6. ASSUME UNCHANGED cowVars
        PROVE  CowInv'
    BY <1>6 DEF CowInv, cowVars, CountsUsers, Owns
  <1> QED BY <1>1, <1>2, <1>3, <1>4, <1>5, <1>6 DEF CowNext

LEMMA HandlesStandAlone ==
  ASSUME CowInv
  PROVE  HandlesAreIndependent
  <1>1. \A h \in Handles : value[h] = IF buffer[h] = Null THEN << >> ELSE Contents(MyBuffer(h))
    BY MineKeeps
  <1>2. \A b \in Blocks : refs[b] = Cardinality({ h \in Handles : buffer[h] = b })
    BY DEF CowInv, CountsUsers, Users
  <1> QED BY <1>1, <1>2 DEF HandlesAreIndependent

(* rtc_base/buffer.h, copy_on_write_buffer.cc: nothing that was written outlives  *)
(* the size of a ZeroOnFreeBuffer, and every handle of a shared block shows what  *)
(* was written through it and nothing else, whatever is copied, moved, grown and  *)
(* shrunk, for every number of handles and every size.                            *)
THEOREM BuffersAlwaysKeep == ZbufSpec /\ CowSpec => []BuffersKeepBytes
  <1>1. CowSpec => []CowInv
    BY CowStarts, CowSteps, PTL DEF CowSpec
  <1>2. NothingLeftBehind /\ HandlesAreIndependent => BuffersKeepBytes
    BY DEF BuffersKeepBytes
  <1> QED BY <1>1, <1>2, NothingStaysBehind, HandlesStandAlone, PTL
=============================================================================
