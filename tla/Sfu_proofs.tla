----------------------------- MODULE Sfu_proofs -----------------------------
(***************************************************************************)
(* The rooms of the server for all sets of users, rooms, connections and   *)
(* addresses, any port range and any offers and packets.                   *)
(***************************************************************************)
EXTENDS Sfu, TLAPS

MemberStates ==
  [state : {"unused", "live", "freed"}, uid : Uids \union {None},
   fp : {"empty", "nodtls", "nofp", "set"}, answer : Nat,
   receiver : Udps \union {None}, port : Pool \union {NoPort}]

RoomTypes ==
  /\ member \in [Members -> MemberStates]
  /\ \A m \in Members : member[m].state = "live" => member[m].uid \in Uids
  /\ all_rooms \subseteq Rooms
  /\ room_members \in [Rooms -> [Uids -> Members \union {None}]]
  /\ room_conns \in [Rooms -> [Uids -> Conns \union {None}]]

RoomInv == RoomTypes /\ RoomsConsistent

(* None is no member and no connection. *)
LEMMA NoneApart == None \notin Members /\ None \notin Conns /\ None \notin Rooms
  BY ObjectNumbers, NoneIsNothing, NoneIsNoConn

(* There are no rooms at the start. *)
LEMMA InitRooms == Init => RoomInv
  <1> SUFFICES ASSUME Init
               PROVE  RoomInv
    OBVIOUS
  <1>1. RoomTypes
    BY DEF Init, MemberInit, SignalingInit, RoomTypes, MemberStates, NewMember
  <1>2. \A m \in Members : member[m].state = "unused"
    BY DEF Init, MemberInit, NewMember
  <1>3. RoomsConsistent
    BY <1>2 DEF Init, SignalingInit, RoomsConsistent, InRoom
  <1> QED BY <1>1, <1>3 DEF RoomInv

(* A step that leaves the maps of the rooms, and who the members are, alone. *)
LEMMA RoomsStay ==
  ASSUME RoomInv, member' \in [Members -> MemberStates],
         \A m \in Members : /\ member'[m].state = member[m].state
                            /\ member'[m].uid = member[m].uid,
         UNCHANGED <<room_members, room_conns, all_rooms>>
  PROVE  RoomInv'
  <1>1. RoomTypes'
    BY DEF RoomInv, RoomTypes
  <1>2. \A r \in Rooms, u \in Uids : InRoom(r, u) => room_members[r][u] \in Members
    BY DEF RoomInv, RoomTypes, InRoom
  <1>3. \A r \in Rooms, u \in Uids :
          /\ (room_members'[r][u] = None) <=> (room_conns'[r][u] = None)
          /\ InRoom(r, u)' => /\ r \in all_rooms'
                              /\ member'[room_members'[r][u]].state = "live"
                              /\ member'[room_members'[r][u]].uid = u
    BY <1>2 DEF RoomInv, RoomsConsistent, InRoom
  <1>4. \A m \in Members : member'[m].state = "live" =>
          \E r \in Rooms : room_members'[r][member'[m].uid] = m
    BY DEF RoomInv, RoomsConsistent
  <1>5. \A r, s \in Rooms, u \in Uids :
          InRoom(r, u)' /\ room_members'[r][u] = room_members'[s][u] => r = s
    BY DEF RoomInv, RoomsConsistent, InRoom
  <1>6. RoomsConsistent'
    BY <1>3, <1>4, <1>5 DEF RoomsConsistent, InRoom
  <1> QED BY <1>1, <1>6 DEF RoomInv

(* A join puts a new member at a place that is free in both maps. *)
LEMMA JoinKeepsRooms ==
  ASSUME RoomInv, NEW c \in Conns, NEW r \in Rooms, NEW uid \in Uids,
         HandleJoin(c, r, uid)
  PROVE  RoomInv'
  <1>1. PICK m \in Members :
          /\ member[m].state = "unused"
          /\ member' = [member EXCEPT ![m] = NewMember(uid)]
          /\ room_members' = [room_members EXCEPT ![r][uid] = m]
    BY DEF HandleJoin, AddMember, Fresh
  <1>2. /\ all_rooms' = all_rooms \union {r}
        /\ room_conns' = [room_conns EXCEPT ![r][uid] = c]
        /\ room_members[r][uid] = None
    BY DEF HandleJoin, AddMember
  <1>3. NewMember(uid) \in MemberStates /\ NewMember(uid).state = "live"
        /\ NewMember(uid).uid = uid
    BY DEF NewMember, MemberStates
  <1>4. RoomTypes'
    BY <1>1, <1>2, <1>3 DEF RoomInv, RoomTypes
  <1>5. \A s \in Rooms, u \in Uids : room_members[s][u] # m
    BY <1>1, NoneApart DEF RoomInv, RoomsConsistent, InRoom
  <1>6. \A s \in Rooms, u \in Uids :
          /\ room_members'[s][u] = IF s = r /\ u = uid THEN m ELSE room_members[s][u]
          /\ room_conns'[s][u] = IF s = r /\ u = uid THEN c ELSE room_conns[s][u]
    BY <1>1, <1>2 DEF RoomInv, RoomTypes
  <1>7. \A n \in Members : member'[n] = IF n = m THEN NewMember(uid) ELSE member[n]
    BY <1>1 DEF RoomInv, RoomTypes
  <1>8. \A s \in Rooms, u \in Uids :
          /\ (room_members'[s][u] = None) <=> (room_conns'[s][u] = None)
          /\ room_members'[s][u] # None =>
               /\ s \in all_rooms'
               /\ member'[room_members'[s][u]].state = "live"
               /\ member'[room_members'[s][u]].uid = u
    <2> TAKE s \in Rooms, u \in Uids
    <2>1. CASE s = r /\ u = uid
      BY <2>1, <1>2, <1>3, <1>6, <1>7, NoneApart
    <2>2. CASE ~ (s = r /\ u = uid)
      <3>1. /\ room_members'[s][u] = room_members[s][u]
            /\ room_conns'[s][u] = room_conns[s][u]
        BY <2>2, <1>6
      <3>2. room_members[s][u] # None => room_members[s][u] \in Members \ {m}
        BY <1>5 DEF RoomInv, RoomTypes
      <3> QED BY <3>1, <3>2, <1>2, <1>7 DEF RoomInv, RoomsConsistent, InRoom
    <2> QED BY <2>1, <2>2
  <1>9. ASSUME NEW n \in Members, member'[n].state = "live"
        PROVE  \E s \in Rooms : room_members'[s][member'[n].uid] = n
    <2>1. CASE n = m
      BY <2>1, <1>3, <1>6, <1>7
    <2>2. CASE n # m
      <3>1. member'[n] = member[n] /\ member[n].state = "live"
        BY <2>2, <1>7, <1>9
      <3>2. PICK s \in Rooms : room_members[s][member[n].uid] = n
        BY <3>1 DEF RoomInv, RoomsConsistent
      <3>3. member[n].uid \in Uids
        BY <3>1 DEF RoomInv, RoomTypes
      <3>4. ~ (s = r /\ member[n].uid = uid)
        BY <3>2, <1>2, NoneApart
      <3>5. room_members'[s][member'[n].uid] = n
        BY <3>1, <3>2, <3>3, <3>4, <1>6
      <3> QED BY <3>5
    <2> QED BY <2>1, <2>2
  <1>10. \A s, q \in Rooms, u \in Uids :
           room_members'[s][u] # None /\ room_members'[s][u] = room_members'[q][u] => s = q
    BY <1>5, <1>6 DEF RoomInv, RoomsConsistent, InRoom
  <1>11. RoomsConsistent'
    BY <1>8, <1>9, <1>10 DEF RoomsConsistent, InRoom
  <1> QED BY <1>4, <1>11 DEF RoomInv

(* The member that is released stays a member. *)
LEMMA FreedMember ==
  ASSUME member \in [Members -> MemberStates], NEW m \in Members,
         member' = [member EXCEPT ![m].state = "freed", ![m].receiver = None]
  PROVE  /\ member' \in [Members -> MemberStates]
         /\ member'[m].state = "freed"
         /\ \A n \in Members : n # m => member'[n] = member[n]
  <1> DEFINE o == member[m]
             f == [state |-> "freed", uid |-> o.uid, fp |-> o.fp, answer |-> o.answer,
                   receiver |-> None, port |-> o.port]
  <1>1. o \in MemberStates
    OBVIOUS
  <1>2. f \in MemberStates /\ f.state = "freed"
    BY <1>1 DEF MemberStates
  <1>3. member'[m] = f
    BY <1>1 DEF MemberStates
  <1>4. DOMAIN member' = Members /\ member' = [n \in Members |-> member'[n]]
    OBVIOUS
  <1>5. \A n \in Members : n # m => member'[n] = member[n]
    OBVIOUS
  <1> HIDE DEF f
  <1>6. \A n \in Members : member'[n] \in MemberStates
    BY <1>2, <1>3, <1>5
  <1> QED BY <1>2, <1>3, <1>4, <1>5, <1>6

(* A close empties one place in both maps and frees the member found there,
   which is at no other place. *)
LEMMA CloseKeepsRooms ==
  ASSUME RoomInv, NEW c \in Conns, connections \in [Conns -> Rooms \union {None}],
         OnConnectionClose(c)
  PROVE  RoomInv'
  <1> DEFINE r == connections[c]
             mine == { u \in Uids : r # None /\ room_conns[r][u] = c }
  <1>1. CASE mine = {}
    BY <1>1, RoomsStay DEF OnConnectionClose, memberVars, RoomInv, RoomTypes
  <1>2. CASE mine # {}
    <2>1. PICK u \in mine :
            /\ IF room_members[r][u] # None
               THEN ReleaseMember(room_members[r][u])
               ELSE UNCHANGED <<memberVars, streamVars, pmVars>>
            /\ room_members' = [room_members EXCEPT ![r][u] = None]
            /\ room_conns' = [room_conns EXCEPT ![r][u] = None]
            /\ UNCHANGED all_rooms
      BY <1>2 DEF OnConnectionClose
    <2>2. u \in Uids /\ r \in Rooms /\ room_conns[r][u] = c
      OBVIOUS
    <2> DEFINE m == room_members[r][u]
    <2>3. /\ m # None /\ m \in Members
          /\ member[m].state = "live" /\ member[m].uid = u
      BY <2>2, NoneApart DEF RoomInv, RoomTypes, RoomsConsistent, InRoom
    <2>4. member' = [member EXCEPT ![m].state = "freed", ![m].receiver = None]
      BY <2>1, <2>3 DEF ReleaseMember
    <2> HIDE DEF r, mine, m
    <2>5. \A s \in Rooms, v \in Uids :
            /\ room_members'[s][v] = IF s = r /\ v = u THEN None ELSE room_members[s][v]
            /\ room_conns'[s][v] = IF s = r /\ v = u THEN None ELSE room_conns[s][v]
      BY <2>1, <2>2 DEF RoomInv, RoomTypes
    <2>6. \A n \in Members :
            /\ n # m => member'[n] = member[n]
            /\ member'[m].state = "freed"
      BY <2>3, <2>4, FreedMember DEF RoomInv, RoomTypes
    <2>7. RoomTypes'
      <3>1. member' \in [Members -> MemberStates]
        BY <2>3, <2>4, FreedMember DEF RoomInv, RoomTypes
      <3> QED BY <3>1, <2>1, <2>2, <2>6 DEF RoomInv, RoomTypes
    <2>8. \A s \in Rooms, v \in Uids : ~ (s = r /\ v = u) => room_members[s][v] # m
      BY <2>2, <2>3 DEF RoomInv, RoomsConsistent, InRoom, m
    <2>9. \A s \in Rooms, v \in Uids :
            /\ (room_members'[s][v] = None) <=> (room_conns'[s][v] = None)
            /\ room_members'[s][v] # None =>
                 /\ s \in all_rooms'
                 /\ member'[room_members'[s][v]].state = "live"
                 /\ member'[room_members'[s][v]].uid = v
      <3> TAKE s \in Rooms, v \in Uids
      <3>1. CASE s = r /\ v = u
        BY <3>1, <2>5
      <3>2. CASE ~ (s = r /\ v = u)
        <4>1. /\ room_members'[s][v] = room_members[s][v]
              /\ room_conns'[s][v] = room_conns[s][v]
          BY <3>2, <2>5
        <4>2. room_members[s][v] # None => room_members[s][v] \in Members \ {m}
          BY <3>2, <2>8 DEF RoomInv, RoomTypes
        <4> QED BY <4>1, <4>2, <2>1, <2>6 DEF RoomInv, RoomsConsistent, InRoom
      <3> QED BY <3>1, <3>2
    <2>10. ASSUME NEW n \in Members, member'[n].state = "live"
           PROVE  \E s \in Rooms : room_members'[s][member'[n].uid] = n
      <3>1. n # m /\ member'[n] = member[n]
        BY <2>6, <2>10
      <3>2. PICK s \in Rooms : room_members[s][member[n].uid] = n
        BY <3>1, <2>10 DEF RoomInv, RoomsConsistent
      <3>3. member[n].uid \in Uids
        BY <3>1, <2>10 DEF RoomInv, RoomTypes
      <3>4. ~ (s = r /\ member[n].uid = u)
        BY <3>1, <3>2 DEF m
      <3>5. room_members'[s][member'[n].uid] = n
        BY <3>1, <3>2, <3>3, <3>4, <2>5
      <3> QED BY <3>5
    <2>11. \A s, q \in Rooms, v \in Uids :
             room_members'[s][v] # None /\ room_members'[s][v] = room_members'[q][v] => s = q
      BY <2>5 DEF RoomInv, RoomsConsistent, InRoom
    <2>12. RoomsConsistent'
      BY <2>9, <2>10, <2>11 DEF RoomsConsistent, InRoom
    <2> QED BY <2>7, <2>12 DEF RoomInv
  <1> QED BY <1>1, <1>2

(* An answer to an offer changes what the member has, not who it is. *)
LEMMA AnswerKeepsRooms ==
  ASSUME RoomInv, NEW m \in Members, NEW offer \in ClientOffers, Answer(m, offer),
         UNCHANGED roomVars
  PROVE  RoomInv'
  <1>1. PICK port \in Pool \union {NoPort}, u \in Udps, fp \in FpAfter(member[m].fp, offer) :
          member' = [[member EXCEPT ![m].fp = fp, ![m].answer = @ + 1]
                        EXCEPT ![m].port = port, ![m].receiver = u]
    BY DEF Answer, StartRecv
  <1>2. fp \in {"empty", "nodtls", "nofp", "set"}
    BY ClientRules DEF FpAfter, Fingerprints, RoomInv, RoomTypes, MemberStates, Offers
  <1> DEFINE mem == [member EXCEPT ![m].fp = fp, ![m].answer = @ + 1]
  <1>3. member \in [Members -> MemberStates]
    BY DEF RoomInv, RoomTypes
  <1>4. /\ mem \in [Members -> MemberStates]
        /\ \A n \in Members : mem[n].state = member[n].state /\ mem[n].uid = member[n].uid
    <2>1. mem \in [Members -> MemberStates]
      <3> DEFINE f == [member EXCEPT ![m].fp = fp]
      <3>1. f \in [Members -> MemberStates]
        BY <1>2, <1>3 DEF MemberStates
      <3> DEFINE n == f[m].answer + 1
      <3>2. mem = [f EXCEPT ![m].answer = n]
        OBVIOUS
      <3> HIDE DEF f
      <3>3. n \in Nat
        BY <3>1 DEF MemberStates
      <3> HIDE DEF n, mem
      <3> QED BY <3>1, <3>2, <3>3 DEF MemberStates
    <2>2. \A n \in Members : mem[n].state = member[n].state
      BY <1>3 DEF MemberStates
    <2>3. \A n \in Members : mem[n].uid = member[n].uid
      BY <1>3 DEF MemberStates
    <2> QED BY <2>1, <2>2, <2>3
  <1>5. member' = [mem EXCEPT ![m].port = port, ![m].receiver = u]
    BY <1>1
  <1> HIDE DEF mem
  <1>6. /\ member' \in [Members -> MemberStates]
        /\ \A n \in Members : member'[n].state = mem[n].state /\ member'[n].uid = mem[n].uid
    <2>1. member' \in [Members -> MemberStates]
      <3> DEFINE f == [mem EXCEPT ![m].port = port]
      <3>1. f \in [Members -> MemberStates]
        BY <1>4 DEF MemberStates
      <3>2. member' = [f EXCEPT ![m].receiver = u]
        BY <1>5
      <3> HIDE DEF f
      <3> QED BY <3>1, <3>2 DEF MemberStates
    <2>2. \A n \in Members : member'[n].state = mem[n].state
      BY <1>4, <1>5 DEF MemberStates
    <2>3. \A n \in Members : member'[n].uid = mem[n].uid
      BY <1>4, <1>5 DEF MemberStates
    <2> QED BY <2>1, <2>2, <2>3
  <1> QED BY <1>4, <1>6, RoomsStay DEF roomVars

(* An offer that does not parse changes at most the description. *)
LEMMA RefusedKeepsRooms ==
  ASSUME RoomInv, NEW m \in Members, NEW offer \in ClientOffers,
         NEW fp \in FpAfter(member[m].fp, offer),
         member' = [member EXCEPT ![m].fp = fp],
         UNCHANGED roomVars
  PROVE  RoomInv'
  <1>1. fp \in {"empty", "nodtls", "nofp", "set"}
    BY ClientRules DEF FpAfter, Fingerprints, RoomInv, RoomTypes, MemberStates, Offers
  <1>2. member \in [Members -> MemberStates]
    BY DEF RoomInv, RoomTypes
  <1>3. /\ member' \in [Members -> MemberStates]
        /\ \A n \in Members : member'[n].state = member[n].state /\ member'[n].uid = member[n].uid
    BY <1>1, <1>2 DEF MemberStates
  <1> QED BY <1>3, RoomsStay DEF roomVars

(* No packet changes a member. *)
LEMMA PacketKeepsMembers ==
  ASSUME NEW u \in Udps, NEW a \in Addrs, NEW packet \in ClientPackets,
         OnUdpReceive(u, a, packet)
  PROVE  UNCHANGED member
  BY DEF OnUdpReceive, OnStun, OnDtls, OnMedia

(* Every step keeps the rooms as they should be. *)
LEMMA StepRooms ==
  ASSUME RoomInv, connections \in [Conns -> Rooms \union {None}], [Next]_vars
  PROVE  RoomInv'
  <1>1. ASSUME NEW c \in Conns, NewConnection(c)
        PROVE  RoomInv'
    BY <1>1, RoomsStay DEF NewConnection, OnNewConnection, roomVars, memberVars, RoomInv, RoomTypes
  <1>2. ASSUME NEW c \in Conns, Close(c)
        PROVE  RoomInv'
    BY <1>2, CloseKeepsRooms DEF Close
  <1>3. ASSUME NEW c \in Conns, NEW r \in Rooms, NEW uid \in Uids, Join(c, r, uid)
        PROVE  RoomInv'
    BY <1>3, JoinKeepsRooms DEF Join
  <1>4. ASSUME NEW r \in Rooms, NEW uid \in Uids, NEW offer \in ClientOffers,
               Publish(r, uid, offer)
        PROVE  RoomInv'
    <2> DEFINE m == room_members[r][uid]
    <2>1. m \in Members /\ UNCHANGED roomVars
      BY <1>4 DEF Publish, HandlePublish, RoomInv, RoomTypes
    <2>2. \/ Answer(m, offer)
          \/ \E fp \in FpAfter(member[m].fp, offer) : member' = [member EXCEPT ![m].fp = fp]
      BY <1>4 DEF Publish, HandlePublish
    <2> HIDE DEF m
    <2> QED BY <2>1, <2>2, AnswerKeepsRooms, RefusedKeepsRooms
  <1>5. ASSUME NEW r \in Rooms, NEW uid \in Uids, NEW offer \in ClientOffers,
               NEW remote \in Uids, Pull(r, uid, remote, offer)
        PROVE  RoomInv'
    <2>1. /\ room_members[r][uid] \in Members
          /\ UNCHANGED roomVars
          /\ Answer(room_members[r][uid], offer)
      BY <1>5 DEF Pull, HandlePull, RoomInv, RoomTypes
    <2> QED BY <2>1, AnswerKeepsRooms
  <1>6. ASSUME NEW u \in Udps, NEW a \in Addrs, NEW packet \in ClientPackets,
               Receive(u, a, packet)
        PROVE  RoomInv'
    <2>1. UNCHANGED member /\ UNCHANGED roomVars
      BY <1>6, PacketKeepsMembers DEF Receive
    <2> QED BY <2>1, RoomsStay DEF roomVars, RoomInv, RoomTypes
  <1>7. ASSUME NEW u \in Udps, Delete(u)
        PROVE  RoomInv'
    BY <1>7, RoomsStay DEF Delete, Deleter, roomVars, RoomInv, RoomTypes
  <1>8. CASE UNCHANGED vars
    BY <1>8, RoomsStay DEF vars, roomVars, memberVars, RoomInv, RoomTypes
  <1> QED BY <1>1, <1>2, <1>3, <1>4, <1>5, <1>6, <1>7, <1>8 DEF Next

(* The room of a connection is a room. *)
ConnTypes ==
  /\ conn \in [Conns -> {"new", "open", "closed"}]
  /\ connections \in [Conns -> Rooms \union {None}]

LEMMA StepConns ==
  ASSUME ConnTypes, [Next]_vars
  PROVE  ConnTypes'
  <1>1. ASSUME NEW c \in Conns, NewConnection(c)
        PROVE  ConnTypes'
    BY <1>1 DEF NewConnection, OnNewConnection, roomVars, ConnTypes
  <1>2. ASSUME NEW c \in Conns, Close(c)
        PROVE  ConnTypes'
    BY <1>2 DEF Close, OnConnectionClose, ConnTypes
  <1>3. ASSUME NEW c \in Conns, NEW r \in Rooms, NEW uid \in Uids, Join(c, r, uid)
        PROVE  ConnTypes'
    BY <1>3 DEF Join, HandleJoin, AddMember, ConnTypes
  <1>4. ASSUME UNCHANGED <<conn, connections>>
        PROVE  ConnTypes'
    BY <1>4 DEF ConnTypes
  <1>5. \A r \in Rooms, uid \in Uids, offer \in ClientOffers :
          Publish(r, uid, offer) => UNCHANGED <<conn, connections>>
    BY DEF Publish, HandlePublish, roomVars
  <1>6. \A r \in Rooms, uid, remote \in Uids, offer \in ClientOffers :
          Pull(r, uid, remote, offer) => UNCHANGED <<conn, connections>>
    BY DEF Pull, HandlePull, roomVars
  <1>7. \A u \in Udps, a \in Addrs, packet \in ClientPackets :
          Receive(u, a, packet) => UNCHANGED <<conn, connections>>
    BY DEF Receive, roomVars
  <1>8. \A u \in Udps : Delete(u) => UNCHANGED <<conn, connections>>
    BY DEF Delete, roomVars
  <1>9. UNCHANGED vars => UNCHANGED <<conn, connections>>
    BY DEF vars, roomVars
  <1> QED BY <1>1, <1>2, <1>3, <1>4, <1>5, <1>6, <1>7, <1>8, <1>9 DEF Next

-----------------------------------------------------------------------------
(***************************************************************************)
(* The two maps of every room agree and each member is at one place, after *)
(* any sequence of joins, offers, packets and closes (handle_join, remove):*)
(* a close releases the member that the connection's uid stands for.       *)
(***************************************************************************)
THEOREM RoomsAgree == Spec => []RoomsConsistent
  <1>1. Init => RoomInv /\ ConnTypes
    BY InitRooms DEF Init, SignalingInit, ConnTypes
  <1>2. RoomInv /\ ConnTypes /\ [Next]_vars => (RoomInv /\ ConnTypes)'
    BY StepRooms, StepConns DEF ConnTypes
  <1>3. RoomInv => RoomsConsistent
    BY DEF RoomInv
  <1> QED BY <1>1, <1>2, <1>3, PTL DEF Spec

-----------------------------------------------------------------------------
(***************************************************************************)
(* What remove relies on: a connection is open and remembered with the     *)
(* room where it has a member, and it has only one there.                  *)
(***************************************************************************)
Remembered ==
  /\ \A r \in Rooms, u \in Uids : room_conns[r][u] # None =>
        /\ conn[room_conns[r][u]] = "open"
        /\ connections[room_conns[r][u]] = r
  /\ \A r \in Rooms, u, v \in Uids :
        room_conns[r][u] # None /\ room_conns[r][u] = room_conns[r][v] => u = v

LEMMA RememberedStays ==
  ASSUME Remembered, UNCHANGED <<conn, connections, room_conns>>
  PROVE  Remembered'
  BY DEF Remembered

(* A connection that joins once has no member before. *)
LEMMA JoinRemembers ==
  ASSUME RoomTypes, ConnTypes, Remembered, JoinOnce,
         NEW c \in Conns, NEW r \in Rooms, NEW uid \in Uids, Join(c, r, uid)
  PROVE  Remembered'
  <1>1. /\ connections[c] = None /\ conn[c] = "open"
        /\ room_conns' = [room_conns EXCEPT ![r][uid] = c]
        /\ connections' = [connections EXCEPT ![c] = r]
        /\ conn' = conn
    BY DEF Join, HandleJoin, AddMember
  <1>2. \A s \in Rooms, u \in Uids : room_conns[s][u] # c
    BY <1>1, NoneApart DEF Remembered
  <1>3. \A s \in Rooms, u \in Uids :
          room_conns'[s][u] = IF s = r /\ u = uid THEN c ELSE room_conns[s][u]
    BY <1>1 DEF RoomTypes
  <1>4. connections'[c] = r /\ \A d \in Conns : d # c => connections'[d] = connections[d]
    BY <1>1 DEF ConnTypes
  <1>5. ASSUME NEW s \in Rooms, NEW u \in Uids, room_conns'[s][u] # None
        PROVE  conn'[room_conns'[s][u]] = "open" /\ connections'[room_conns'[s][u]] = s
    <2>1. CASE s = r /\ u = uid
      BY <2>1, <1>1, <1>3, <1>4
    <2>2. CASE ~ (s = r /\ u = uid)
      <3>1. room_conns'[s][u] = room_conns[s][u] /\ room_conns[s][u] \in Conns \ {c}
        BY <2>2, <1>2, <1>3, <1>5 DEF RoomTypes
      <3> QED BY <3>1, <1>1, <1>4, <1>5 DEF Remembered
    <2> QED BY <2>1, <2>2
  <1>6. \A s \in Rooms, u, v \in Uids :
          room_conns'[s][u] # None /\ room_conns'[s][u] = room_conns'[s][v] => u = v
    BY <1>2, <1>3 DEF Remembered
  <1> QED BY <1>5, <1>6 DEF Remembered

(* The member that remove finds is the only one of the connection. *)
LEMMA CloseForgets ==
  ASSUME RoomTypes, ConnTypes, Remembered, NEW c \in Conns, Close(c)
  PROVE  Remembered'
  <1> DEFINE r == connections[c]
             mine == { u \in Uids : r # None /\ room_conns[r][u] = c }
  <1>1. /\ conn' = [conn EXCEPT ![c] = "closed"]
        /\ connections' = [connections EXCEPT ![c] = None]
    BY DEF Close, OnConnectionClose
  <1>2. \A d \in Conns : d # c => conn'[d] = conn[d] /\ connections'[d] = connections[d]
    BY <1>1 DEF ConnTypes
  <1>3. \A s \in Rooms, u \in Uids : room_conns[s][u] = c => s = r /\ u \in mine
    BY NoneApart DEF Remembered
  <1>4. CASE mine = {}
    <2>1. room_conns' = room_conns
      BY <1>4 DEF Close, OnConnectionClose
    <2>2. \A s \in Rooms, u \in Uids : room_conns[s][u] # None => room_conns[s][u] \in Conns \ {c}
      BY <1>3, <1>4 DEF RoomTypes
    <2> HIDE DEF r, mine
    <2> QED BY <2>1, <2>2, <1>2 DEF Remembered
  <1>5. CASE mine # {}
    <2>1. PICK w \in mine : room_conns' = [room_conns EXCEPT ![r][w] = None]
      BY <1>5 DEF Close, OnConnectionClose
    <2>2. w \in Uids /\ r \in Rooms /\ room_conns[r][w] = c
      BY DEF ConnTypes
    <2>3. \A s \in Rooms, u \in Uids :
            room_conns'[s][u] = IF s = r /\ u = w THEN None ELSE room_conns[s][u]
      BY <2>1, <2>2 DEF RoomTypes
    <2>4. \A s \in Rooms, u \in Uids : room_conns[s][u] = c => s = r /\ u = w
      BY <2>2, <1>3, NoneApart DEF Remembered
    <2>5. \A s \in Rooms, u \in Uids : room_conns'[s][u] # None =>
            room_conns'[s][u] = room_conns[s][u] /\ room_conns[s][u] \in Conns \ {c}
      BY <2>3, <2>4 DEF RoomTypes
    <2> HIDE DEF r, mine
    <2> QED BY <2>5, <1>2 DEF Remembered
  <1> QED BY <1>4, <1>5

LEMMA StepRemembered ==
  ASSUME RoomTypes, ConnTypes, Remembered, JoinOnce, [Next]_vars
  PROVE  Remembered'
  <1>1. ASSUME NEW c \in Conns, NewConnection(c)
        PROVE  Remembered'
    <2>1. /\ conn[c] = "new" /\ conn' = [conn EXCEPT ![c] = "open"]
          /\ UNCHANGED <<connections, room_conns>>
      BY <1>1 DEF NewConnection, OnNewConnection, roomVars
    <2>2. \A d \in Conns : conn[d] = "open" => conn'[d] = "open"
      BY <2>1 DEF ConnTypes
    <2> QED BY <2>1, <2>2 DEF Remembered, RoomTypes
  <1>2. ASSUME NEW c \in Conns, Close(c)
        PROVE  Remembered'
    BY <1>2, CloseForgets
  <1>3. ASSUME NEW c \in Conns, NEW r \in Rooms, NEW uid \in Uids, Join(c, r, uid)
        PROVE  Remembered'
    BY <1>3, JoinRemembers
  <1>4. \A r \in Rooms, uid \in Uids, offer \in ClientOffers :
          Publish(r, uid, offer) => UNCHANGED <<conn, connections, room_conns>>
    BY DEF Publish, HandlePublish, roomVars
  <1>5. \A r \in Rooms, uid, remote \in Uids, offer \in ClientOffers :
          Pull(r, uid, remote, offer) => UNCHANGED <<conn, connections, room_conns>>
    BY DEF Pull, HandlePull, roomVars
  <1>6. \A u \in Udps, a \in Addrs, packet \in ClientPackets :
          Receive(u, a, packet) => UNCHANGED <<conn, connections, room_conns>>
    BY DEF Receive, roomVars
  <1>7. \A u \in Udps : Delete(u) => UNCHANGED <<conn, connections, room_conns>>
    BY DEF Delete, roomVars
  <1>8. UNCHANGED vars => UNCHANGED <<conn, connections, room_conns>>
    BY DEF vars, roomVars
  <1> QED BY <1>1, <1>2, <1>3, <1>4, <1>5, <1>6, <1>7, <1>8, RememberedStays DEF Next

(***************************************************************************)
(* When connections join once, as the web client's do, a member never      *)
(* outlives its connection: on_connection_close finds it whatever joins,   *)
(* offers and closes of others went before.                                *)
(***************************************************************************)
THEOREM NoGhosts ==
  ASSUME JoinOnce
  PROVE  Spec => []NoGhostMembers
  <1> DEFINE Inv == RoomInv /\ ConnTypes /\ Remembered
  <1>1. Init => Inv
    BY InitRooms DEF Init, SignalingInit, ConnTypes, Remembered
  <1>2. Inv /\ [Next]_vars => Inv'
    BY StepRooms, StepConns, StepRemembered DEF ConnTypes, RoomInv
  <1>3. Inv => NoGhostMembers
    BY DEF RoomInv, RoomsConsistent, Remembered, NoGhostMembers, InRoom
  <1> HIDE DEF Inv
  <1> QED BY <1>1, <1>2, <1>3, PTL DEF Spec
-----------------------------------------------------------------------------
(***************************************************************************)
(* The steps of the server by what they do to members, sockets, ports and  *)
(* streams.                                                                *)
(***************************************************************************)
Joined(m, uid) ==
  /\ member[m].state = "unused"
  /\ member' = [member EXCEPT ![m] = NewMember(uid)]
  /\ UNCHANGED <<handles, transport, udp, srtp_init, forwarded, up>>
  /\ UNCHANGED <<streamVars, pmVars>>

Offered(m, offer) ==
  /\ member[m].state = "live" /\ member[m].answer < MaxOffers
  /\ Answer(m, offer)

Refused(m, offer) ==
  /\ member[m].state = "live" /\ ~ Parses(offer)
  /\ \E fp \in FpAfter(member[m].fp, offer) : member' = [member EXCEPT ![m].fp = fp]
  /\ UNCHANGED <<handles, transport, udp, srtp_init, forwarded, up, pmVars, streamVars>>

Received(u, a, packet) ==
  /\ udp[u].port # NoPort
  /\ packet \in {"media", "garbled"} => MediaInTime(udp[u].owner, a)
  /\ OnUdpReceive(u, a, packet)

Moves ==
  \/ UNCHANGED <<memberVars, streamVars, pmVars>>
  \/ \E m \in Members, uid \in Uids : Joined(m, uid)
  \/ \E m \in Members, offer \in ClientOffers :
       \/ member[m].uid \in Publishers /\ Offered(m, offer) /\ UNCHANGED streamVars
       \/ /\ member[m].uid \in Pullers /\ Offered(m, offer)
          /\ \E remote \in Publishers \ {member[m].uid} : AddSubscriber(member[m].uid, remote)
       \/ Refused(m, offer)
  \/ \E m \in Members : member[m].state = "live" /\ ReleaseMember(m)
  \/ \E u \in Udps, a \in Addrs, packet \in ClientPackets : Received(u, a, packet)
  \/ \E u \in Udps : Deleter(u)

(* While the server is up, and only then, it makes one of these moves. *)
LEMMA StepMoves ==
  ASSUME RoomInv, ConnTypes, [Next]_vars
  PROVE  /\ Moves
         /\ up \/ UNCHANGED <<memberVars, streamVars, pmVars>>
  <1>1. ASSUME NEW c \in Conns, NewConnection(c)
        PROVE  UNCHANGED <<memberVars, streamVars, pmVars>>
    BY <1>1 DEF NewConnection, OnNewConnection
  <1>2. ASSUME NEW c \in Conns, Close(c)
        PROVE  Moves /\ up
    <2> DEFINE r == connections[c]
               mine == { u \in Uids : r # None /\ room_conns[r][u] = c }
    <2>1. CASE mine = {}
      BY <1>2, <2>1 DEF Close, OnConnectionClose, Moves
    <2>2. CASE mine # {}
      <3>1. PICK u \in mine :
              IF room_members[r][u] # None
              THEN ReleaseMember(room_members[r][u])
              ELSE UNCHANGED <<memberVars, streamVars, pmVars>>
        BY <1>2, <2>2 DEF Close, OnConnectionClose
      <3>2. u \in Uids /\ r \in Rooms /\ room_conns[r][u] = c
        BY DEF ConnTypes
      <3> DEFINE m == room_members[r][u]
      <3>3. m # None /\ m \in Members /\ member[m].state = "live"
        BY <3>2, NoneApart DEF RoomInv, RoomTypes, RoomsConsistent, InRoom
      <3>4. ReleaseMember(m)
        BY <3>1, <3>3
      <3> HIDE DEF m, mine, r
      <3> QED BY <1>2, <3>3, <3>4 DEF Moves, Close
    <2> QED BY <2>1, <2>2
  <1>3. ASSUME NEW c \in Conns, NEW r \in Rooms, NEW uid \in Uids, Join(c, r, uid)
        PROVE  Moves /\ up
    <2>1. PICK m \in Members : Joined(m, uid)
      BY <1>3 DEF Join, HandleJoin, AddMember, Fresh, Joined
    <2> QED BY <1>3, <2>1 DEF Moves, Join
  <1>4. ASSUME NEW r \in Rooms, NEW uid \in Uids, NEW offer \in ClientOffers,
               Publish(r, uid, offer)
        PROVE  Moves /\ up
    <2> DEFINE m == room_members[r][uid]
    <2>1. /\ m \in Members /\ member[m].state = "live" /\ member[m].uid = uid
          /\ uid \in Publishers /\ up /\ member[m].answer < MaxOffers
          /\ UNCHANGED streamVars
      BY <1>4 DEF Publish, HandlePublish, MayOffer, RoomInv, RoomTypes, RoomsConsistent, InRoom
    <2>2. Offered(m, offer) \/ Refused(m, offer)
      BY <1>4, <2>1 DEF Publish, HandlePublish, Offered, Refused
    <2> HIDE DEF m
    <2> QED BY <2>1, <2>2 DEF Moves
  <1>5. ASSUME NEW r \in Rooms, NEW uid \in Uids, NEW offer \in ClientOffers,
               NEW remote \in Uids, Pull(r, uid, remote, offer)
        PROVE  Moves /\ up
    <2> DEFINE m == room_members[r][uid]
    <2>1. /\ m \in Members /\ member[m].state = "live" /\ member[m].uid = uid
          /\ uid \in Pullers /\ remote \in Publishers \ {uid}
          /\ up /\ member[m].answer < MaxOffers
      BY <1>5 DEF Pull, HandlePull, MayOffer, RoomInv, RoomTypes, RoomsConsistent, InRoom
    <2>2. Offered(m, offer) /\ AddSubscriber(uid, remote)
      BY <1>5, <2>1 DEF Pull, HandlePull, Offered
    <2> HIDE DEF m
    <2> QED BY <2>1, <2>2 DEF Moves
  <1>6. ASSUME NEW u \in Udps, NEW a \in Addrs, NEW packet \in ClientPackets,
               Receive(u, a, packet)
        PROVE  Moves /\ up
    BY <1>6 DEF Receive, Received, Moves
  <1>7. ASSUME NEW u \in Udps, Delete(u)
        PROVE  Moves /\ up
    BY <1>7 DEF Delete, Moves
  <1>8. CASE UNCHANGED vars
    BY <1>8 DEF vars, Moves
  <1> QED BY <1>1, <1>2, <1>3, <1>4, <1>5, <1>6, <1>7, <1>8 DEF Next, Moves

-----------------------------------------------------------------------------
(***************************************************************************)
(* Members, sockets and transports point at each other.  A socket has an   *)
(* owner that has been answered, and is closed only with it; the receiver  *)
(* of a member is its open socket on the port the member remembers; a      *)
(* transport sends on a socket of its own member.                          *)
(***************************************************************************)
UdpStates ==
  [state : {"unused", "open", "closing", "deleted"},
   port : Pool \union {NoPort}, owner : Members \union {None}]

TransportStates ==
  [session : {"none", "keyless", "keyed"}, udp : Udps \union {None}]

SocketTypes ==
  /\ udp \in [Udps -> UdpStates]
  /\ transport \in [Transports -> TransportStates]

SocketOwned(u) ==
  udp[u].state # "unused" =>
    /\ udp[u].owner \in Members
    /\ member[udp[u].owner].answer > 0
    /\ member[udp[u].owner].state # "unused"
    /\ udp[u].state # "open" => member[udp[u].owner].state = "freed"

ReceiverOpen(m) ==
  /\ member[m].receiver # None =>
       /\ udp[member[m].receiver].state = "open"
       /\ udp[member[m].receiver].owner = m
       /\ udp[member[m].receiver].port = member[m].port
  /\ member[m].state = "live" /\ member[m].answer > 0 => member[m].receiver # None

SendsOnOwn(t) ==
  transport[t].session # "none" =>
    /\ transport[t].udp \in Udps
    /\ udp[transport[t].udp].state # "unused"
    /\ udp[transport[t].udp].owner = t[1]

SocketInv ==
  /\ SocketTypes
  /\ \A u \in Udps : SocketOwned(u)
  /\ \A m \in Members : ReceiverOpen(m)
  /\ \A t \in Transports : SendsOnOwn(t)

(* There are no sockets at the start. *)
LEMMA InitSockets == Init => SocketInv
  <1> SUFFICES ASSUME Init
               PROVE  SocketInv
    OBVIOUS
  <1>1. SocketTypes
    BY DEF Init, MemberInit, SocketTypes, UdpStates, TransportStates
  <1>2. \A m \in Members : member[m].receiver = None /\ member[m].state = "unused"
    BY DEF Init, MemberInit, NewMember
  <1>3. \A u \in Udps : udp[u].state = "unused"
    BY DEF Init, MemberInit
  <1>4. \A t \in Transports : transport[t].session = "none"
    BY DEF Init, MemberInit
  <1> QED BY <1>1, <1>2, <1>3, <1>4 DEF SocketInv, SocketOwned, ReceiverOpen, SendsOnOwn

(* What an answer changes: the member has one answer more and receives on a
   new socket with the port it was given. *)
AnswerFacts(m, port, u, fp) ==
  /\ AllocatePort(port)
  /\ udp[u].state = "unused"
  /\ udp'[u] = [state |-> "open", port |-> port, owner |-> m]
  /\ \A v \in Udps : v # u => udp'[v] = udp[v]
  /\ udp' \in [Udps -> UdpStates]
  /\ member'[m].state = member[m].state
  /\ member'[m].uid = member[m].uid
  /\ member'[m].fp = fp
  /\ member'[m].answer = member[m].answer + 1
  /\ member'[m].port = port
  /\ member'[m].receiver = u
  /\ \A n \in Members : n # m => member'[n] = member[n]
  /\ UNCHANGED <<handles, transport, srtp_init, forwarded, up>>

LEMMA Answered ==
  ASSUME member \in [Members -> MemberStates], udp \in [Udps -> UdpStates],
         NEW m \in Members, NEW offer \in ClientOffers, Answer(m, offer)
  PROVE  \E port \in Pool \union {NoPort}, u \in Udps, fp \in FpAfter(member[m].fp, offer) :
           AnswerFacts(m, port, u, fp)
  <1>1. PICK port \in Pool \union {NoPort}, u \in Udps, fp \in FpAfter(member[m].fp, offer) :
          /\ AllocatePort(port)
          /\ Fresh(udp, u)
          /\ udp' = [udp EXCEPT ![u] = [state |-> "open", port |-> port, owner |-> m]]
          /\ member' = [[member EXCEPT ![m].fp = fp, ![m].answer = @ + 1]
                          EXCEPT ![m].port = port, ![m].receiver = u]
          /\ UNCHANGED <<handles, transport, srtp_init, forwarded, up>>
    BY DEF Answer, StartRecv
  <1>2. /\ udp[u].state = "unused"
        /\ udp'[u] = [state |-> "open", port |-> port, owner |-> m]
        /\ \A v \in Udps : v # u => udp'[v] = udp[v]
        /\ udp' \in [Udps -> UdpStates]
    BY <1>1 DEF Fresh, UdpStates
  <1>3. /\ member'[m].state = member[m].state
        /\ member'[m].uid = member[m].uid
        /\ member'[m].fp = fp
        /\ member'[m].answer = member[m].answer + 1
    BY <1>1 DEF MemberStates
  <1>4. /\ member'[m].port = port
        /\ member'[m].receiver = u
        /\ \A n \in Members : n # m => member'[n] = member[n]
    BY <1>1 DEF MemberStates
  <1>5. AnswerFacts(m, port, u, fp)
    BY <1>1, <1>2, <1>3, <1>4 DEF AnswerFacts
  <1> QED BY <1>5

(* What a release changes of members and sockets. *)
LEMMA Released ==
  ASSUME member \in [Members -> MemberStates], udp \in [Udps -> UdpStates],
         NEW m \in Members, ReleaseMember(m)
  PROVE  /\ member'[m].state = "freed" /\ member'[m].receiver = None
         /\ member'[m].uid = member[m].uid /\ member'[m].answer = member[m].answer
         /\ \A n \in Members : n # m => member'[n] = member[n]
         /\ udp' \in [Udps -> UdpStates]
         /\ \A u \in Udps : /\ udp'[u].owner = udp[u].owner
                            /\ udp'[u].port = udp[u].port
                            /\ udp'[u].state = IF u = member[m].receiver
                                               THEN "closing" ELSE udp[u].state
         /\ UNCHANGED <<handles, transport, srtp_init, forwarded, up>>
  <1>1. /\ member' = [member EXCEPT ![m].state = "freed", ![m].receiver = None]
        /\ UNCHANGED <<handles, transport, srtp_init, forwarded, up>>
        /\ StopRecv(m)
    BY DEF ReleaseMember
  <1>2. /\ member'[m].state = "freed" /\ member'[m].receiver = None
        /\ member'[m].uid = member[m].uid /\ member'[m].answer = member[m].answer
        /\ \A n \in Members : n # m => member'[n] = member[n]
    BY <1>1 DEF MemberStates
  <1>3. CASE member[m].receiver = None
    <2>1. udp' = udp
      BY <1>1, <1>3 DEF StopRecv
    <2>2. None \notin Udps
      BY ObjectNumbers, NoneIsNothing
    <2> QED BY <1>1, <1>2, <1>3, <2>1, <2>2
  <1>4. CASE member[m].receiver # None
    <2>1. udp' = [udp EXCEPT ![member[m].receiver].state = "closing"]
      BY <1>1, <1>4 DEF StopRecv
    <2>2. member[m].receiver \in Udps
      BY <1>4 DEF MemberStates
    <2> DEFINE r == member[m].receiver
    <2> HIDE DEF r
    <2>3. udp' = [udp EXCEPT ![r].state = "closing"] /\ r \in Udps
      BY <2>1, <2>2 DEF r
    <2>4. /\ udp' \in [Udps -> UdpStates]
          /\ \A u \in Udps : /\ udp'[u].owner = udp[u].owner
                             /\ udp'[u].port = udp[u].port
                             /\ udp'[u].state = IF u = r THEN "closing" ELSE udp[u].state
      BY <2>3 DEF UdpStates
    <2> QED BY <1>1, <1>2, <2>4 DEF r
  <1> QED BY <1>3, <1>4

(* A packet changes no member and no socket.  It gives the owner of the
   socket a transport for its address at most, and a transport stays as it
   was made. *)
LEMMA Delivered ==
  ASSUME transport \in [Transports -> TransportStates],
         NEW u \in Udps, NEW a \in Addrs, NEW packet \in ClientPackets,
         udp[u].owner \in Members, OnUdpReceive(u, a, packet)
  PROVE  /\ UNCHANGED <<member, udp, pmVars, subs_map>>
         /\ udp[u].state = "open"
         /\ transport' \in [Transports -> TransportStates]
         /\ \A t \in Transports :
              \/ transport'[t] = transport[t]
              \/ /\ t = <<udp[u].owner, a>>
                 /\ transport[t].session = "none"
                 /\ transport'[t].session # "none"
                 /\ transport'[t].udp = u
  <1> DEFINE m == udp[u].owner
             t == <<m, a>>
  <1>1. /\ UNCHANGED <<member, udp, pmVars, subs_map>>
        /\ udp[u].state = "open"
    BY DEF OnUdpReceive, OnStun, OnDtls, OnMedia, AddStream, streamVars
  <1>2. \/ UNCHANGED transport
        \/ /\ transport[t].session = "none"
           /\ \E s \in {"keyless", "keyed"} :
                transport' = [transport EXCEPT ![t] = [session |-> s, udp |-> u]]
    BY DEF OnUdpReceive, OnStun, OnDtls, OnMedia, Create, SetSrtpParam
  <1>3. t \in Transports
    BY DEF Transports
  <1> HIDE DEF m
  <1>4. /\ transport' \in [Transports -> TransportStates]
        /\ \A s \in Transports :
              \/ transport'[s] = transport[s]
              \/ /\ s = t
                 /\ transport[s].session = "none"
                 /\ transport'[s].session # "none"
                 /\ transport'[s].udp = u
    <2>1. CASE UNCHANGED transport
      BY <2>1
    <2>2. CASE ~ UNCHANGED transport
      <3>1. PICK kind \in {"keyless", "keyed"} :
              transport' = [transport EXCEPT ![t] = [session |-> kind, udp |-> u]]
        BY <1>2, <2>2
      <3>2. transport[t].session = "none"
        BY <1>2, <2>2
      <3> QED BY <3>1, <3>2, <1>3 DEF TransportStates
    <2> QED BY <2>1, <2>2
  <1> QED BY <1>1, <1>4 DEF m

(* Every move keeps members, sockets and transports together. *)
LEMMA MoveSockets ==
  ASSUME RoomInv, SocketInv, Moves
  PROVE  SocketInv'
  <1> USE DEF SocketInv, SocketTypes
  <1>0. /\ member \in [Members -> MemberStates]
        /\ \A m \in Members : member[m].answer \in Nat
        /\ None \notin Udps
    BY ObjectNumbers, NoneIsNothing DEF RoomInv, RoomTypes, MemberStates
  <1>1. CASE UNCHANGED <<memberVars, streamVars, pmVars>>
    BY <1>1 DEF memberVars, SocketOwned, ReceiverOpen, SendsOnOwn
  <1>2. ASSUME NEW m \in Members, NEW uid \in Uids, Joined(m, uid)
        PROVE  SocketInv'
    <2>1. /\ member[m].state = "unused"
          /\ member'[m] = NewMember(uid)
          /\ \A n \in Members : n # m => member'[n] = member[n]
          /\ UNCHANGED <<udp, transport>>
      BY <1>0, <1>2 DEF Joined
    <2>2. member'[m].receiver = None /\ member'[m].answer = 0
      BY <2>1 DEF NewMember
    <2>3. \A u \in Udps : SocketOwned(u)'
      BY <2>1 DEF SocketOwned
    <2>4. \A n \in Members : ReceiverOpen(n)'
      BY <2>1, <2>2 DEF ReceiverOpen
    <2>5. \A t \in Transports : SendsOnOwn(t)'
      BY <2>1 DEF SendsOnOwn
    <2> QED BY <2>1, <2>3, <2>4, <2>5
  <1>3. ASSUME NEW m \in Members, NEW offer \in ClientOffers, Offered(m, offer)
        PROVE  SocketInv'
    <2>0. PICK port \in Pool \union {NoPort}, u \in Udps, fp \in FpAfter(member[m].fp, offer) :
            AnswerFacts(m, port, u, fp)
      BY <1>0, <1>3, Answered DEF Offered
    <2>1. /\ udp[u].state = "unused"
          /\ udp'[u] = [state |-> "open", port |-> port, owner |-> m]
          /\ \A v \in Udps : v # u => udp'[v] = udp[v]
          /\ udp' \in [Udps -> UdpStates]
          /\ member'[m].state = member[m].state
          /\ member'[m].answer = member[m].answer + 1
          /\ member'[m].port = port
          /\ member'[m].receiver = u
          /\ \A n \in Members : n # m => member'[n] = member[n]
          /\ transport' = transport
      BY <2>0 DEF AnswerFacts
    <2>2. member[m].state = "live" /\ member'[m].answer > 0
      BY <1>0, <1>3, <2>1 DEF Offered
    <2>3. \A v \in Udps : SocketOwned(v)'
      BY <2>1, <2>2 DEF SocketOwned
    <2>4. \A n \in Members : ReceiverOpen(n)'
      <3> TAKE n \in Members
      <3>1. CASE n = m
        BY <3>1, <2>1, <1>0 DEF ReceiverOpen
      <3>2. CASE n # m
        <4>1. member[n].receiver # None => member[n].receiver \in Udps
          BY <1>0 DEF MemberStates
        <4>2. member[n].receiver # u
          BY <2>1, <1>0, <4>1 DEF ReceiverOpen
        <4> QED BY <3>2, <4>1, <4>2, <2>1 DEF ReceiverOpen
      <3> QED BY <3>1, <3>2
    <2>5. \A t \in Transports : SendsOnOwn(t)'
      BY <2>1 DEF SendsOnOwn
    <2> QED BY <2>1, <2>3, <2>4, <2>5
  <1>4. ASSUME NEW m \in Members, NEW offer \in ClientOffers, Refused(m, offer)
        PROVE  SocketInv'
    <2>1. PICK fp \in FpAfter(member[m].fp, offer) :
            /\ member' = [member EXCEPT ![m].fp = fp]
            /\ UNCHANGED <<udp, transport>>
      BY <1>4 DEF Refused
    <2>2. \A n \in Members :
            /\ member'[n].state = member[n].state
            /\ member'[n].answer = member[n].answer
            /\ member'[n].receiver = member[n].receiver
            /\ member'[n].port = member[n].port
      BY <1>0, <2>1 DEF MemberStates
    <2> QED BY <2>1, <2>2 DEF SocketOwned, ReceiverOpen, SendsOnOwn
  <1>5. ASSUME NEW m \in Members, member[m].state = "live", ReleaseMember(m)
        PROVE  SocketInv'
    <2>1. /\ member'[m].state = "freed" /\ member'[m].receiver = None
          /\ member'[m].answer = member[m].answer
          /\ \A n \in Members : n # m => member'[n] = member[n]
          /\ udp' \in [Udps -> UdpStates]
          /\ \A u \in Udps : /\ udp'[u].owner = udp[u].owner
                             /\ udp'[u].port = udp[u].port
                             /\ udp'[u].state = IF u = member[m].receiver
                                                THEN "closing" ELSE udp[u].state
          /\ UNCHANGED transport
      BY <1>0, <1>5, Released
    <2>2. \A u \in Udps : SocketOwned(u)'
      <3> TAKE u \in Udps
      <3>1. CASE u = member[m].receiver
        BY <3>1, <2>1, <1>0 DEF SocketOwned, ReceiverOpen
      <3>2. CASE u # member[m].receiver
        BY <3>2, <2>1, <1>5 DEF SocketOwned
      <3> QED BY <3>1, <3>2
    <2>3. \A n \in Members : ReceiverOpen(n)'
      <3> TAKE n \in Members
      <3>1. CASE n = m
        BY <3>1, <2>1 DEF ReceiverOpen
      <3>2. CASE n # m
        <4>1. member[n].receiver # None => member[n].receiver \in Udps
          BY <1>0 DEF MemberStates
        <4>2. member[n].receiver # None => member[n].receiver # member[m].receiver
          BY <3>2 DEF ReceiverOpen
        <4> QED BY <3>2, <4>1, <4>2, <2>1 DEF ReceiverOpen
      <3> QED BY <3>1, <3>2
    <2>4. \A t \in Transports : SendsOnOwn(t)'
      BY <2>1 DEF SendsOnOwn
    <2> QED BY <2>1, <2>2, <2>3, <2>4
  <1>6. ASSUME NEW u \in Udps, NEW a \in Addrs, NEW packet \in ClientPackets,
               Received(u, a, packet)
        PROVE  SocketInv'
    <2>1. udp[u].state = "open" /\ udp[u].owner \in Members
      BY <1>6 DEF Received, OnUdpReceive, SocketOwned
    <2>2. /\ UNCHANGED <<member, udp>>
          /\ transport' \in [Transports -> TransportStates]
          /\ \A t \in Transports :
               \/ transport'[t] = transport[t]
               \/ t = <<udp[u].owner, a>> /\ transport'[t].udp = u
      BY <1>6, <2>1, Delivered DEF Received
    <2>3. \A t \in Transports : SendsOnOwn(t)'
      BY <2>1, <2>2 DEF SendsOnOwn
    <2> QED BY <2>2, <2>3 DEF SocketOwned, ReceiverOpen
  <1>7. ASSUME NEW u \in Udps, Deleter(u)
        PROVE  SocketInv'
    <2>1. /\ udp[u].state = "closing"
          /\ udp' = [udp EXCEPT ![u].state = "deleted"]
          /\ UNCHANGED <<member, transport>>
      BY <1>7 DEF Deleter
    <2>2. /\ udp' \in [Udps -> UdpStates]
          /\ \A v \in Udps : /\ udp'[v].owner = udp[v].owner
                             /\ udp'[v].port = udp[v].port
                             /\ udp'[v].state = IF v = u THEN "deleted" ELSE udp[v].state
      BY <2>1 DEF UdpStates
    <2>3. \A v \in Udps : SocketOwned(v)'
      BY <2>1, <2>2 DEF SocketOwned
    <2>4. \A m \in Members : member[m].receiver # None => member[m].receiver \in Udps
      BY <1>0 DEF MemberStates
    <2>5. \A m \in Members : ReceiverOpen(m)'
      BY <2>1, <2>2, <2>4 DEF ReceiverOpen
    <2>6. \A t \in Transports : SendsOnOwn(t)'
      BY <2>1, <2>2 DEF SendsOnOwn
    <2> QED BY <2>1, <2>2, <2>3, <2>5, <2>6
  <1> QED BY <1>1, <1>2, <1>3, <1>4, <1>5, <1>6, <1>7 DEF Moves

(* The inductive invariant that the results on ports and media rest on. *)
BaseInv == RoomInv /\ ConnTypes /\ SocketInv

LEMMA BaseInit == Init => BaseInv
  BY InitRooms, InitSockets DEF Init, SignalingInit, ConnTypes, BaseInv

LEMMA BaseStep == BaseInv /\ [Next]_vars => BaseInv'
  BY StepRooms, StepConns, StepMoves, MoveSockets DEF BaseInv, ConnTypes

(* A member that may still offer for the first time has no socket. *)
LEMMA UnansweredHasNoSocket ==
  ASSUME RoomInv, SocketInv, NEW m \in Members, member[m].answer = 0
  PROVE  /\ member[m].receiver = None
         /\ \A u \in Udps : udp[u].state # "unused" => udp[u].owner # m
         /\ \A t \in Transports : t[1] = m => transport[t].session = "none"
  <1>1. \A u \in Udps : udp[u].state # "unused" => udp[u].owner # m
    BY DEF SocketInv, SocketOwned
  <1>2. member[m].receiver = None
    <2>1. member[m].receiver # None => member[m].receiver \in Udps
      BY DEF RoomInv, RoomTypes, MemberStates
    <2> QED BY <1>1, <2>1 DEF SocketInv, ReceiverOpen
  <1>3. \A t \in Transports : t[1] = m => transport[t].session = "none"
    BY <1>1 DEF SocketInv, SendsOnOwn
  <1> QED BY <1>1, <1>2, <1>3

(* A socket is open only as the receiver of a live member. *)
ReceiversOnly ==
  \A u \in Udps : udp[u].state = "open" =>
     /\ member[udp[u].owner].state = "live"
     /\ member[udp[u].owner].receiver = u

LEMMA OrphansApart == ReceiversOnly <=> ~ OrphanSocket
  BY DEF ReceiversOnly, OrphanSocket, Orphan

(* It stays so when every member sends one offer. *)
LEMMA OneOfferNoOrphan ==
  ASSUME RoomInv, SocketInv, MaxOffers <= 1, ReceiversOnly, Moves
  PROVE  ReceiversOnly'
  <1>0. /\ member \in [Members -> MemberStates] /\ udp \in [Udps -> UdpStates]
        /\ \A m \in Members : member[m].answer \in Nat
        /\ None \notin Udps
    BY ObjectNumbers, NoneIsNothing DEF RoomInv, RoomTypes, MemberStates, SocketInv, SocketTypes
  <1>1. \A u \in Udps : udp[u].state = "open" =>
           /\ udp[u].owner \in Members
           /\ member[udp[u].owner].state = "live"
           /\ member[udp[u].owner].receiver = u
    BY DEF ReceiversOnly, SocketInv, SocketOwned
  <1>2. CASE UNCHANGED <<memberVars, streamVars, pmVars>>
    BY <1>1, <1>2 DEF memberVars, ReceiversOnly
  <1>3. ASSUME NEW m \in Members, NEW uid \in Uids, Joined(m, uid)
        PROVE  ReceiversOnly'
    <2>1. /\ member[m].state = "unused"
          /\ \A n \in Members : n # m => member'[n] = member[n]
          /\ UNCHANGED udp
      BY <1>0, <1>3 DEF Joined
    <2> QED BY <1>1, <2>1 DEF ReceiversOnly
  <1>4. ASSUME NEW m \in Members, NEW offer \in ClientOffers, Offered(m, offer)
        PROVE  ReceiversOnly'
    <2>1. PICK port \in Pool \union {NoPort}, u \in Udps, fp \in FpAfter(member[m].fp, offer) :
            AnswerFacts(m, port, u, fp)
      BY <1>0, <1>4, Answered DEF Offered
    <2>2. member[m].answer = 0 /\ member[m].state = "live"
      BY <1>0, <1>4, ClientRules DEF Offered
    <2>3. \A v \in Udps : udp[v].state # "unused" => udp[v].owner # m
      BY <2>2, UnansweredHasNoSocket
    <2>4. /\ udp'[u].owner = m
          /\ \A v \in Udps : v # u => udp'[v] = udp[v]
          /\ member'[m].state = member[m].state /\ member'[m].receiver = u
          /\ \A n \in Members : n # m => member'[n] = member[n]
      BY <2>1 DEF AnswerFacts
    <2> QED BY <1>1, <2>2, <2>3, <2>4 DEF ReceiversOnly
  <1>5. ASSUME NEW m \in Members, NEW offer \in ClientOffers, Refused(m, offer)
        PROVE  ReceiversOnly'
    <2>1. PICK fp \in FpAfter(member[m].fp, offer) :
            /\ member' = [member EXCEPT ![m].fp = fp]
            /\ UNCHANGED udp
      BY <1>5 DEF Refused
    <2>2. \A n \in Members : /\ member'[n].state = member[n].state
                             /\ member'[n].receiver = member[n].receiver
      BY <1>0, <2>1 DEF MemberStates
    <2> QED BY <1>1, <2>1, <2>2 DEF ReceiversOnly
  <1>6. ASSUME NEW m \in Members, ReleaseMember(m)
        PROVE  ReceiversOnly'
    <2>1. /\ \A n \in Members : n # m => member'[n] = member[n]
          /\ \A u \in Udps : /\ udp'[u].owner = udp[u].owner
                             /\ udp'[u].state = IF u = member[m].receiver
                                                THEN "closing" ELSE udp[u].state
      BY <1>0, <1>6, Released
    <2> QED BY <1>1, <2>1 DEF ReceiversOnly
  <1>7. ASSUME NEW u \in Udps, NEW a \in Addrs, NEW packet \in ClientPackets,
               Received(u, a, packet)
        PROVE  UNCHANGED <<member, udp>>
    BY <1>7 DEF Received, OnUdpReceive, OnStun, OnDtls, OnMedia
  <1>8. ASSUME NEW u \in Udps, Deleter(u)
        PROVE  ReceiversOnly'
    <2>1. udp' = [udp EXCEPT ![u].state = "deleted"] /\ UNCHANGED member
      BY <1>8 DEF Deleter
    <2>2. \A v \in Udps : /\ udp'[v].owner = udp[v].owner
                          /\ udp'[v].state = IF v = u THEN "deleted" ELSE udp[v].state
      BY <1>0, <2>1 DEF UdpStates
    <2> QED BY <1>1, <2>1, <2>2 DEF ReceiversOnly
  <1>9. UNCHANGED <<member, udp>> => ReceiversOnly'
    BY <1>1 DEF ReceiversOnly
  <1> QED BY <1>2, <1>3, <1>4, <1>5, <1>6, <1>7, <1>8, <1>9 DEF Moves
=============================================================================
