-------------------------------- MODULE Sfu ---------------------------------
(***************************************************************************)
(* The whole server with its clients.  The handlers are those of the       *)
(* components; what the clients do is limited by the constants below, so   *)
(* that the same system is checked once as readme.md says it is used and   *)
(* once with every command the code accepts.                               *)
(***************************************************************************)
EXTENDS SignalingHandle

CONSTANTS
  Publishers,     \* users that publish
  Pullers,        \* users that pull
  ClientOffers,   \* the offers clients send
  ClientPackets,  \* the packets clients send
  MaxOffers,      \* bound: publish and pullstream commands per member
  JoinOnce,       \* a connection sends one join
  MediaTiming     \* when a peer's media reaches the server: "ordered",
                  \* after its handshake and before its close;
                  \* "reordered", perhaps after its close; "any"

ASSUME ClientRules ==
  /\ Publishers \subseteq Uids /\ Pullers \subseteq Uids
  /\ ClientOffers \subseteq Offers /\ ClientPackets \subseteq Packets
  /\ MaxOffers \in Nat
  /\ JoinOnce \in BOOLEAN
  /\ MediaTiming \in {"ordered", "reordered", "any"}

vars == <<pmVars, streamVars, memberVars, conn, roomVars>>

Init ==
  /\ PmInit
  /\ StreamInit
  /\ MemberInit
  /\ SignalingInit

-----------------------------------------------------------------------------
InRoom(r, uid) == room_members[r][uid] # None

MayOffer(r, uid) ==
  /\ InRoom(r, uid)
  /\ member[room_members[r][uid]].answer < MaxOffers

Join(c, r, uid) ==
  /\ up
  /\ JoinOnce => connections[c] = None
  /\ HandleJoin(c, r, uid)

Publish(r, uid, offer) ==
  /\ up
  /\ uid \in Publishers
  /\ MayOffer(r, uid)
  /\ HandlePublish(r, uid, offer)

Pull(r, uid, remote, offer) ==
  /\ up
  /\ uid \in Pullers /\ remote \in Publishers \ {uid}
  /\ MayOffer(r, uid)
  /\ HandlePull(r, uid, remote, offer)

Close(c) == up /\ OnConnectionClose(c)

NewConnection(c) == up /\ OnNewConnection(c)

MediaInTime(m, a) ==
  \/ MediaTiming = "any"
  \/ handles[m][a].dtls = "connected"
  \/ MediaTiming = "reordered" /\ handles[m][a].dtls = "closed"
  \/ transport[<<m, a>>].session # "none"

(* A member answered with port 0 is bound to a port that no peer is told. *)
Receive(u, a, packet) ==
  /\ up
  /\ udp[u].state = "open" /\ udp[u].port # NoPort
  /\ packet \in {"media", "garbled"} => MediaInTime(udp[u].owner, a)
  /\ OnUdpReceive(u, a, packet)
  /\ UNCHANGED <<conn, roomVars>>

Delete(u) ==
  /\ up
  /\ Deleter(u)
  /\ UNCHANGED <<conn, roomVars>>

Next ==
  \/ \E c \in Conns : NewConnection(c) \/ Close(c)
  \/ \E c \in Conns, r \in Rooms, uid \in Uids : Join(c, r, uid)
  \/ \E r \in Rooms, uid \in Uids, offer \in ClientOffers :
        \/ Publish(r, uid, offer)
        \/ \E remote \in Uids : Pull(r, uid, remote, offer)
  \/ \E u \in Udps, a \in Addrs, packet \in ClientPackets : Receive(u, a, packet)
  \/ \E u \in Udps : Delete(u)

Spec == Init /\ [][Next]_vars

-----------------------------------------------------------------------------
(* Types and ranges of the state of all components. *)
TypeOK ==
  /\ port_array \in [Slots -> Pool \union {0}]
  /\ port_array_rec \in [Slots -> Pool \union {0}]
  /\ curr \in 0 .. Max /\ recycle \in 0 .. Max
  /\ subs_map \in [Uids -> Uids \union {None}]
  /\ streams \in [Uids -> Transports \union {None}]
  /\ tsubs \in [Transports -> [Uids -> Transports \union {None}]]
  /\ member \in [Members -> [state : {"unused", "live", "freed"},
                             uid : Uids \union {None},
                             fp : {"empty", "nodtls", "nofp", "set"},
                             answer : Nat,
                             receiver : Udps \union {None},
                             port : Pool \union {NoPort}]]
  /\ handles \in [Members -> [Addrs ->
                    [ice : Nat, dtls : Sessions]]]
  /\ transport \in [Transports -> [session : {"none", "keyless", "keyed"},
                                   udp : Udps \union {None}]]
  /\ udp \in [Udps -> [state : {"unused", "open", "closing", "deleted"},
                       port : Pool \union {NoPort},
                       owner : Members \union {None}]]
  /\ srtp_init \in BOOLEAN /\ up \in BOOLEAN
  /\ forwarded \subseteq Transports \X Transports
  /\ conn \in [Conns -> {"new", "open", "closed"}]
  /\ connections \in [Conns -> Rooms \union {None}]
  /\ all_rooms \subseteq Rooms
  /\ room_members \in [Rooms -> [Uids -> Members \union {None}]]
  /\ room_conns \in [Rooms -> [Uids -> Conns \union {None}]]

-----------------------------------------------------------------------------
BoundPorts == { udp[u].port : u \in { v \in Udps : udp[v].state = "open" } }

(***************************************************************************)
(* Two sockets are never bound to the same port, and no port that          *)
(* allocate_port may still return is bound, whatever mixture of repeated   *)
(* offers, port 0 and recycling went before.                               *)
(***************************************************************************)
PortsExclusive ==
  /\ \A u, v \in Udps :
        /\ udp[u].state = "open" /\ udp[v].state = "open"
        /\ udp[u].port = udp[v].port /\ udp[u].port # NoPort
        => u = v
  /\ ((Unused \union Returned) \ {NoPort}) \intersect BoundPorts = {}

(***************************************************************************)
(* As long as the pool was never exhausted, every port is free or bound:   *)
(* a repeated offer keeps a port bound, but nothing loses one.             *)
(***************************************************************************)
NeverExhausted ==
  \A u \in Udps : udp[u].state # "unused" => udp[u].port # NoPort

PortConservation ==
  NeverExhausted => Pool = Unused \union Returned \union BoundPorts

(* What the port manager believes of every port is true of the sockets. *)
PortsAccounted == PortsExclusive /\ PortConservation

(***************************************************************************)
(* The two maps of a room have the same users, and the member found under  *)
(* a uid is live, has that uid and is in no other place: remove, which     *)
(* searches one map and releases from the other, finds the right member.   *)
(***************************************************************************)
RoomsConsistent ==
  /\ \A r \in Rooms, u \in Uids :
       /\ (room_members[r][u] = None) <=> (room_conns[r][u] = None)
       /\ InRoom(r, u) => /\ r \in all_rooms
                          /\ member[room_members[r][u]].state = "live"
                          /\ member[room_members[r][u]].uid = u
  /\ \A m \in Members : member[m].state = "live" =>
       \E r \in Rooms : room_members[r][member[m].uid] = m
  /\ \A r, s \in Rooms, u \in Uids :
       InRoom(r, u) /\ room_members[r][u] = room_members[s][u] => r = s

(***************************************************************************)
(* A connection that is closed leaves no member behind (ghosts would make  *)
(* every later join of their uid a "join repeated").                       *)
(***************************************************************************)
NoGhostMembers ==
  \A r \in Rooms, u \in Uids :
     InRoom(r, u) => conn[room_conns[r][u]] = "open"

(***************************************************************************)
(* When everyone has left, every port is back in the pool and no socket is *)
(* open.                                                                   *)
(***************************************************************************)
AllReturned ==
  (\A c \in Conns : conn[c] # "open") =>
     /\ Unused \union Returned = Pool
     /\ \A u \in Udps : udp[u].state # "open"

(***************************************************************************)
(* No handler dereferences a null session, an absent media section, a      *)
(* freed receiver or a deleted socket.                                     *)
(***************************************************************************)
NoInvalidAccess == up

(***************************************************************************)
(* The same, but for one cause: a user that does not pull has left, and    *)
(* RtcStreamMgr still lists its stream (remove_subscriber returns early).  *)
(* A user that pulls can come and go without leaving a dead end behind.    *)
(* This is for users of one room that either publish or pull, offer once,  *)
(* and whose packets come from one address and follow their handshake.     *)
(***************************************************************************)
DepartedPublisher ==
  \E uid \in Uids : /\ subs_map[uid] = None
                    /\ \E m \in Members, a \in Addrs :
                         /\ member[m].uid = uid /\ member[m].state = "freed"
                         /\ transport[<<m, a>>].session = "keyed"

FaultNeedsDepartedPublisher == up \/ DepartedPublisher

(***************************************************************************)
(* Whatever offers and packets clients send, and however often, an invalid *)
(* access has one of four causes: the departed publisher, a transport      *)
(* created without keys, a socket left bound by a repeated offer, an offer *)
(* whose first media section has no fingerprint.  This is for users of one *)
(* room that either publish or pull and send from one address:             *)
(* RtcStreamMgr knows a stream by its uid and only the latest transport.   *)
(***************************************************************************)
KeylessTransport == \E t \in Transports : transport[t].session = "keyless"

OrphanSocket == \E u \in Udps : udp[u].state = "open" /\ Orphan(u)

NoFingerprint ==
  \E m \in Members : /\ member[m].answer > 0
                     /\ member[m].fp \in {"empty", "nodtls"}

FaultHasCause ==
  up \/ DepartedPublisher \/ KeylessTransport \/ OrphanSocket \/ NoFingerprint

(***************************************************************************)
(* Media passes only between a user that pulls and the user it pulls from, *)
(* in one room, for users with one address each that offer once.           *)
(***************************************************************************)
MediaFollowsPulls ==
  [][\A p \in forwarded' \ forwarded :
       LET from == member[p[1][1]].uid
           to   == member[p[2][1]].uid
       IN  subs_map[from] = to \/ subs_map[to] = from]_vars

-----------------------------------------------------------------------------
(***************************************************************************)
(* "After a new stream is established, the users in the subscription list  *)
(* should be added to the subscription" (rtc_stream_mgr.cpp:10): once a    *)
(* user and the one it pulls from both have a stream, the streams are      *)
(* linked.                                                                 *)
(***************************************************************************)
StreamsLinked ==
  \A v, w \in Uids :
     /\ subs_map[v] = w /\ streams[v] # None /\ streams[w] # None
     /\ member[streams[v][1]].state = "live" /\ member[streams[w][1]].state = "live"
     => tsubs[streams[w]][v] = streams[v]

(***************************************************************************)
(* GetDtlsSrtpCryptoSuite asserts state_ == SSL_CONNECTED                  *)
(* (openssl_stream_adapter.cc:499): on_udp_receive asks for the keys of a  *)
(* connection only when its handshake is done.                             *)
(***************************************************************************)
KeysAskedWhenConnected == ~ KeylessTransport

-----------------------------------------------------------------------------
(***************************************************************************)
(* Peers repeat RTP and RTCP for as long as they are connected, and the    *)
(* event loop dispatches each packet.                                      *)
(***************************************************************************)
Fairness ==
  \A u \in Udps, a \in Addrs : WF_vars(Receive(u, a, "media"))

FairSpec == Spec /\ Fairness

(* n pulls from m, and both have completed DTLS from their addresses. *)
Ready(m, a, n, b) ==
  /\ up
  /\ \A k \in {m, n} : member[k].state = "live" /\ member[k].port # NoPort
  /\ subs_map[member[n].uid] = member[m].uid
  /\ handles[m][a].dtls = "connected"
  /\ handles[n][b].dtls = "connected"

(***************************************************************************)
(* Whoever pulls gets the media of the publisher in the end, in whichever  *)
(* order the two streams come up: a subscriber that came first is linked   *)
(* by its own next packet.                                                 *)
(***************************************************************************)
PullerGetsMedia ==
  \A m, n \in Members, a, b \in Addrs :
     Ready(m, a, n, b) ~>
       (<< <<m, a>>, <<n, b>> >> \in forwarded \/ ~ Ready(m, a, n, b))
=============================================================================
