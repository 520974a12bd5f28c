-------------------------- MODULE SignalingHandle ---------------------------
(***************************************************************************)
(* The signaling server (signaling/wss_server.cpp, signaling_handle.cpp):  *)
(* web socket connections, rooms, and the commands join, publish and       *)
(* pullstream.  A map entry that is absent is None.  One callback of the   *)
(* event loop is one action.                                               *)
(***************************************************************************)
EXTENDS RoomMember, Offer

CONSTANTS Conns, Rooms

ASSUME NoneIsNoConn == None \notin Conns \union Rooms

VARIABLES conn,         \* WssServer::_conn_map: "new", "open" or "closed"
          connections,  \* SignalingHandle::_connections: connection -> room
          all_rooms,    \* the rooms in SignalingHandle::_all_rooms
          room_members, \* Room::members: uid -> member
          room_conns    \* Room::connections: uid -> connection

roomVars == <<connections, all_rooms, room_members, room_conns>>

SignalingInit ==
  /\ conn = [c \in Conns |-> "new"]
  /\ connections = [c \in Conns |-> None]
  /\ all_rooms = {}
  /\ room_members = [r \in Rooms |-> [u \in Uids |-> None]]
  /\ room_conns = [r \in Rooms |-> [u \in Uids |-> None]]

OnNewConnection(c) ==
  /\ conn[c] = "new"
  /\ conn' = [conn EXCEPT ![c] = "open"]
  /\ UNCHANGED <<roomVars, memberVars, streamVars, pmVars>>

AddMember(c, r, uid) ==
  /\ \E m \in Members :
       /\ Fresh(member, m)
       /\ member' = [member EXCEPT ![m] = NewMember(uid)]
       /\ room_members' = [room_members EXCEPT ![r][uid] = m]
  /\ all_rooms' = all_rooms \union {r}
  /\ room_conns' = [room_conns EXCEPT ![r][uid] = c]
  /\ UNCHANGED <<handles, transport, udp, srtp_init, forwarded, up>>
  /\ UNCHANGED <<conn, streamVars, pmVars>>

(* Mutants of handle_join: the room of the connection is not remembered; a
   second join with the same uid replaces the member. *)
HandleJoinUnregistered(c, r, uid) ==
  /\ conn[c] = "open" /\ room_members[r][uid] = None
  /\ AddMember(c, r, uid)
  /\ UNCHANGED connections

HandleJoinReplaces(c, r, uid) ==
  /\ conn[c] = "open"
  /\ AddMember(c, r, uid)
  /\ connections' = [connections EXCEPT ![c] = r]

(* handle_join.  A uid that is in the room already changes nothing. *)
HandleJoin(c, r, uid) ==
  /\ conn[c] = "open"
  /\ room_members[r][uid] = None
  /\ AddMember(c, r, uid)
  /\ connections' = [connections EXCEPT ![c] = r]

(* The end of handle_publish and handle_pull: a port, an answer, a socket.
   A pool without ports makes port 0, which is not looked at. *)
Answer(m, offer) ==
  \E port \in Pool \union {NoPort}, u \in Udps, fp \in FpAfter(member[m].fp, offer) :
    /\ AllocatePort(port)
    /\ StartRecv([member EXCEPT ![m].fp = fp, ![m].answer = @ + 1], m, port, u)
    /\ UNCHANGED <<handles, transport, srtp_init, forwarded, up>>

HandlePublish(r, uid, offer) ==
  LET m == room_members[r][uid]
  IN  /\ r \in all_rooms
      /\ m # None
      /\ IF Parses(offer)
         THEN Answer(m, offer)
         ELSE /\ \E fp \in FpAfter(member[m].fp, offer) :
                    member' = [member EXCEPT ![m].fp = fp]
              /\ UNCHANGED <<handles, transport, udp, srtp_init, forwarded, up, pmVars>>
      /\ UNCHANGED <<conn, roomVars, streamVars>>

(* handle_pull goes on when the offer does not parse. *)
HandlePull(r, uid, remote, offer) ==
  LET m == room_members[r][uid]
  IN  /\ r \in all_rooms
      /\ m # None
      /\ room_members[r][remote] # None
      /\ AddSubscriber(uid, remote)
      /\ Answer(m, offer)
      /\ UNCHANGED <<conn, roomVars>>

(* on_connection_close and SignalingHandle::remove.  Only the room joined
   last is searched, and only the first entry found there is removed. *)
OnConnectionClose(c) ==
  LET r == connections[c]
      mine == { u \in Uids : r # None /\ room_conns[r][u] = c }
  IN  /\ conn[c] = "open"
      /\ conn' = [conn EXCEPT ![c] = "closed"]
      /\ connections' = [connections EXCEPT ![c] = None]
      /\ IF mine = {}
         THEN UNCHANGED <<room_members, room_conns, memberVars, streamVars, pmVars>>
         ELSE \E u \in mine :
                /\ IF room_members[r][u] # None
                   THEN ReleaseMember(room_members[r][u])
                   ELSE UNCHANGED <<memberVars, streamVars, pmVars>>
                /\ room_members' = [room_members EXCEPT ![r][u] = None]
                /\ room_conns' = [room_conns EXCEPT ![r][u] = None]
      /\ UNCHANGED all_rooms
=============================================================================
