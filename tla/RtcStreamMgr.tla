---------------------------- MODULE RtcStreamMgr ----------------------------
(***************************************************************************)
(* The process-wide table of media streams (udp/rtc_stream_mgr.cpp) and    *)
(* the subscriber map of each SrtpTransport that it edits.                 *)
(*                                                                         *)
(* All three maps are keyed by user id alone, not by room.  An entry that  *)
(* a map does not have is None.                                            *)
(***************************************************************************)
CONSTANTS Uids,
          Members,  \* RoomMember objects, numbered in the order of creation
          Addrs,    \* remote addresses
          None

(* A member has at most one SrtpTransport for each remote address. *)
Transports == Members \X Addrs

VARIABLES subs_map,  \* RtcStreamMgr::_subs_map: uid -> the uid it pulls from
          streams,   \* RtcStreamMgr::_streams: uid -> its latest transport
          tsubs      \* SrtpTransport::_subs_map: transport -> uid -> transport

streamVars == <<subs_map, streams, tsubs>>

StreamInit ==
  /\ subs_map = [u \in Uids |-> None]
  /\ streams = [u \in Uids |-> None]
  /\ tsubs = [t \in Transports |-> [u \in Uids |-> None]]

AddSubscriber(uid, target) ==
  /\ subs_map' = [subs_map EXCEPT ![uid] = target]
  /\ UNCHANGED <<streams, tsubs>>

Link(uid, st, target, peer) ==
  [tsubs EXCEPT ![peer][uid] = st, ![st][target] = peer]

(* Mutants of add_stream: the peer is looked up under the user's own id; the
   streams are linked only by the first packet. *)
AddStreamOwnId(uid, st) ==
  /\ streams' = [streams EXCEPT ![uid] = st]
  /\ tsubs' = IF subs_map[uid] # None THEN Link(uid, st, uid, st) ELSE tsubs
  /\ UNCHANGED subs_map

AddStreamOnce(uid, st) ==
  LET target == subs_map[uid]
  IN  /\ streams' = [streams EXCEPT ![uid] = st]
      /\ tsubs' = IF /\ streams[uid] # st
                     /\ target # None /\ streams'[target] # None
                  THEN Link(uid, st, target, streams'[target])
                  ELSE tsubs
      /\ UNCHANGED subs_map

(* Registers st and, if uid pulls from a user that already has a stream,
   subscribes the two transports to each other. *)
AddStream(uid, st) ==
  LET target == subs_map[uid]
  IN  /\ streams' = [streams EXCEPT ![uid] = st]
      /\ tsubs' = IF target # None /\ streams'[target] # None
                  THEN Link(uid, st, target, streams'[target])
                  ELSE tsubs
      /\ UNCHANGED subs_map

(* Only a user that pulls is unlinked; its entries in subs_map and streams stay. *)
RemoveSubscriber(uid) ==
  LET target == subs_map[uid]
      Cut(f, t, u) == IF t = None THEN f ELSE [f EXCEPT ![t][u] = None]
  IN  /\ tsubs' = IF target = None
                  THEN tsubs
                  ELSE Cut(Cut(tsubs, streams[uid], target), streams[target], uid)
      /\ UNCHANGED <<subs_map, streams>>
=============================================================================
