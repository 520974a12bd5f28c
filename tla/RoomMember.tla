----------------------------- MODULE RoomMember -----------------------------
(***************************************************************************)
(* A member of a room (signaling/room_member.cpp): its UDP socket          *)
(* (udp/udp_receiver.cpp), and what it keeps for each remote address that  *)
(* sends to it: the ICE connection, the DTLS connection and the SRTP       *)
(* transport.                                                              *)
(*                                                                         *)
(* Objects are numbered in the order of their creation and are never       *)
(* reused, so that a pointer to a freed object stays recognisable:         *)
(*   member m     a RoomMember; "live" while its room refers to it         *)
(*   socket u     a uvcore::Udp; "open", then "closing" until the loop     *)
(*                runs the close callback, which deletes it                *)
(*   <<m, a>>     the SrtpTransport of member m for remote address a       *)
(*                                                                         *)
(* DTLS appears by what the other objects see of it: a connection is       *)
(* absent, handshaking, connected (keys can be exported), closed by the    *)
(* peer or failed.                                                         *)
(*                                                                         *)
(* up turns FALSE when the code dereferences a null or freed object and    *)
(* the process dies.  Where the outcome of a use after free is open, so is *)
(* up'.                                                                    *)
(***************************************************************************)
EXTENDS UdpPortManager, RtcStreamMgr, DtlsSession, FiniteSets

CONSTANT Udps  \* bound, like Members: the objects created in a behaviour

ASSUME ObjectNumbers == Members \subseteq Nat /\ Udps \subseteq Nat
ASSUME NoneIsNothing == None \notin Uids \union Nat \union (Nat \X Addrs)

VARIABLES member,     \* RoomMember objects
          handles,    \* RoomMember::udp_handles: ice and dtls, per address
          transport,  \* MemberUdpPorts::srtp and the socket it sends with
          udp,        \* uvcore::Udp objects
          srtp_init,  \* SrtpTransport::_srtp_init (static)
          forwarded,  \* history: <<t, s>> if s has sent on a packet of t
          up

memberVars == <<member, handles, transport, udp, srtp_init, forwarded, up>>

(***************************************************************************)
(* fp describes media_contents[0] of the offer, which parse_sdp appends to *)
(* and never clears: "empty" (no media), "nodtls" (no fingerprint line),   *)
(* "nofp" (an unusable fingerprint), "set".  answer counts the answers     *)
(* created, each with a new ICE password; ice is the answer whose password *)
(* an ICE connection uses, 0 if there is none.                             *)
(***************************************************************************)
NewMember(uid) ==
  [state |-> "live", uid |-> uid, fp |-> "empty", answer |-> 0,
   receiver |-> None, port |-> NoPort]

NoHandle == [ice |-> 0, dtls |-> "none"]

MemberInit ==
  /\ member = [m \in Members |-> [NewMember(None) EXCEPT !.state = "unused"]]
  /\ handles = [m \in Members |-> [a \in Addrs |-> NoHandle]]
  /\ transport = [t \in Transports |-> [session |-> "none", udp |-> None]]
  /\ udp = [u \in Udps |-> [state |-> "unused", port |-> NoPort, owner |-> None]]
  /\ srtp_init = FALSE
  /\ forwarded = {}
  /\ up = TRUE

Fresh(f, i) ==
  /\ f[i].state = "unused"
  /\ \A j \in DOMAIN f : f[j].state = "unused" => i <= j

-----------------------------------------------------------------------------
(* start_recv: the socket that the member had before is left bound. *)
StartRecv(mem, m, port, u) ==
  /\ Fresh(udp, u)
  /\ udp' = [udp EXCEPT ![u] = [state |-> "open", port |-> port, owner |-> m]]
  /\ member' = [mem EXCEPT ![m].port = port, ![m].receiver = u]

(* Mutant: the port is not given back. *)
StopRecvKeepPort(m) ==
  LET u == member[m].receiver
  IN  /\ udp' = IF u = None THEN udp ELSE [udp EXCEPT ![u].state = "closing"]
      /\ UNCHANGED pmVars

(* Mutant: the streams are not told that the member goes. *)
DestoryStreamsKept(m) == UNCHANGED streamVars

(* stop_recv, destory and the release of the member by its room.  destory
   also silences the member's DTLS connections, which die with the member. *)
StopRecv(m) ==
  LET u == member[m].receiver
  IN  IF u = None
      THEN UNCHANGED <<pmVars, udp>>
      ELSE /\ udp' = [udp EXCEPT ![u].state = "closing"]
           /\ RecyclePort(member[m].port)

Destory(m) == RemoveSubscriber(member[m].uid)

ReleaseMember(m) ==
  /\ StopRecv(m)
  /\ Destory(m)
  /\ member' = [member EXCEPT ![m].state = "freed", ![m].receiver = None]
  /\ UNCHANGED <<handles, transport, srtp_init, forwarded, up>>

(* UdpReceiver::deleter, called by the loop after the close. *)
Deleter(u) ==
  /\ udp[u].state = "closing"
  /\ udp' = [udp EXCEPT ![u].state = "deleted"]
  /\ UNCHANGED <<member, handles, transport, srtp_init, forwarded, up>>
  /\ UNCHANGED <<streamVars, pmVars>>

-----------------------------------------------------------------------------
(* on_udp_receive for a STUN packet that passes validate. *)
OnStun(m, a) ==
  /\ handles' = IF handles[m][a].ice # 0
                THEN handles
                ELSE [handles EXCEPT ![m][a].ice = member[m].answer]
  /\ UNCHANGED <<member, transport, udp, srtp_init, forwarded, up, streamVars>>

(* on_udp_receive for a DTLS packet: the first one sets the connection up
   from the fingerprint of the first media section, then the packet goes to
   handle_dtls, which advances the session as DtlsSession says. *)
OnDtls(m, a) ==
  LET d == handles[m][a].dtls
      fp == member[m].fp
      SetDtls(n) == handles' = [handles EXCEPT ![m][a].dtls = n]
  IN  /\ \/ /\ d = "none" /\ fp \in {"empty", "nodtls"}
            /\ up' = FALSE       \* media_contents[0] or its dtls is not there
            /\ UNCHANGED handles
         \/ /\ d = "none" /\ fp = "nofp"
            /\ UNCHANGED <<handles, up>>
         \/ /\ d # "none" \/ fp = "set"
            /\ \E n \in DtlsAfter(d) : SetDtls(n)
            /\ UNCHANGED up
      /\ UNCHANGED <<member, transport, udp, srtp_init, forwarded, streamVars>>

-----------------------------------------------------------------------------
(* on_rtp_packet or on_rtcp_packet of every subscriber of t: protect with the
   subscriber's _send_session, then send2 on its socket. *)
Receivers(t) == { tsubs'[t][v] : v \in { w \in Uids : tsubs'[t][w] # None } }

SendToSubscribers(t) ==
  LET keyless == { s \in Receivers(t) : transport'[s].session = "keyless" }
      deleted == { s \in Receivers(t) : udp[transport'[s].udp].state = "deleted" }
  IN  /\ \/ keyless # {} /\ up' = FALSE            \* _send_session is null
         \/ keyless = {} /\ deleted # {} /\ up' \in BOOLEAN
         \/ keyless = {} /\ deleted = {} /\ UNCHANGED up
      /\ forwarded' = forwarded \union
            { <<t, s>> : s \in Receivers(t) \ (keyless \union deleted) }

(* handle_rtp_data or handle_rtcp_data of t.  authentic: the packet passes
   unprotect. *)
Relay(t, authentic) ==
  \/ /\ ~ srtp_init'
     /\ UNCHANGED <<forwarded, up>>
  \/ /\ srtp_init'
     /\ transport'[t].session = "keyless"
     /\ up' = FALSE                       \* _recv_session is null
     /\ UNCHANGED forwarded
  \/ /\ srtp_init'
     /\ transport'[t].session = "keyed"
     /\ IF authentic THEN SendToSubscribers(t) ELSE UNCHANGED <<forwarded, up>>

(* on_udp_receive for an RTP or RTCP packet.  The transport is created
   before its keys are asked for, and stays when there are none.
   extract_srtp_keys goes on with an unset cipher suite when the handshake is
   not done; if that passes for a suite, it then exports from an SSL object
   that has no keys yet or, after a close, is null.  set_srtp_param with the keys makes both sessions
   and, the first time, initialises libsrtp. *)
Create(t, u, session) ==
  transport' = [transport EXCEPT ![t] = [session |-> session, udp |-> u]]

SetSrtpParam(t, u) == Create(t, u, "keyed") /\ srtp_init' = TRUE

OnMedia(m, a, u, authentic) ==
  LET t == <<m, a>>
      d == handles[m][a].dtls
      first == transport[t].session = "none"
  IN  /\ \/ /\ d = "none"
            /\ UNCHANGED <<transport, srtp_init, forwarded, up, streamVars>>
         \/ /\ d \in {"connecting", "closed", "failed"} /\ first
            /\ Create(t, u, "keyless")
            /\ up' \in BOOLEAN
            /\ UNCHANGED <<srtp_init, forwarded, streamVars>>
         \/ /\ d # "none" /\ (d = "connected" \/ ~ first)
            /\ IF first THEN SetSrtpParam(t, u) ELSE UNCHANGED <<transport, srtp_init>>
            /\ AddStream(member[m].uid, t)
            /\ Relay(t, authentic)
      /\ UNCHANGED <<member, handles, udp>>

(* A packet that reaches socket u from address a.  The callbacks hold plain
   pointers to the receiver and the member: if the member has replaced or
   lost the receiver, the process dies or goes on with the freed objects. *)
Orphan(u) ==
  LET m == udp[u].owner
  IN  member[m].state # "live" \/ member[m].receiver # u

Packets == {"stun", "dtls", "media", "garbled"}

OnUdpReceive(u, a, packet) ==
  LET m == udp[u].owner
  IN  /\ udp[u].state = "open"
      /\ \/ /\ Orphan(u)
            /\ up' = FALSE
            /\ UNCHANGED <<member, handles, transport, udp, srtp_init, forwarded>>
            /\ UNCHANGED streamVars
         \/ packet = "stun" /\ OnStun(m, a)
         \/ packet = "dtls" /\ OnDtls(m, a)
         \/ packet = "media" /\ OnMedia(m, a, u, TRUE)
         \/ packet = "garbled" /\ OnMedia(m, a, u, FALSE)
      /\ UNCHANGED pmVars
=============================================================================
