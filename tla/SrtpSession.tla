---------------------------- MODULE SrtpSession -----------------------------
(***************************************************************************)
(* SrtpSession and the calls SrtpTransport makes on it: keying, where any  *)
(* call of libsrtp may fail and nobody looks at the result, and the way of *)
(* one packet from a publisher's transport to a subscriber's.              *)
(*                                                                         *)
(* libsrtp is external: a context has a suite and a key; protecting adds   *)
(* the suite's tag (and an index, for RTCP), unprotecting takes them off   *)
(* when context and packet agree.                                          *)
(***************************************************************************)
EXTENDS Integers

CONSTANTS Transports,   \* transports of the process
          Suites,       \* crypto suites a handshake may select
          SrtpKeys,     \* keys
          PacketLens,   \* lengths of plain packets
          MaxKeyings    \* calls of set_srtp_param

ASSUME SrtpConstants == PacketLens \subseteq Nat

VARIABLES
  srtpInit,     \* SrtpTransport::_srtp_init, one for the process
  sendSession,  \* sendSession[t]: _send_session, NoSession if not made
  recvSession,  \* recvSession[t]: _recv_session
  asked,        \* asked[t]: history, the suite and keys of the calls of set_srtp_param
  initFailed,   \* srtp_init or the installation of the handler failed once
  keyings,      \* set_srtp_param calls so far
  out,          \* what the last relayed packet became
  derefs        \* transports whose missing session was used

srtpVars == <<srtpInit, sendSession, recvSession, asked, initFailed, keyings, out, derefs>>

(* Tags of the suites (profiles of libsrtp); a suite that is none of them is
   refused. *)
RtpTag(cs)  == CASE cs = "sha1_80" -> 10 [] cs = "sha1_32" -> 4  [] cs = "gcm" -> 16
RtcpTag(cs) == CASE cs = "sha1_80" -> 10 [] cs = "sha1_32" -> 10 [] cs = "gcm" -> 16
KeyLen(cs)  == CASE cs = "sha1_80" -> 30 [] cs = "sha1_32" -> 30 [] cs = "gcm" -> 28
Supported == {"sha1_80", "sha1_32", "gcm"}
IndexLen == 4     \* sizeof(uint32_t)

NoSession == [made |-> FALSE, suite |-> "none", key |-> "none", rtpTag |-> 0, rtcpTag |-> 0]
NewSession == [NoSession EXCEPT !.made = TRUE]
HasContext(s) == s.suite # "none"

Nothing == [kind |-> "none", len |-> 0, plain |-> 0, suite |-> "none", key |-> "none", cap |-> 0,
            refused |-> FALSE]

SrtpInit ==
  /\ srtpInit = FALSE /\ initFailed = FALSE
  /\ asked = [t \in Transports |-> {}]
  /\ sendSession = [t \in Transports |-> NoSession]
  /\ recvSession = [t \in Transports |-> NoSession]
  /\ keyings = 0 /\ out = Nothing /\ derefs = {}

-----------------------------------------------------------------------------
(* set_key: an unknown suite, a key of the wrong length and a failing create or
   update leave the session as it was; otherwise context and tags follow the
   suite. *)
SetKey(s, cs, key, keyLen, ok) ==
  IF cs \in Supported /\ keyLen = KeyLen(cs) /\ ok
  THEN [s EXCEPT !.suite = cs, !.key = key, !.rtpTag = RtpTag(cs), !.rtcpTag = RtcpTag(cs)]
  ELSE s

Made(s) == IF s.made THEN s ELSE NewSession

Keying(cs, sendKey, recvKey) == [suite |-> cs, send |-> sendKey, recv |-> recvKey]

(* set_srtp_param: the library is initialised once; when the event handler
   cannot be installed the call ends, and is not tried again by a later one.
   set_send and set_recv succeed or fail each by itself, and nobody looks at
   their results; the caller, on_udp_receive, has one suite for both. *)
SetParam(t, cs, sendKey, recvKey, sendLen, recvLen, initOk, handlerOk, sendOk, recvOk) ==
  /\ derefs = {} /\ keyings < MaxKeyings
  /\ keyings' = keyings + 1
  /\ asked' = [asked EXCEPT ![t] = @ \union {Keying(cs, sendKey, recvKey)}]
  /\ \/ /\ ~srtpInit /\ ~(initOk /\ handlerOk)
        /\ srtpInit' = initOk
        /\ initFailed' = TRUE
        /\ UNCHANGED <<sendSession, recvSession>>
     \/ /\ srtpInit \/ (initOk /\ handlerOk)
        /\ srtpInit' = TRUE
        /\ sendSession' = [sendSession EXCEPT ![t] = SetKey(Made(@), cs, sendKey, sendLen, sendOk)]
        /\ recvSession' = [recvSession EXCEPT ![t] = SetKey(Made(@), cs, recvKey, recvLen, recvOk)]
        /\ UNCHANGED initFailed
  /\ out' = Nothing
  /\ UNCHANGED derefs

-----------------------------------------------------------------------------
ExtraLen(kind, suite) == IF kind = "rtp" THEN RtpTag(suite) ELSE RtcpTag(suite) + IndexLen

(* unprotect_rtp, unprotect_rtcp: 0 if there is no context or it does not fit
   the packet. *)
Unprotect(s, p) ==
  IF HasContext(s) /\ s.suite = p.suite /\ s.key = p.key
  THEN p.len - ExtraLen(p.kind, p.suite) ELSE 0

(* get_auth_tag_len, 0 without a context, and the buffer the transport makes for
   the packet from it: CopyOnWriteBuffer(data, len, capacity). *)
TagLen(s, kind) == IF HasContext(s) THEN (IF kind = "rtp" THEN s.rtpTag ELSE s.rtcpTag) ELSE 0

(* As Room, taking the tag of the other kind. *)
RoomOtherKind(s, kind, n) ==
  n + (IF kind = "rtp" THEN TagLen(s, "rtcp") ELSE TagLen(s, "rtp") + IndexLen)

Room(s, kind, n) ==
  n + (IF kind = "rtp" THEN TagLen(s, "rtp") ELSE TagLen(s, "rtcp") + IndexLen)

(* protect_rtp, protect_rtcp *)
Protect(s, kind, n, cap) ==
  LET need == n + (IF kind = "rtp" THEN s.rtpTag ELSE s.rtcpTag + IndexLen)
  IN  IF ~HasContext(s) \/ cap < need
      THEN [Nothing EXCEPT !.refused = HasContext(s)]
      ELSE [kind |-> kind, len |-> n + ExtraLen(kind, s.suite), plain |-> n,
            suite |-> s.suite, key |-> s.key, cap |-> cap, refused |-> FALSE]

(* handle_rtp_data, handle_rtcp_data of transport t and on_rtp_packet,
   on_rtcp_packet of its subscriber u.  Before the library is initialised both
   return; after it a session is used without a look at whether it exists. *)
Relay(t, u, p) ==
  LET n == Unprotect(recvSession[t], p)
  IN  /\ derefs = {}
      /\ IF ~srtpInit
         THEN out' = Nothing /\ UNCHANGED derefs
         ELSE /\ derefs' = (IF recvSession[t].made THEN {} ELSE {t})
                           \union (IF n > 0 /\ ~sendSession[u].made THEN {u} ELSE {})
              /\ out' = IF n > 0 /\ sendSession[u].made
                        THEN Protect(sendSession[u], p.kind, n, Room(sendSession[u], p.kind, n))
                        ELSE Nothing
      /\ UNCHANGED <<srtpInit, sendSession, recvSession, asked, initFailed, keyings>>

(* A packet protected by the peer. *)
PeerPacket(kind, n, suite, key) ==
  [kind |-> kind, len |-> n + ExtraLen(kind, suite), suite |-> suite, key |-> key]

SrtpNext ==
  \/ \E t \in Transports, cs \in Suites, sk, rk \in SrtpKeys, sl, rl \in {28, 30},
        initOk, handlerOk, sendOk, recvOk \in BOOLEAN :
       SetParam(t, cs, sk, rk, sl, rl, initOk, handlerOk, sendOk, recvOk)
  \/ \E t, u \in Transports, kind \in {"rtp", "rtcp"}, n \in PacketLens,
        suite \in Suites \intersect Supported, key \in SrtpKeys :
       t # u /\ Relay(t, u, PeerPacket(kind, n, suite, key))

SrtpSpec == SrtpInit /\ [][SrtpNext]_srtpVars

-----------------------------------------------------------------------------
(* What leaves the server is the packet the publisher sent, protected for the
   subscriber and inside the buffer made for it: whatever keyings failed before,
   the tag length a session reports is the one its context uses, so a session
   with a context never refuses a packet.  A transport may be left keyed on one
   side, or with its sides keyed by different calls; still each side works with a
   suite and a key that one call gave to that side of that transport, never with
   the other side's, another transport's or half of two calls'.  A session that
   is missing is used only by a transport that was not keyed while another one
   was, or after the initialisation failed: set_srtp_param then ends early, and
   its result is ignored (srtp_transport.cpp:97). *)
SidesKeyed ==
  \A t \in Transports :
    /\ HasContext(sendSession[t]) =>
         \E c \in asked[t] : c.suite = sendSession[t].suite /\ c.send = sendSession[t].key
    /\ HasContext(recvSession[t]) =>
         \E c \in asked[t] : c.suite = recvSession[t].suite /\ c.recv = recvSession[t].key

SrtpCarriesPackets ==
  /\ SidesKeyed
  /\ ~out.refused
  /\ out.len <= out.cap
  /\ out.kind # "none" => out.len - ExtraLen(out.kind, out.suite) = out.plain
  /\ \A t \in derefs : asked[t] = {} \/ initFailed
=============================================================================
