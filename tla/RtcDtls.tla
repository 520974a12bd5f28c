------------------------------ MODULE RtcDtls -------------------------------
(***************************************************************************)
(* One DTLS connection: RtcDtls with its DtlsStreamInterface               *)
(* (udp/rtc_dtls.cpp), the SSL stream adapter above it                     *)
(* (rtc_base/openssl_stream_adapter.cc) and the queue between the two      *)
(* (rtc_base/buffer_queue.cc), with the peer and the network.              *)
(*                                                                         *)
(* OpenSSL is external.  It appears as the adapter uses it: SSL_accept and *)
(* SSL_read take all records the queue holds, one after the other; a       *)
(* flight is repeated when a datagram arrives after its timer has expired, *)
(* and the last flight when the peer repeats its own.  The adapter's own   *)
(* timer (SetTimeout) is posted to an rtc::Thread that nobody runs, so it  *)
(* never fires and is no action here.                                      *)
(*                                                                         *)
(* A datagram is the sequence of its records.  Records of the peer:        *)
(*   hello, badhello    a ClientHello; one that SSL_accept refuses         *)
(*   finish, badfinish  its second flight; one with the wrong certificate  *)
(*   data, long         application data; longer than the read buffer      *)
(*   close, fatal       the alerts close_notify and fatal                  *)
(*   cut                a record that is longer than the rest of the       *)
(*                      datagram                                           *)
(* Datagrams of the server: <<"flight">>, <<"final">>, <<"close">>.        *)
(***************************************************************************)
EXTENDS DtlsSession, SequencesExt

CONSTANTS
  Capacity,      \* datagrams the queue holds (2048 in the code)
  StartResults,  \* what StartSSL may return: TRUE, FALSE
  Faults,        \* datagrams of a peer that gives up or is not compatible
  Traffic        \* datagrams a connected peer may send

Records == {"hello", "badhello", "finish", "badfinish", "data", "long", "close", "fatal", "cut"}

ASSUME DtlsConstants ==
  /\ Capacity \in Nat \ {0}
  /\ StartResults \subseteq BOOLEAN
  /\ Faults \subseteq Seq(Records) /\ Traffic \subseteq Seq(Records)

VARIABLES
  k_state,  \* RtcDtls::_state
  ssl,      \* OpenSSLStreamAdapter::state_
  hs,       \* what SSL_accept waits for
  que,      \* DtlsStreamInterface::_que
  stream,   \* DtlsStreamInterface::_state
  is_stop,  \* DtlsStreamInterface::_is_stop
  expired,  \* OpenSSL's timer for the flight has expired
  socket,   \* the member's UDP socket
  member,   \* how far SignalingHandle::remove has come with the member
  client,   \* the peer
  c2s, s2c  \* datagrams under way, which are lost, repeated and reordered

server == <<k_state, ssl, hs, que, stream, is_stop, expired, socket, member>>
vars == <<server, client, c2s, s2c>>

Init ==
  /\ k_state = "k_new" /\ ssl = "SSL_NONE" /\ hs = "hello"
  /\ que = <<>> /\ stream = "open"
  /\ is_stop = FALSE /\ expired = FALSE /\ socket = "open" /\ member = "in"
  /\ client = "start" /\ c2s = {} /\ s2c = {}

-----------------------------------------------------------------------------
(***************************************************************************)
(* The handler's working state: what the callbacks that run inside         *)
(* handle_dtls have changed so far, the datagrams written, and whether the *)
(* records that are left are still read.                                   *)
(***************************************************************************)
Working ==
  [k |-> k_state, ssl |-> ssl, hs |-> hs, que |-> que, stream |-> stream,
   out |-> {}, reading |-> TRUE]

(* Error(..., true) from OnEvent: slot_dtls_event gets SE_CLOSE. *)
Fail(s) == [s EXCEPT !.ssl = "SSL_ERROR", !.k = "k_failed", !.reading = FALSE]

(* Mutant: the server answers the first flight as if it were the last. *)
AcceptEarly(s, r) ==
  CASE r \in {"badhello", "badfinish", "close", "fatal"} -> Fail(s)
    [] r = "hello" /\ s.hs = "hello" ->
         [s EXCEPT !.hs = "finish", !.out = @ \union {<<"flight">>, <<"final">>}]
    [] r = "finish" /\ s.hs = "finish" ->
         [s EXCEPT !.ssl = "SSL_CONNECTED", !.k = "k_connected"]
    [] OTHER -> s

(* ContinueSSL for the next record. *)
Accept(s, r) ==
  CASE r \in {"badhello", "badfinish", "close", "fatal"} -> Fail(s)
    [] r = "hello" /\ s.hs = "hello" ->
         [s EXCEPT !.hs = "finish", !.out = @ \union {<<"flight">>}]
    [] r = "finish" /\ s.hs = "finish" ->
         [s EXCEPT !.ssl = "SSL_CONNECTED", !.k = "k_connected",
                   !.out = @ \union {<<"final">>}]
    [] OTHER -> s

(* One round of the read loop of slot_dtls_event, with the adapter's Read.
   A long record fails the RtcDtls but not the SSL object; Close also closes
   the stream below and answers with a close_notify. *)
ReadRecord(s, r) ==
  CASE r = "finish" -> [s EXCEPT !.out = @ \union {<<"final">>}]
    [] r = "long" -> [s EXCEPT !.k = "k_failed", !.reading = FALSE]
    [] r = "fatal" -> Fail(s)
    [] r = "close" ->
         [s EXCEPT !.ssl = "SSL_CLOSED", !.k = "k_closed", !.stream = "closed",
                   !.que = <<>>, !.out = @ \union {<<"close">>}, !.reading = FALSE]
    [] OTHER -> s

Consume(s, r) ==
  CASE ~ s.reading -> s
    [] s.reading /\ s.ssl = "SSL_CONNECTING" -> Accept(s, r)
    [] s.reading /\ s.ssl = "SSL_CONNECTED" -> ReadRecord(s, r)

(* OnEvent(SE_READ): in no other state does the adapter look at the queue. *)
Retransmits(s) == s.ssl = "SSL_CONNECTING" /\ s.hs = "finish" /\ expired

OnEvent(s) ==
  IF s.ssl \notin {"SSL_CONNECTING", "SSL_CONNECTED"}
  THEN s
  ELSE FoldLeft(Consume,
                [s EXCEPT !.que = <<>>,
                          !.out = IF Retransmits(s) THEN {<<"flight">>} ELSE {}],
                FlattenSeq(s.que))

(* Mutant: a datagram is queued but its arrival is not signalled. *)
OnPacketReceiveSilent(s, p) == [s EXCEPT !.que = Append(@, p)]

(* do_handle_dtls_packet and on_packet_receive: Taken is the result.  The
   event is signalled also when the queue is full. *)
Taken(s, p) ==
  /\ "cut" \notin ToSet(p)
  /\ ~ is_stop
  /\ Len(s.que) # Capacity

OnPacketReceive(s, p) ==
  IF "cut" \in ToSet(p) \/ is_stop
  THEN s
  ELSE OnEvent(IF Taken(s, p) THEN [s EXCEPT !.que = Append(@, p)] ELSE s)

IsClientHello(p) == Head(p) \in {"hello", "badhello"}

(* Mutant: the first ClientHello does not move the state. *)
HandleStartedNoMove(s, p) ==
  CASE s.k = "k_connecting" /\ IsClientHello(p) -> OnPacketReceive(s, p)
    [] s.k = "k_connected" -> OnPacketReceive(s, p)
    [] OTHER -> s

(* handle_dtls after StartSSL.  "k_connected" is stored when the ClientHello
   has been handed over, over whatever slot_dtls_event has stored meanwhile. *)
HandleStarted(s, p) ==
  CASE s.k = "k_connecting" /\ IsClientHello(p) ->
         LET t == OnPacketReceive(s, p)
         IN  IF Taken(s, p) THEN [t EXCEPT !.k = "k_connected"] ELSE t
    [] s.k = "k_connected" -> OnPacketReceive(s, p)
    [] OTHER -> s

(* Mutant: StartSSL may be called twice. *)
StartSslAgain(s, ok) ==
  IF ok THEN [s EXCEPT !.k = "k_connecting", !.ssl = "SSL_CONNECTING"]
        ELSE [s EXCEPT !.ssl = "SSL_ERROR"]

(* StartSSL: Error(..., false) when BeginSSL fails; a second call only
   returns -1, so the connection stays in k_new. *)
StartSsl(s, ok) ==
  CASE s.ssl # "SSL_NONE" -> s
    [] s.ssl = "SSL_NONE" /\ ok ->
         [s EXCEPT !.k = "k_connecting", !.ssl = "SSL_CONNECTING"]
    [] s.ssl = "SSL_NONE" /\ ~ ok -> [s EXCEPT !.ssl = "SSL_ERROR"]

(* DtlsStreamInterface::Write: a stopped stream swallows what it is given. *)
Written(out) == IF is_stop THEN {} ELSE out

Become(s) ==
  /\ k_state' = s.k /\ ssl' = s.ssl /\ hs' = s.hs
  /\ que' = s.que /\ stream' = s.stream
  /\ expired' = (expired /\ <<"flight">> \notin s.out)
  /\ s2c' = s2c \union Written(s.out)

(* handle_dtls; the datagram may be delivered again. *)
HandleDtls(p) ==
  /\ socket = "open"
  /\ p \in c2s
  /\ \E ok \in StartResults :
       LET s == IF k_state = "k_new" THEN StartSsl(Working, ok) ELSE Working
       IN  Become(HandleStarted(s, p))
  /\ c2s' \in {c2s, c2s \ {p}}
  /\ UNCHANGED <<is_stop, socket, member, client>>

(***************************************************************************)
(* The member goes.  SignalingHandle::remove calls stop_recv, destory and  *)
(* erase one after the other on the loop's thread; uv_close lets no more   *)
(* datagrams in, and its callback deletes the socket when the loop gets to *)
(* it.  The stream keeps its pointer to the socket all the while.          *)
(***************************************************************************)
StopRecv ==
  /\ member = "in"
  /\ member' = "closed" /\ socket' = "closing"
  /\ UNCHANGED <<k_state, ssl, hs, que, stream, is_stop, expired, client, c2s, s2c>>

(* Cleanup in the adapter's destructor: SSL_shutdown writes a close_notify
   if the handshake was done. *)
Goodbye == IF ssl = "SSL_CONNECTED" THEN {<<"close">>} ELSE {}

Cleanup ==
  /\ ssl' = IF ssl = "SSL_ERROR" THEN ssl ELSE "SSL_CLOSED"
  /\ s2c' = s2c \union Written(Goodbye)

(* Mutant: destory drops the adapter, as the lines commented out in it do,
   and stops the stream after that. *)
DestoryDropsAdapter ==
  /\ member = "closed"
  /\ member' = "stopped" /\ is_stop' = TRUE
  /\ Cleanup
  /\ UNCHANGED <<k_state, hs, que, stream, expired, socket, client, c2s>>

Destory ==
  /\ member = "closed"
  /\ member' = "stopped" /\ is_stop' = TRUE
  /\ UNCHANGED <<k_state, ssl, hs, que, stream, expired, socket, client, c2s, s2c>>

Erase ==
  /\ member = "stopped"
  /\ member' = "erased" /\ Cleanup
  /\ UNCHANGED <<k_state, hs, que, stream, is_stop, expired, socket, client, c2s>>

(* UdpReceiver::deleter, in a later turn of the loop. *)
Deleter ==
  /\ member = "erased" /\ socket = "closing"
  /\ socket' = "deleted"
  /\ UNCHANGED <<k_state, ssl, hs, que, stream, is_stop, expired, member, client, c2s, s2c>>

-----------------------------------------------------------------------------
(* External: OpenSSL's timer, the peer and the network. *)
Expire ==
  /\ ssl = "SSL_CONNECTING" /\ hs = "finish" /\ ~ expired
  /\ expired' = TRUE
  /\ UNCHANGED <<k_state, ssl, hs, que, stream, is_stop, socket, member, client, c2s, s2c>>

ClientSends(p, next) ==
  /\ c2s' = c2s \union {p}
  /\ client' = next
  /\ UNCHANGED <<server, s2c>>

(* First transmissions and retransmissions. *)
ClientHello == client \in {"start", "hello"} /\ ClientSends(<<"hello">>, "hello")

ClientFinish == client = "finish" /\ ClientSends(<<"finish">>, "finish")

ClientTraffic == client = "up" /\ \E p \in Traffic : ClientSends(p, "up")

(* A refused or refusing peer gives up, with its first datagram or when it
   has the server's flight.  The alert it may get in return changes nothing. *)
ClientFault ==
  /\ client \in {"start", "finish"}
  /\ \E p \in Faults :
       /\ client = "start" <=> Head(p) = "badhello"
       /\ ClientSends(p, "gone")

ClientReceives ==
  \/ /\ client = "hello" /\ <<"flight">> \in s2c
     /\ client' = "finish" /\ s2c' = s2c \ {<<"flight">>}
     /\ UNCHANGED <<server, c2s>>
  \/ /\ client = "finish" /\ <<"final">> \in s2c
     /\ client' = "up" /\ s2c' = s2c \ {<<"final">>}
     /\ UNCHANGED <<server, c2s>>

Lose ==
  \/ \E p \in c2s : c2s' = c2s \ {p} /\ UNCHANGED <<server, client, s2c>>
  \/ \E p \in s2c : s2c' = s2c \ {p} /\ UNCHANGED <<server, client, c2s>>

Next ==
  \/ \E p \in c2s : HandleDtls(p)
  \/ StopRecv \/ Destory \/ Erase \/ Deleter
  \/ Expire
  \/ ClientHello \/ ClientFinish \/ ClientTraffic \/ ClientFault
  \/ ClientReceives
  \/ Lose

Spec == Init /\ [][Next]_vars

(***************************************************************************)
(* The peer repeats its flight until it is answered (RFC 6347), the loop   *)
(* dispatches what arrives, time passes, and the network does not lose     *)
(* every copy.                                                             *)
(***************************************************************************)
FairSpec ==
  /\ Spec
  /\ SF_vars(HandleDtls(<<"hello">>)) /\ SF_vars(HandleDtls(<<"finish">>))
  /\ SF_vars(ClientReceives)
  /\ WF_vars(ClientHello) /\ WF_vars(ClientFinish)
  /\ WF_vars(Expire)

-----------------------------------------------------------------------------
Datagrams == {<<"hello">>, <<"finish">>} \union Faults \union Traffic

(* Types and ranges; the queue never holds more than its capacity. *)
TypeOK ==
  /\ k_state \in {"k_new", "k_connecting", "k_connected", "k_closed", "k_failed"}
  /\ ssl \in {"SSL_NONE", "SSL_CONNECTING", "SSL_CONNECTED", "SSL_CLOSED", "SSL_ERROR"}
  /\ hs \in {"hello", "finish"}
  /\ que \in Seq(Datagrams) /\ Len(que) <= Capacity
  /\ stream \in {"open", "closed"} /\ socket \in {"open", "closing", "deleted"}
  /\ member \in {"in", "closed", "stopped", "erased"}
  /\ is_stop \in BOOLEAN /\ expired \in BOOLEAN
  /\ client \in {"start", "hello", "finish", "up", "gone"}
  /\ c2s \subseteq Datagrams
  /\ s2c \subseteq {<<"flight">>, <<"final">>, <<"close">>}

(***************************************************************************)
(* While the SSL object lives, handle_dtls returns with the queue empty.   *)
(* Only the arrival of a datagram makes the adapter read, so one that was  *)
(* left behind would wait for the next.                                    *)
(***************************************************************************)
QueueDrained == ssl \in {"SSL_CONNECTING", "SSL_CONNECTED"} => que = <<>>

(***************************************************************************)
(* A peer whose handshake is done, and which may therefore send media,     *)
(* meets a server that can export the keys, unless the peer has closed or  *)
(* failed the connection since or the member has gone: the timing that the *)
(* model of the whole server calls "ordered".                              *)
(***************************************************************************)
PeerUpMeansKeys ==
  client = "up" => ssl \notin {"SSL_NONE", "SSL_CONNECTING"}

(***************************************************************************)
(* RoomMember sees only steps of DtlsSession: a session never returns from *)
(* closed or failed, and is connected only after connecting.               *)
(***************************************************************************)
Session ==
  CASE ssl = "SSL_NONE"       -> "none"
    [] ssl = "SSL_CONNECTING" -> "connecting"
    [] ssl = "SSL_CONNECTED"  -> "connected"
    [] ssl = "SSL_CLOSED"     -> "closed"
    [] ssl = "SSL_ERROR"      -> "failed"

SessionSteps ==
  [][socket' = "open" => Session' \in DtlsAfter(Session)]_vars

(***************************************************************************)
(* From stop_recv on, nothing is written to the socket, which the loop     *)
(* deletes while the stream still points to it: neither a flight nor the   *)
(* close_notify with which a connected adapter takes its leave when the    *)
(* member is erased.                                                       *)
(***************************************************************************)
NoWriteAfterClose == [][socket # "open" => s2c' \subseteq s2c]_vars

(***************************************************************************)
(* "When we're closed at SSL layer, also close the stream level [...]      *)
(* Otherwise, a new incoming packet after this could overflow the stream   *)
(* buffer" (openssl_stream_adapter.cc:737): no datagram is queued behind a *)
(* closed or failed SSL object.                                            *)
(***************************************************************************)
NothingQueuedAfterEnd ==
  [][(ssl \in {"SSL_CLOSED", "SSL_ERROR"}) => Len(que') <= Len(que)]_vars

(***************************************************************************)
(* A handshake that has begun is completed in spite of lost, repeated and  *)
(* reordered datagrams, unless the peer gives up, the SSL context cannot   *)
(* be set up or the member goes.  The server's own retransmissions need    *)
(* the peer's.                                                             *)
(***************************************************************************)
HandshakeCompletes ==
  client = "hello" ~> (client \in {"up", "gone"} \/ ssl = "SSL_ERROR" \/ member # "in")
=============================================================================
