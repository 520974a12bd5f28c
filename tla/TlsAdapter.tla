----------------------------- MODULE TlsAdapter -----------------------------
(***************************************************************************)
(* OpenSSLAdapter (rtc_base/openssl_adapter.cc): TLS or DTLS on top of an  *)
(* asynchronous socket, with OpenSSLSessionCache and OpenSSLAdapterFactory *)
(* as far as the context and the cached session are concerned.             *)
(*                                                                         *)
(* The SSL library and the socket are external: a call comes to one of the *)
(* results that SSL_get_error tells apart.  Signals to the application are *)
(* points at which it may call the adapter again, so an event of the       *)
(* socket is handled in steps.                                             *)
(***************************************************************************)
EXTENDS Integers, Sequences

CONSTANTS
  TlsConfigs,  \* [cache, dtls, ignore: BOOLEAN, verifier: {"none", "yes", "no"}]
  MaxSessions, \* bound: calls of StartSSL
  MaxSends     \* bound: messages of a session, each of at most one record

VARIABLES
  tls,         \* the configuration
  ssl_state,   \* state_
  ssl_,        \* the SSL object: "none", "handshake", "open"
  ctx,         \* ssl_ctx_ is set
  timer,       \* MSG_TIMEOUT is posted
  pending,     \* pending_data_: a message, or 0
  readNeedsWrite, writeNeedsRead,
  custom,      \* custom_cert_verifier_status_
  peerCert,    \* [chain, name]: what is right with the peer's certificate
  socket,      \* the state of the socket below
  cached,      \* the session cache has a session of the host
  tlsStep,     \* what is left of the event being handled
  sessions,    \* how often StartSSL was called
  sent,        \* messages of this session that Send has accepted
  wire,        \* messages that the SSL object has written
  retry,       \* the message that SSL_write must be called with again, or 0
  up, told,    \* the application was told: connected, closed or failed
  wrongs       \* history: calls that the SSL library or the peer must not see

tlsVars == <<tls, ssl_state, ssl_, ctx, timer, pending, readNeedsWrite, writeNeedsRead, custom,
             peerCert, socket, cached, tlsStep, sessions, sent, wire, retry, up, told, wrongs>>

NoCert == [chain |-> FALSE, name |-> FALSE]

TlsInit ==
  /\ tls \in TlsConfigs
  /\ ssl_state = "NONE" /\ ssl_ = "none" /\ ctx = tls.cache /\ timer = FALSE
  /\ pending = 0 /\ readNeedsWrite = FALSE /\ writeNeedsRead = FALSE
  /\ custom = FALSE /\ peerCert = NoCert /\ socket = "CLOSED" /\ cached = FALSE
  /\ tlsStep = "idle" /\ sessions = 0 /\ sent = 0 /\ wire = << >> /\ retry = 0
  /\ up = FALSE /\ told = FALSE /\ wrongs = {}

Config == UNCHANGED <<tls, sessions>>

-----------------------------------------------------------------------------
(* Cleanup, after which state_ becomes state. *)
Cleanup(state) ==
  /\ ssl_state' = state /\ ssl_' = "none" /\ timer' = FALSE /\ ctx' = FALSE
  /\ readNeedsWrite' = FALSE /\ writeNeedsRead' = FALSE /\ custom' = FALSE
  /\ pending' = 0 /\ sent' = 0 /\ wire' = << >> /\ retry' = 0 /\ peerCert' = NoCert
  /\ UNCHANGED cached

(* SSLVerifyCallback with SSLVerifyInternal: the verifier may override an
   error, and is not asked otherwise. *)
Verifies(cert) == [ok |-> cert.chain \/ tls.verifier = "yes" \/ tls.ignore,
                   custom |-> ~cert.chain /\ tls.verifier = "yes"]

(* SSLPostConnectionCheck. *)
PostCheck(cert, byVerifier) ==
  (cert.name /\ (cert.chain \/ byVerifier)) \/ tls.ignore

(* ContinueSSL, on a new SSL object or on the one there is.  In between the
   adapter waits for the socket, in DTLS with a timer; when it fails state_
   becomes failed.  NewSSLSessionCallback caches the session. *)
ContinueSSL(failed) ==
  \/ \E dtlsTimeout \in {FALSE, tls.dtls} :   \* SSL_ERROR_WANT_READ, SSL_ERROR_WANT_WRITE
       /\ ssl_' = "handshake" /\ ssl_state' = "CONNECTING" /\ timer' = dtlsTimeout
       /\ ctx' = TRUE
       /\ UNCHANGED <<pending, readNeedsWrite, writeNeedsRead, custom, peerCert, cached, sent, wire,
                      retry, up, told>>
  \/ \E chain, name \in BOOLEAN :             \* SSL_ERROR_NONE
       LET cert == [chain |-> chain, name |-> name]
           v == Verifies(cert)
       IN  /\ v.ok
           /\ IF PostCheck(cert, v.custom \/ custom)
              THEN /\ ssl_' = "open" /\ ssl_state' = "CONNECTED" /\ timer' = FALSE /\ ctx' = TRUE
                   /\ custom' = (v.custom \/ custom) /\ peerCert' = cert
                   /\ cached' = (cached \/ tls.cache) /\ up' = TRUE
                   /\ UNCHANGED <<pending, readNeedsWrite, writeNeedsRead, sent, wire, retry, told>>
              ELSE /\ Cleanup(failed.check)
                   /\ told' = (told \/ failed.told) /\ UNCHANGED up
  \/ IF failed.keeps                          \* any other
     THEN /\ ssl_state' = failed.other /\ timer' = FALSE /\ ctx' = TRUE
          /\ told' = (told \/ failed.told)
          /\ UNCHANGED <<ssl_, pending, readNeedsWrite, writeNeedsRead, custom, peerCert, cached, sent,
                         wire, retry, up>>
     ELSE Cleanup(failed.other) /\ told' = (told \/ failed.told) /\ UNCHANGED up

(* BeginSSL.  Without a factory it makes a context; the factory's is gone
   after the first Cleanup, and then there is none.  EarlyExitCatcher cleans
   up whenever it fails. *)
BeginSSL(after, tell) ==
  \/ /\ tls.cache /\ ~ctx
     /\ Cleanup(after) /\ told' = (told \/ tell) /\ UNCHANGED up
  \/ /\ tls.cache => ctx
     /\ \/ ContinueSSL([check |-> after, other |-> after, keeps |-> FALSE, told |-> tell])
        \/ Cleanup(after) /\ told' = (told \/ tell) /\ UNCHANGED up

StartSSL ==
  /\ ssl_state = "NONE" /\ sessions < MaxSessions /\ ~up
  /\ sessions' = sessions + 1
  /\ IF socket # "CONNECTED"
     THEN /\ ssl_state' = "WAIT"
          /\ UNCHANGED <<ssl_, ctx, timer, pending, readNeedsWrite, writeNeedsRead, custom, peerCert,
                         cached, sent, wire, retry, up, told>>
     ELSE BeginSSL("ERROR", TRUE)
  /\ UNCHANGED <<tls, socket, tlsStep, wrongs>>

-----------------------------------------------------------------------------
(* DoSslWrite of m, with result r.  It is wrong to come with another message
   than the one that the library waits for, or without an SSL object. *)
DoSslWrite(m, r) ==
  /\ ssl_state = "ERROR" => r = "ssl"
  /\ wrongs' = wrongs \union (IF retry \notin {0, m} THEN {"retry"} ELSE {})
                      \union (IF ssl_ = "none" THEN {"null"} ELSE {})
  /\ wire' = IF r = "none" THEN Append(wire, m) ELSE wire
  /\ retry' = IF r \in {"want_read", "want_write"} THEN m ELSE 0
  /\ writeNeedsRead' = (r = "want_read")
  /\ ssl_state' = IF r = "ssl" THEN "ERROR" ELSE ssl_state

SslResults == {"none", "want_read", "want_write", "zero", "ssl"}

(* Mutant: the message is sent although another one is pending. *)
SendPastPending(r) ==
  /\ ssl_state = "CONNECTED" /\ sent < MaxSends
  /\ DoSslWrite(sent + 1, r)
  /\ pending' = IF r \in {"want_read", "want_write"} THEN sent + 1 ELSE pending
  /\ sent' = IF r \in {"none", "want_read", "want_write"} THEN sent + 1 ELSE sent

(* Send in SSL_CONNECTED: what is pending goes first, in a call of its own
   here.  A message that the library could not write is kept, and counts as
   sent. *)
SendNext(r) ==
  /\ ssl_state = "CONNECTED" /\ pending = 0 /\ sent < MaxSends
  /\ DoSslWrite(sent + 1, r)
  /\ pending' = IF r \in {"want_read", "want_write"} THEN sent + 1 ELSE 0
  /\ sent' = IF r \in {"none", "want_read", "want_write"} THEN sent + 1 ELSE sent

(* The pending message, in Send and in OnWriteEvent. *)
SendPending(r) ==
  /\ pending # 0
  /\ DoSslWrite(pending, r)
  /\ pending' = IF r = "none" THEN 0 ELSE pending
  /\ UNCHANGED sent

(* An application sends when it has not asked for SSL, or was told that the
   connection is there and not that it failed. *)
TlsSend ==
  /\ \/ \E r \in SslResults : /\ SendNext(r) \/ (ssl_state = "CONNECTED" /\ SendPending(r))
                              /\ UNCHANGED <<ssl_, readNeedsWrite>>
     \/ /\ ssl_state = "NONE" /\ up /\ ~told
        /\ wrongs' = wrongs \union {"clear"}
        /\ UNCHANGED <<ssl_state, ssl_, pending, readNeedsWrite, writeNeedsRead, sent, wire, retry>>
  /\ UNCHANGED <<ctx, timer, custom, peerCert, socket, cached, tlsStep, up, told>> /\ Config

TlsRecv ==
  /\ ssl_state = "CONNECTED"
  /\ \E r \in SslResults : /\ readNeedsWrite' = (r = "want_write")
                           /\ ssl_state' = IF r = "ssl" THEN "ERROR" ELSE ssl_state
  /\ UNCHANGED <<ssl_, ctx, timer, pending, writeNeedsRead, custom, peerCert, socket, cached, tlsStep,
                 sent, wire, retry, up, told, wrongs>>
  /\ Config

TlsClose ==
  /\ ssl_state # "NONE" \/ socket # "CLOSED"
  /\ Cleanup("NONE")
  /\ socket' = "CLOSED" /\ up' = FALSE /\ told' = FALSE
  /\ UNCHANGED <<tlsStep, wrongs>> /\ Config

-----------------------------------------------------------------------------
(* The socket below. *)
SocketConnects ==
  /\ socket = "CLOSED" /\ ssl_state \in {"NONE", "WAIT"} /\ socket' = "CONNECTING"
  /\ UNCHANGED <<ssl_state, ssl_, ctx, timer, pending, readNeedsWrite, writeNeedsRead, custom, peerCert,
                 cached, tlsStep, sent, wire, retry, up, told, wrongs>>
  /\ Config

OnConnectEvent ==
  /\ socket = "CONNECTING" /\ socket' = "CONNECTED"
  /\ IF ssl_state # "WAIT"
     THEN UNCHANGED <<ssl_state, ssl_, ctx, timer, pending, readNeedsWrite, writeNeedsRead, custom,
                      peerCert, cached, sent, wire, retry, up, told>>
     ELSE BeginSSL("NONE", TRUE)
  /\ UNCHANGED <<tlsStep, wrongs>> /\ Config

OnCloseEvent ==
  /\ socket # "CLOSED" /\ socket' = "CLOSED" /\ told' = TRUE
  /\ UNCHANGED <<ssl_state, ssl_, ctx, timer, pending, readNeedsWrite, writeNeedsRead, custom, peerCert,
                 cached, tlsStep, sent, wire, retry, up, wrongs>>
  /\ Config

(* OnReadEvent and OnWriteEvent while connecting. *)
OnHandshakeEvent ==
  /\ socket = "CONNECTED" /\ ssl_state = "CONNECTING" /\ tlsStep = "idle"
  /\ ContinueSSL([check |-> "ERROR", other |-> "ERROR", keeps |-> TRUE, told |-> TRUE])
  /\ UNCHANGED <<socket, tlsStep, wrongs>> /\ Config

(* OnWriteEvent: the reader is told first if it needed that, then what is
   pending is written, then the writer is told. *)
OnWriteEvent ==
  /\ socket = "CONNECTED" /\ ssl_state = "CONNECTED" /\ tlsStep = "idle"
  /\ tlsStep' = "write"
  /\ UNCHANGED <<ssl_state, ssl_, ctx, timer, pending, readNeedsWrite, writeNeedsRead, custom, peerCert,
                 socket, cached, sent, wire, retry, up, told, wrongs>>
  /\ Config

(* Whatever the handlers of the reader have done: pending_data_ is looked at
   now. *)
OnWriteEnds ==
  /\ tlsStep = "write" /\ tlsStep' = "idle"
  /\ IF pending = 0
     THEN UNCHANGED <<ssl_state, pending, writeNeedsRead, sent, wire, retry, wrongs>>
     ELSE \E r \in SslResults : SendPending(r)
  /\ UNCHANGED <<ssl_, ctx, timer, readNeedsWrite, custom, peerCert, socket, cached, up, told>>
  /\ Config

(* OnMessage: the DTLS timer.  What ContinueSSL returns is dropped, so nobody
   is told and state_ stays, except that Cleanup makes it SSL_NONE. *)
OnTimeout ==
  /\ timer
  /\ wrongs' = wrongs \union (IF ssl_ = "none" \/ ssl_state # "CONNECTING" THEN {"null"} ELSE {})
  /\ ContinueSSL([check |-> "NONE", other |-> ssl_state, keeps |-> TRUE, told |-> FALSE])
  /\ UNCHANGED <<socket, tlsStep>> /\ Config

TlsNext ==
  \/ StartSSL \/ TlsSend \/ TlsRecv \/ TlsClose
  \/ SocketConnects \/ OnConnectEvent \/ OnCloseEvent \/ OnHandshakeEvent
  \/ OnWriteEvent \/ OnWriteEnds \/ OnTimeout

TlsSpec == TlsInit /\ [][TlsNext]_tlsVars

-----------------------------------------------------------------------------
(* What Send has accepted is on the wire, in order and once, or pending. *)
SentOnce ==
  /\ wire = [i \in 1 .. (IF pending = 0 THEN sent ELSE sent - 1) |-> i]
  /\ pending \in {0, sent}

(* A connection is up only if somebody vouches for the peer. *)
PeerVouched ==
  ssl_state = "CONNECTED" =>
    \/ tls.ignore
    \/ peerCert.name /\ (peerCert.chain \/ (custom /\ tls.verifier = "yes"))

(***************************************************************************)
(* A TLS connection keeps what it was given.  Messages that Send took are  *)
(* written once and in order although the socket blocks in the middle of   *)
(* them, handlers close and send in between and the library wants to be    *)
(* called again with the same data; the library is never called without an *)
(* SSL object, by the timer in particular; nothing goes out in the clear   *)
(* after the application was told that it is connected; and who is at the  *)
(* other end has been checked.                                             *)
(***************************************************************************)
TlsKeepsData == SentOnce /\ PeerVouched /\ wrongs = {}
=============================================================================
