----------------------------- MODULE SslStream ------------------------------
(***************************************************************************)
(* OpenSSLStreamAdapter (rtc_base/openssl_stream_adapter.cc) for any user  *)
(* and any stream below: the digest of the peer's certificate may be set   *)
(* before, during and after the handshake, the timer of DTLS runs, and the *)
(* adapter may be closed or destroyed at any time.  RtcDtls has the one    *)
(* connection the server makes of it, with the datagrams of the peer.      *)
(*                                                                         *)
(* OpenSSL and the stream below are external: a call of SSL_connect,       *)
(* SSL_read or SSL_write comes to one of the results that SSL_get_error    *)
(* tells apart.  A signal is the last thing that a function does, so what  *)
(* the user calls from its slot is a step that follows.                    *)
(***************************************************************************)
EXTENDS Integers, Sequences, FiniteSets

CONSTANTS
  SslConfigs, \* [auth, dtls, cert: BOOLEAN]: client authentication is enabled, the
              \* mode is SSL_MODE_DTLS, the peer presents a certificate
  SuiteLists, \* the suites that SetDtlsSrtpCryptoSuites is called with
  RecordSizes \* bytes of a record of the peer

ASSUME SslStreamConstants ==
  /\ SslConfigs \subseteq [auth : BOOLEAN, dtls : BOOLEAN, cert : BOOLEAN]
  /\ SuiteLists \subseteq Seq(Nat) /\ RecordSizes \subseteq Nat

VARIABLES
  ssl_conf,   \* the configuration
  adapter,    \* the members of OpenSSLStreamAdapter
  below,      \* the state of stream_: "OPENING", "OPEN", "CLOSED"
  record,     \* [size, left]: the peer's last record and what is left to read of it
  postedEvents,     \* tasks of PostEvent in the queue of owner_
  stuck,      \* what the user's last Read and Write wait for, "" for nothing
  seen        \* history: [opens, data, halves, begun, late]: SE_OPENs, data went
              \* through SSL, a part of a message was returned, SSL_NONE was left,
              \* data went in the clear after that

sslStreamVars == <<ssl_conf, adapter, below, record, postedEvents, stuck, seen>>

(* The handshake moves state from SSL_NONE to SSL_CONNECTED; SSL_ERROR and
   SSL_CLOSED are for good.  A digest is that of the peer's certificate
   ("match") or not ("other"). *)
SslStreamInit ==
  /\ ssl_conf \in SslConfigs
  /\ adapter = [alive |-> TRUE, state |-> "SSL_NONE", ssl |-> "null", ctx |-> FALSE,
                digest |-> "", verified |-> FALSE, chain |-> FALSE, timer |-> FALSE,
                read_needs_write |-> FALSE, write_needs_read |-> FALSE,
                srtp_ciphers |-> << >>, profile |-> 0, sig |-> {}, rc |-> 0]
  /\ below = "OPENING" /\ record = [size |-> 0, left |-> 0] /\ postedEvents = 0
  /\ stuck = [read |-> "", write |-> ""]
  /\ seen = [opens |-> 0, data |-> FALSE, halves |-> FALSE, begun |-> FALSE, late |-> FALSE]

-----------------------------------------------------------------------------
(* The suites: kSrtpCipherMap, their names, and their keys. *)
kSrtpCipherMap == {1, 2, 7, 8}

SrtpCryptoSuiteToName(suite) ==
  CASE suite = 1 -> "AES_CM_128_HMAC_SHA1_80" [] suite = 2 -> "AES_CM_128_HMAC_SHA1_32"
    [] suite = 7 -> "AEAD_AES_128_GCM"        [] suite = 8 -> "AEAD_AES_256_GCM"
    [] OTHER -> ""

SrtpCryptoSuiteFromName(name) ==
  CASE name = "AES_CM_128_HMAC_SHA1_32" -> 2 [] name = "AES_CM_128_HMAC_SHA1_80" -> 1
    [] name = "AEAD_AES_128_GCM" -> 7        [] name = "AEAD_AES_256_GCM" -> 8
    [] OTHER -> 0

GetSrtpKeyAndSaltLengths(suite) ==
  CASE suite \in {1, 2} -> <<16, 14>> [] suite = 7 -> <<16, 12>> [] suite = 8 -> <<32, 12>>
    [] OTHER -> << >>

IsGcmCryptoSuite(suite) == suite \in {7, 8}
IsGcmCryptoSuiteName(name) == name \in {"AEAD_AES_256_GCM", "AEAD_AES_128_GCM"}

(* SetupSSLContext: the versions of the protocol that are offered.  DTLS 1.0
   has no counterpart of TLS 1.0, so that it stands for both. *)
VersionRange(dtls, legacy, max) ==
  [min |-> IF ~legacy THEN 2 ELSE IF dtls THEN 1 ELSE 0,
   max |-> IF ~legacy THEN 2
           ELSE CASE max = 0 -> (IF dtls THEN 1 ELSE 0) [] max = 1 -> 1 [] OTHER -> 2]

(* GetSslVersion: -1 is SSL_PROTOCOL_NOT_GIVEN. *)
GetSslVersion(dtls, version) ==
  IF dtls THEN (IF version \in {1, 2} THEN version ELSE -1)
          ELSE (IF version \in 0 .. 2 THEN version ELSE -1)

(* The tables of suites agree with each other, and with the legacy protocols
   the version that is reported is known and not above the one asked for. *)
TablesAgree ==
  /\ \A suite \in kSrtpCipherMap :
       /\ SrtpCryptoSuiteFromName(SrtpCryptoSuiteToName(suite)) = suite
       /\ GetSrtpKeyAndSaltLengths(suite) # << >>
       /\ IsGcmCryptoSuite(suite) <=> IsGcmCryptoSuiteName(SrtpCryptoSuiteToName(suite))
  /\ \A dtls, legacy \in BOOLEAN, max \in 0 .. 2 :
       LET r == VersionRange(dtls, legacy, max)
       IN  \A v \in r.min .. r.max : /\ GetSslVersion(dtls, v) # -1
                                     /\ legacy /\ ~(dtls /\ max = 0) => v <= max

-----------------------------------------------------------------------------
(* Mutant: it is enough that the certificate has come. *)
WaitingForCertificate(s) == ssl_conf.auth /\ ~s.chain

(* WaitingToVerifyPeerCertificate. *)
Waiting(s) == ssl_conf.auth /\ ~s.verified

GetState(s) ==
  CASE s.state \in {"SSL_WAIT", "SSL_CONNECTING"} -> "SS_OPENING"
    [] s.state = "SSL_CONNECTED" -> IF Waiting(s) THEN "SS_OPENING" ELSE "SS_OPEN"
    [] OTHER -> "SS_CLOSED"

SslCleanup(s) ==
  [s EXCEPT !.state = IF @ = "SSL_ERROR" THEN @ ELSE "SSL_CLOSED",
            !.ssl = "null", !.ctx = FALSE, !.chain = FALSE, !.timer = FALSE]

SslError(s, signal) ==
  LET t == SslCleanup([s EXCEPT !.state = "SSL_ERROR"])
  IN  [t EXCEPT !.sig = IF signal THEN {"SE_CLOSE"} ELSE {}, !.rc = -1]

OpenEvents == {"SE_OPEN", "SE_READ", "SE_WRITE"}

(* A call of SSL_connect or SSL_accept, with the verification callback when
   the certificate has come.  A failed handshake fails again. *)
Outcomes == [result : {"none", "want_read", "want_write", "error"},
             callback : BOOLEAN, timeout : BOOLEAN]

Possible(s, o) ==
  /\ o.callback => ssl_conf.cert /\ ~s.chain /\ s.ssl # "failed"
  /\ o.timeout => ssl_conf.dtls /\ o.result = "want_read"
  /\ (o.callback /\ s.digest = "other") \/ s.ssl = "failed" => o.result = "error"
  /\ o.result = "none" => s.chain \/ o.callback \/ ~(ssl_conf.auth \/ ssl_conf.cert)

(* SSLVerifyCallback with VerifyPeerCertificate. *)
VerifyPeerCertificate(s) == s.chain /\ s.digest = "match"

Verify(s) == LET t == [s EXCEPT !.chain = TRUE]
             IN  [t EXCEPT !.verified = @ \/ VerifyPeerCertificate(t)]

(* ContinueSSL with SetTimeout. *)
ContinueSsl(s, o) ==
  LET t == [IF o.callback THEN Verify(s) ELSE s EXCEPT !.timer = FALSE]
  IN  CASE o.result = "none" ->
             [t EXCEPT !.state = "SSL_CONNECTED", !.ssl = "open", !.rc = 0,
                       !.profile = IF s.srtp_ciphers = << >> THEN 0 ELSE Head(s.srtp_ciphers),
                       !.sig = @ \union (IF Waiting(t) THEN {} ELSE OpenEvents)]
        [] o.result \in {"want_read", "want_write"} ->
             [t EXCEPT !.ssl = "handshake", !.timer = o.timeout, !.rc = 0]
        [] o.result = "error" -> [t EXCEPT !.ssl = "failed", !.rc = -1]

(* BeginSSL: SetupSSLContext, the BIO or the SSL object may fail (made). *)
BeginSsl(s, made, o) ==
  IF made THEN ContinueSsl([s EXCEPT !.state = "SSL_CONNECTING", !.ssl = "handshake", !.ctx = TRUE], o)
          ELSE [s EXCEPT !.state = "SSL_CONNECTING", !.rc = -1]

-----------------------------------------------------------------------------
(* What the user sees of a step: its events, after which it tries again. *)
Take(s) ==
  /\ adapter' = [s EXCEPT !.sig = {}, !.rc = 0]
  /\ stuck' = IF "SE_CLOSE" \in s.sig THEN [read |-> "", write |-> ""]
              ELSE [read |-> IF "SE_READ" \in s.sig THEN "" ELSE stuck.read,
                    write |-> IF "SE_WRITE" \in s.sig THEN "" ELSE stuck.write]
  /\ seen' = [seen EXCEPT !.opens = @ + (IF "SE_OPEN" \in s.sig /\ s.state # "SSL_NONE" THEN 1 ELSE 0),
                          !.begun = @ \/ s.state # "SSL_NONE"]

AdapterUntouched == UNCHANGED <<ssl_conf, below, record, postedEvents>>

(* SetPeerCertificateDigest, called once as its assertions say.  An unknown
   algorithm or a wrong length leaves everything as it is. *)
SetPeerCertificateDigest(d) ==
  /\ adapter.alive /\ adapter.digest = "" /\ ~adapter.verified
  /\ LET s == [adapter EXCEPT !.digest = d]
     IN  CASE ~s.chain -> Take(s) /\ AdapterUntouched
           [] s.chain /\ ~VerifyPeerCertificate(s) -> Take(SslError(s, FALSE)) /\ AdapterUntouched
           [] OTHER -> /\ Take([s EXCEPT !.verified = TRUE])
                       /\ postedEvents' = postedEvents + (IF s.state = "SSL_CONNECTED" THEN 1 ELSE 0)
                       /\ UNCHANGED <<ssl_conf, below, record>>

(* SetDtlsSrtpCryptoSuites. *)
SetDtlsSrtpCryptoSuites(list) ==
  /\ adapter.alive /\ adapter.state = "SSL_NONE"
  /\ list # << >> /\ \A i \in 1 .. Len(list) : list[i] \in kSrtpCipherMap
  /\ adapter' = [adapter EXCEPT !.srtp_ciphers = list]
  /\ UNCHANGED <<ssl_conf, below, record, postedEvents, stuck, seen>>

SslStart(made, o) ==
  /\ adapter.alive /\ adapter.state = "SSL_NONE"
  /\ IF below # "OPEN"
     THEN Take([adapter EXCEPT !.state = "SSL_WAIT"])
     ELSE /\ Possible(adapter, o)
          /\ LET s == BeginSsl(adapter, made, o)
             IN  Take(IF s.rc # 0 THEN SslError(s, FALSE) ELSE s)
  /\ AdapterUntouched

(* OnEvent, one part for each kind of event; SE_OPEN may come with others. *)
AfterOpen(s, made, o) ==
  IF s.state # "SSL_WAIT" THEN [s EXCEPT !.sig = @ \union {"SE_OPEN"}]
  ELSE LET t == BeginSsl(s, made, o) IN IF t.rc # 0 THEN SslError(t, TRUE) ELSE t

AfterReady(s, events, o) ==
  CASE s.state = "SSL_NONE" -> [s EXCEPT !.sig = @ \union (events \intersect {"SE_READ", "SE_WRITE"})]
    [] s.state = "SSL_CONNECTING" ->
         LET t == ContinueSsl(s, o) IN IF t.rc # 0 THEN SslError(t, TRUE) ELSE t
    [] s.state = "SSL_CONNECTED" ->
         [s EXCEPT !.sig = @
            \union (IF "SE_WRITE" \in events \/ ("SE_READ" \in events /\ s.write_needs_read)
                    THEN {"SE_WRITE"} ELSE {})
            \union (IF "SE_READ" \in events \/ ("SE_WRITE" \in events /\ s.read_needs_write)
                    THEN {"SE_READ"} ELSE {})]
    [] OTHER -> s

StreamOpens(made, o) ==
  /\ adapter.alive /\ below = "OPENING" /\ below' = "OPEN"
  /\ adapter.state = "SSL_WAIT" => Possible(adapter, o)
  /\ Take(AfterOpen(adapter, made, o))
  /\ UNCHANGED <<ssl_conf, record, postedEvents>>

StreamReady(events, o) ==
  /\ adapter.alive /\ below = "OPEN"
  /\ adapter.state = "SSL_CONNECTING" => Possible(adapter, o)
  /\ Take(AfterReady(adapter, events, o))
  /\ UNCHANGED <<ssl_conf, below, postedEvents, record>>

(* A record of the peer has come: the stream below is ready to be read. *)
RecordComes(size) ==
  /\ adapter.alive /\ below = "OPEN" /\ adapter.state = "SSL_CONNECTED" /\ record.left = 0
  /\ record' = [size |-> size, left |-> size]
  /\ Take(AfterReady(adapter, {"SE_READ"}, [result |-> "error", callback |-> FALSE, timeout |-> FALSE]))
  /\ UNCHANGED <<ssl_conf, below, postedEvents>>

StreamCloses ==
  /\ adapter.alive /\ below # "CLOSED" /\ below' = "CLOSED"
  /\ LET s == SslCleanup(adapter) IN Take([s EXCEPT !.sig = {"SE_CLOSE"}])
  /\ UNCHANGED <<ssl_conf, record, postedEvents>>

(* The callback of SetTimeout: the result of ContinueSSL is not looked at. *)
TimeoutFires(o) ==
  /\ adapter.alive /\ adapter.timer /\ Possible(adapter, o)
  /\ Take(ContinueSsl(adapter, o))
  /\ AdapterUntouched

(* The task of PostEvent, which does nothing once the adapter is gone. *)
RunPosted ==
  /\ postedEvents > 0 /\ postedEvents' = postedEvents - 1
  /\ IF adapter.alive THEN Take([adapter EXCEPT !.sig = OpenEvents])
                      ELSE UNCHANGED <<adapter, stuck, seen>>
  /\ UNCHANGED <<ssl_conf, below, record>>

-----------------------------------------------------------------------------
(* Read and Write before StartSSL go to the stream below, in the clear
   (ssl_stream_adapter.h:158), which takes the data when it is open and may
   block (taken is FALSE). *)
PassThrough(op, taken) ==
  /\ adapter.alive /\ adapter.state = "SSL_NONE"
  /\ taken => below = "OPEN"
  /\ stuck' = [stuck EXCEPT ![op] = IF taken THEN "" ELSE "below"]
  /\ seen' = [seen EXCEPT !.late = @ \/ (taken /\ seen.begun)]
  /\ UNCHANGED <<ssl_conf, adapter, below, record, postedEvents>>

(* After it they block until the peer is verified; then they come to the
   result of SSL_read and SSL_write. *)
BlocksOn(s) ==
  CASE s.state \in {"SSL_WAIT", "SSL_CONNECTING"} -> "handshake"
    [] s.state = "SSL_CONNECTED" /\ Waiting(s) -> "verify"
    [] OTHER -> ""

Open == adapter.alive /\ adapter.state = "SSL_CONNECTED" /\ ~Waiting(adapter)

ReadOrWriteBlocks(op) ==
  /\ adapter.alive /\ BlocksOn(adapter) # ""
  /\ stuck' = [stuck EXCEPT ![op] = BlocksOn(adapter)]
  /\ UNCHANGED <<ssl_conf, adapter, below, record, postedEvents, seen>>

Lesser(a, b) == IF a < b THEN a ELSE b

(* Read of n bytes from a record.  In DTLS FlushInput drops what is left of
   it, and the call fails. *)
SslRead(n) ==
  /\ Open /\ record.left > 0
  /\ LET got == Lesser(n, record.left)
         short == ssl_conf.dtls /\ got < record.left
     IN  /\ record' = [record EXCEPT !.left = IF short THEN 0 ELSE @ - got]
         /\ seen' = [seen EXCEPT !.data = TRUE,
                       !.halves = @ \/ (ssl_conf.dtls /\ ~short /\ got # record.size)]
  /\ adapter' = [adapter EXCEPT !.read_needs_write = FALSE]
  /\ stuck' = [stuck EXCEPT !.read = ""]
  /\ UNCHANGED <<ssl_conf, below, postedEvents>>

(* SSL_ERROR_WANT_READ, SSL_ERROR_WANT_WRITE. *)
SslReadWants(what) ==
  /\ Open /\ record.left = 0
  /\ adapter' = [adapter EXCEPT !.read_needs_write = (what = "output")]
  /\ stuck' = [stuck EXCEPT !.read = what]
  /\ UNCHANGED <<ssl_conf, below, record, postedEvents, seen>>

SslWriteWants(what) ==
  /\ Open
  /\ adapter' = [adapter EXCEPT !.write_needs_read = (what = "input")]
  /\ stuck' = [stuck EXCEPT !.write = what]
  /\ UNCHANGED <<ssl_conf, below, record, postedEvents, seen>>

SslWrite ==
  /\ Open
  /\ adapter' = [adapter EXCEPT !.write_needs_read = FALSE]
  /\ stuck' = [stuck EXCEPT !.write = ""]
  /\ seen' = [seen EXCEPT !.data = TRUE]
  /\ UNCHANGED <<ssl_conf, below, record, postedEvents>>

(* Any other result of the two. *)
SslFails ==
  /\ Open /\ Take(SslError(adapter, FALSE)) /\ AdapterUntouched

(* Close, by the user or in Read when the peer has closed. *)
SslClose ==
  /\ adapter.alive
  /\ Take(SslCleanup(adapter)) /\ below' = "CLOSED"
  /\ UNCHANGED <<ssl_conf, record, postedEvents>>

SslDestroy ==
  /\ adapter.alive
  /\ Take([SslCleanup(adapter) EXCEPT !.alive = FALSE])
  /\ AdapterUntouched

SslStreamNext ==
  \/ \E d \in {"match", "other"} : SetPeerCertificateDigest(d)
  \/ \E list \in SuiteLists : SetDtlsSrtpCryptoSuites(list)
  \/ \E made \in BOOLEAN, o \in Outcomes : SslStart(made, o) \/ StreamOpens(made, o)
  \/ \E events \in SUBSET {"SE_READ", "SE_WRITE"} \ {{}}, o \in Outcomes : StreamReady(events, o)
  \/ \E o \in Outcomes : TimeoutFires(o)
  \/ \E size \in RecordSizes : RecordComes(size) \/ SslRead(size)
  \/ \E op \in {"read", "write"} :
       ReadOrWriteBlocks(op) \/ \E taken \in BOOLEAN : PassThrough(op, taken)
  \/ \E what \in {"input", "output"} : SslReadWants(what) \/ SslWriteWants(what)
  \/ SslWrite \/ SslFails \/ SslClose \/ SslDestroy \/ StreamCloses \/ RunPosted

SslStreamSpec == SslStreamInit /\ [][SslStreamNext]_sslStreamVars

-----------------------------------------------------------------------------
(* Once StartSSL was called, or the adapter was closed, nothing is read or
   written in the clear any more, and nothing through SSL before the peer's
   certificate has been found to have the digest that was set, whenever it was
   set; an open stream has told its user so once, or has posted it, and then no
   call still waits for the handshake or for what it waited for before it; the
   timer runs, and the SSL object is there, only while they may be used; a call
   that waits for the other direction is woken by it; and in DTLS no call
   returns a part of a message. *)
StreamOpensVerified ==
  /\ ~seen.late
  /\ seen.data /\ ssl_conf.auth => adapter.digest = "match" /\ adapter.verified
  /\ ssl_conf.auth => seen.opens + postedEvents <= 1
  /\ ssl_conf.auth /\ GetState(adapter) = "SS_OPEN" => seen.opens + postedEvents = 1
  /\ \A op \in {"read", "write"} :
       GetState(adapter) = "SS_OPEN" /\ stuck[op] \in {"below", "handshake", "verify"} => postedEvents > 0
  /\ adapter.timer => adapter.state = "SSL_CONNECTING" /\ adapter.ssl # "null"
  /\ adapter.ssl # "null" <=> adapter.state \in {"SSL_CONNECTING", "SSL_CONNECTED"}
  /\ Open => /\ stuck.write = "input" => adapter.write_needs_read
             /\ stuck.read = "output" => adapter.read_needs_write
  /\ ~seen.halves
  /\ adapter.profile # 0 => GetSrtpKeyAndSaltLengths(adapter.profile) # << >>
  /\ TablesAgree
=============================================================================
