--------------------------- MODULE Session_proofs ---------------------------
(***************************************************************************)
(* Proofs about how a session is set up: the parser of offers with the     *)
(* answers made from them, and OpenSSLStreamAdapter.                       *)
(*                                                                         *)
(* A function of the adapter takes its members, a record, to others.       *)
(* First what each function comes to, then what the steps made of them     *)
(* keep.                                                                   *)
(***************************************************************************)
EXTENDS SslStream, SessionDescription, SequenceTheorems, FiniteSetTheorems,
        WellFoundedInduction, NaturalsInduction, TLAPS

SslStates == {"SSL_NONE", "SSL_WAIT", "SSL_CONNECTING", "SSL_CONNECTED", "SSL_ERROR", "SSL_CLOSED"}
SslEvents == {"SE_OPEN", "SE_READ", "SE_WRITE", "SE_CLOSE"}

Adapters ==
  [alive : BOOLEAN, state : SslStates, ssl : {"null", "handshake", "open", "failed"}, ctx : BOOLEAN,
   digest : {"", "match", "other"}, verified : BOOLEAN, chain : BOOLEAN, timer : BOOLEAN,
   read_needs_write : BOOLEAN, write_needs_read : BOOLEAN, srtp_ciphers : Seq(kSrtpCipherMap),
   profile : kSrtpCipherMap \union {0}, sig : SUBSET SslEvents, rc : {0, -1}]

Working == {"SSL_CONNECTING", "SSL_CONNECTED"}

(* What is true of the members of the adapter at any time, also in the middle
   of a function. *)
Sound(s) ==
  /\ s \in Adapters
  /\ s.verified => s.digest = "match"
  /\ s.chain => s.state \in Working
  /\ s.timer => s.state = "SSL_CONNECTING"
  /\ s.ssl # "null" => s.state \in Working

(* A function that begins with s and ends with t leaves these as they are. *)
Frame(s, t) ==
  /\ t.alive = s.alive /\ t.digest = s.digest
  /\ t.read_needs_write = s.read_needs_write /\ t.write_needs_read = s.write_needs_read

(* An adapter that was cleaned up, member by member. *)
LEMMA CleanedAdapter ==
  ASSUME NEW s \in Adapters, NEW st \in SslStates
  PROVE  [s EXCEPT !.state = st, !.ssl = "null", !.ctx = FALSE, !.chain = FALSE, !.timer = FALSE]
           \in Adapters
  <1> DEFINE t1 == [s EXCEPT !.state = st]
             t2 == [t1 EXCEPT !.ssl = "null"]
             t3 == [t2 EXCEPT !.ctx = FALSE]
             t4 == [t3 EXCEPT !.chain = FALSE]
             t5 == [t4 EXCEPT !.timer = FALSE]
  <1>1. [s EXCEPT !.state = st, !.ssl = "null", !.ctx = FALSE, !.chain = FALSE, !.timer = FALSE] = t5
    OBVIOUS
  <1>2. t1 \in Adapters
    BY DEF Adapters
  <1> HIDE DEF t1
  <1>3. t2 \in Adapters
    BY <1>2 DEF Adapters
  <1> HIDE DEF t2
  <1>4. t3 \in Adapters
    BY <1>3 DEF Adapters
  <1> HIDE DEF t3
  <1>5. t4 \in Adapters
    BY <1>4 DEF Adapters
  <1> HIDE DEF t4
  <1>6. t5 \in Adapters
    BY <1>5 DEF Adapters
  <1> QED BY <1>1, <1>6

(* Cleanup and Error. *)
LEMMA CleanupSound ==
  ASSUME NEW s, Sound(s)
  PROVE  LET t == SslCleanup(s)
         IN  /\ Sound(t) /\ Frame(s, t) /\ t.verified = s.verified /\ t.sig = s.sig /\ t.rc = s.rc
             /\ t.state \in {"SSL_ERROR", "SSL_CLOSED"} /\ t.ssl = "null"
  <1> DEFINE t == SslCleanup(s)
  <1>1. s \in Adapters
    BY DEF Sound
  <1>2. t \in Adapters
    <2> DEFINE st == IF s.state = "SSL_ERROR" THEN s.state ELSE "SSL_CLOSED"
    <2>1. st \in SslStates
      BY DEF SslStates
    <2>2. t = [s EXCEPT !.state = st, !.ssl = "null", !.ctx = FALSE, !.chain = FALSE, !.timer = FALSE]
      BY DEF SslCleanup
    <2> HIDE DEF st, t
    <2> QED BY <1>1, <2>1, <2>2, CleanedAdapter
  <1>3. /\ Frame(s, t) /\ t.verified = s.verified /\ t.sig = s.sig /\ t.rc = s.rc
        /\ t.state \in {"SSL_ERROR", "SSL_CLOSED"} /\ t.ssl = "null" /\ ~t.chain /\ ~t.timer
    BY <1>1 DEF SslCleanup, Adapters, Frame
  <1> HIDE DEF t
  <1>4. Sound(t)
    BY <1>2, <1>3 DEF Sound, Frame
  <1> QED BY <1>3, <1>4 DEF t

LEMMA ErrorSound ==
  ASSUME NEW s \in Adapters, s.verified => s.digest = "match", NEW signal \in BOOLEAN
  PROVE  LET t == SslError(s, signal)
         IN  /\ Sound(t) /\ Frame(s, t) /\ t.verified = s.verified
             /\ t.sig \in {{"SE_CLOSE"}, {}}
             /\ t.state = "SSL_ERROR" /\ t.ssl = "null"
  <1> DEFINE r == [s EXCEPT !.state = "SSL_ERROR"]
             c == SslCleanup(r)
             t == SslError(s, signal)
  <1>0. r \in Adapters
    BY DEF Adapters, SslStates
  <1>1. c \in Adapters
    <2>1. r.state = "SSL_ERROR"
      BY DEF Adapters
    <2> HIDE DEF r
    <2>2. c = [r EXCEPT !.state = "SSL_ERROR", !.ssl = "null", !.ctx = FALSE, !.chain = FALSE,
                        !.timer = FALSE]
      BY <2>1 DEF SslCleanup
    <2> HIDE DEF c
    <2>3. "SSL_ERROR" \in SslStates
      BY DEF SslStates
    <2> QED BY <1>0, <2>2, <2>3, CleanedAdapter
  <1>2. /\ Frame(s, c) /\ c.verified = s.verified
        /\ c.state = "SSL_ERROR" /\ c.ssl = "null" /\ ~c.chain /\ ~c.timer
    BY DEF SslCleanup, Adapters, Frame
  <1>3. t = [c EXCEPT !.sig = IF signal THEN {"SE_CLOSE"} ELSE {}, !.rc = -1]
    BY DEF SslError
  <1> HIDE DEF c, t
  <1>4. t \in Adapters
    BY <1>1, <1>3 DEF Adapters, SslEvents
  <1>5. /\ Frame(c, t) /\ t.verified = c.verified /\ t.sig \in {{"SE_CLOSE"}, {}}
        /\ t.state = c.state /\ t.ssl = c.ssl /\ t.chain = c.chain /\ t.timer = c.timer
    BY <1>1, <1>3 DEF Adapters, Frame
  <1>6. Sound(t)
    BY <1>2, <1>4, <1>5 DEF Sound, Frame
  <1> QED BY <1>2, <1>5, <1>6 DEF Frame, t

(* From s to t the adapter loses nothing that it knew of its peer. *)
Moved(s, t) == /\ Sound(t) /\ Frame(s, t) /\ (s.verified => t.verified)
               /\ (t.ssl # "null" <=> t.state \in Working)
               /\ (t.state = "SSL_NONE" => s.state = "SSL_NONE")

(* What ContinueSSL comes to, and what a function that gives up comes to. *)
Continued(s, t) ==
  /\ Moved(s, t) /\ t.ssl # "null"
  /\ \/ t.state = "SSL_CONNECTED" /\ t.sig = (IF Waiting(t) THEN {} ELSE OpenEvents)
     \/ t.state = "SSL_CONNECTING" /\ t.sig = {}

Ended(s, t) ==
  Moved(s, t) /\ t.state \in {"SSL_ERROR", "SSL_CLOSED"} /\ t.sig \in {{"SE_CLOSE"}, {}}

(* SSLVerifyCallback and ContinueSSL. *)
LEMMA VerifySound ==
  ASSUME NEW s, Sound(s), s.state \in Working
  PROVE  LET t == Verify(s)
         IN  /\ Sound(t) /\ Frame(s, t) /\ (s.verified => t.verified) /\ t.sig = s.sig
             /\ t.state = s.state
  <1> DEFINE c == [s EXCEPT !.chain = TRUE]
             t == Verify(s)
  <1>1. s \in Adapters
    BY DEF Sound
  <1>2. c \in Adapters
    BY <1>1 DEF Adapters
  <1>3. /\ Frame(s, c) /\ c.verified = s.verified /\ c.sig = s.sig /\ c.state = s.state
        /\ c.ssl = s.ssl /\ c.timer = s.timer /\ c.chain
    BY <1>1 DEF Adapters, Frame
  <1>4. t = [c EXCEPT !.verified = c.verified \/ VerifyPeerCertificate(c)]
    BY <1>1, <1>2 DEF Verify, Adapters
  <1> HIDE DEF c, t
  <1>5. (c.verified \/ VerifyPeerCertificate(c)) \in BOOLEAN
    BY <1>2 DEF Adapters, VerifyPeerCertificate
  <1>6. t \in Adapters
    BY <1>2, <1>4, <1>5 DEF Adapters
  <1>7. /\ Frame(c, t) /\ t.verified = (c.verified \/ VerifyPeerCertificate(c)) /\ t.sig = c.sig
        /\ t.state = c.state /\ t.ssl = c.ssl /\ t.timer = c.timer /\ t.chain = c.chain
    BY <1>2, <1>4 DEF Adapters, Frame
  <1>8. t.verified => t.digest = "match"
    BY <1>3, <1>7 DEF Sound, Frame, VerifyPeerCertificate
  <1>9. Sound(t)
    BY <1>3, <1>6, <1>7, <1>8 DEF Sound
  <1> QED BY <1>3, <1>7, <1>9 DEF Frame, t

LEMMA ContinueSound ==
  ASSUME NEW s, Sound(s), s.state = "SSL_CONNECTING", s.sig = {}, NEW o \in Outcomes
  PROVE  Continued(s, ContinueSsl(s, o))
  <1> DEFINE v == IF o.callback THEN Verify(s) ELSE s
             c == [v EXCEPT !.timer = FALSE]
             t == ContinueSsl(s, o)
  <1>1. /\ Sound(v) /\ Frame(s, v) /\ (s.verified => v.verified) /\ v.sig = {}
        /\ v.state = "SSL_CONNECTING"
    BY VerifySound DEF Working, Frame
  <1>2. t = CASE o.result = "none" ->
             [c EXCEPT !.state = "SSL_CONNECTED", !.ssl = "open", !.rc = 0,
                       !.profile = IF s.srtp_ciphers = << >> THEN 0 ELSE Head(s.srtp_ciphers),
                       !.sig = @ \union (IF Waiting(c) THEN {} ELSE OpenEvents)]
        [] o.result \in {"want_read", "want_write"} ->
             [c EXCEPT !.ssl = "handshake", !.timer = o.timeout, !.rc = 0]
        [] o.result = "error" -> [c EXCEPT !.ssl = "failed", !.rc = -1]
    BY DEF ContinueSsl
  <1> HIDE DEF v, t
  <1>3. v \in Adapters
    BY <1>1 DEF Sound
  <1>4. c \in Adapters
    BY <1>3 DEF Adapters
  <1>5. /\ Frame(v, c) /\ c.verified = v.verified /\ c.sig = {} /\ c.state = v.state
        /\ c.chain = v.chain /\ ~c.timer
    BY <1>1, <1>3 DEF Adapters, Frame
  <1> HIDE DEF c
  <1>6. (IF s.srtp_ciphers = << >> THEN 0 ELSE Head(s.srtp_ciphers)) \in kSrtpCipherMap \union {0}
    <2>1. s.srtp_ciphers \in Seq(kSrtpCipherMap)
      BY DEF Sound, Adapters
    <2> QED BY <2>1
  <1>7. CASE o.result = "none"
    <2> DEFINE p == IF s.srtp_ciphers = << >> THEN 0 ELSE Head(s.srtp_ciphers)
               e == IF Waiting(c) THEN {} ELSE OpenEvents
    <2>1. t = [c EXCEPT !.state = "SSL_CONNECTED", !.ssl = "open", !.rc = 0, !.profile = p,
                        !.sig = c.sig \union e]
      BY <1>2, <1>4, <1>7 DEF Adapters
    <2>2. p \in kSrtpCipherMap \union {0} /\ e \in SUBSET SslEvents
      BY <1>6 DEF OpenEvents, SslEvents
    <2> HIDE DEF p, e
    <2>3. t \in Adapters
      BY <1>4, <2>1, <2>2 DEF Adapters, SslStates
    <2>4. /\ Frame(c, t) /\ t.verified = c.verified /\ t.chain = c.chain /\ t.timer = c.timer
          /\ t.state = "SSL_CONNECTED" /\ t.ssl = "open" /\ t.sig = c.sig \union e
      BY <1>4, <2>1 DEF Adapters, Frame
    <2>5. t.sig = IF Waiting(t) THEN {} ELSE OpenEvents
      BY <1>5, <2>4 DEF e, Waiting
    <2>6. Sound(t)
      BY <1>1, <1>5, <2>3, <2>4 DEF Sound, Frame, Working
    <2> QED BY <1>1, <1>5, <2>4, <2>5, <2>6 DEF Continued, Moved, Frame, Working, t
  <1>8. CASE o.result \in {"want_read", "want_write"}
    <2>1. t = [c EXCEPT !.ssl = "handshake", !.timer = o.timeout, !.rc = 0]
      BY <1>2, <1>8
    <2>2. o.timeout \in BOOLEAN
      BY DEF Outcomes
    <2>3. t \in Adapters
      BY <1>4, <2>1, <2>2 DEF Adapters
    <2>4. /\ Frame(c, t) /\ t.verified = c.verified /\ t.chain = c.chain
          /\ t.state = c.state /\ t.ssl = "handshake" /\ t.sig = c.sig
      BY <1>4, <2>1 DEF Adapters, Frame
    <2>5. Sound(t)
      BY <1>1, <1>5, <2>3, <2>4 DEF Sound, Frame, Working
    <2> QED BY <1>1, <1>5, <2>4, <2>5 DEF Continued, Moved, Frame, Working, t
  <1>9. CASE o.result = "error"
    <2>1. t = [c EXCEPT !.ssl = "failed", !.rc = -1]
      BY <1>2, <1>9
    <2>3. t \in Adapters
      BY <1>4, <2>1 DEF Adapters
    <2>4. /\ Frame(c, t) /\ t.verified = c.verified /\ t.chain = c.chain /\ t.timer = c.timer
          /\ t.state = c.state /\ t.ssl = "failed" /\ t.sig = c.sig
      BY <1>4, <2>1 DEF Adapters, Frame
    <2>5. Sound(t)
      BY <1>1, <1>5, <2>3, <2>4 DEF Sound, Frame, Working
    <2> QED BY <1>1, <1>5, <2>4, <2>5 DEF Continued, Moved, Frame, Working, t
  <1>10. o.result \in {"none", "want_read", "want_write", "error"}
    BY DEF Outcomes
  <1> QED BY <1>7, <1>8, <1>9, <1>10

(* BeginSSL and what its callers do when it fails. *)
Settled(s, t) == Continued(s, t) \/ Ended(s, t)

LEMMA GiveUpSound ==
  ASSUME NEW s, NEW t \in Adapters, Frame(s, t), s.verified => t.verified,
         t.verified => t.digest = "match", NEW signal \in BOOLEAN
  PROVE  Ended(s, SslError(t, signal))
  <1> DEFINE u == SslError(t, signal)
  <1>1. /\ Sound(u) /\ Frame(t, u) /\ u.verified = t.verified /\ u.sig \in {{"SE_CLOSE"}, {}}
        /\ u.state = "SSL_ERROR" /\ u.ssl = "null"
    BY ErrorSound
  <1> HIDE DEF u
  <1>2. Frame(s, u)
    BY <1>1 DEF Frame
  <1> QED BY <1>1, <1>2 DEF Ended, Moved, Working, u

LEMMA BeginSound ==
  ASSUME NEW s, Sound(s), s.sig = {}, s.state \in {"SSL_NONE", "SSL_WAIT"},
         NEW made \in BOOLEAN, NEW o \in Outcomes, NEW signal \in BOOLEAN
  PROVE  LET t == BeginSsl(s, made, o)
         IN  Settled(s, IF t.rc # 0 THEN SslError(t, signal) ELSE t)
  <1> DEFINE t == BeginSsl(s, made, o)
             r == [s EXCEPT !.state = "SSL_CONNECTING", !.ssl = "handshake", !.ctx = TRUE]
             f == [s EXCEPT !.state = "SSL_CONNECTING", !.rc = -1]
  <1>1. s \in Adapters
    BY DEF Sound
  <1>2. CASE made
    <2>1. r \in Adapters
      BY <1>1 DEF Adapters, SslStates
    <2>2. /\ Frame(s, r) /\ r.verified = s.verified /\ r.chain = s.chain /\ r.timer = s.timer
          /\ r.state = "SSL_CONNECTING" /\ r.sig = s.sig
      BY <1>1 DEF Adapters, Frame
    <2>3. t = ContinueSsl(r, o)
      BY <1>2 DEF BeginSsl
    <2> HIDE DEF r, t
    <2>4. Sound(r)
      BY <2>1, <2>2 DEF Sound, Frame, Working
    <2>5. Continued(r, t)
      BY <2>2, <2>3, <2>4, ContinueSound
    <2>6. Continued(s, t)
      BY <2>2, <2>5 DEF Continued, Moved, Frame
    <2>7. Ended(s, SslError(t, signal))
      BY <2>6, GiveUpSound DEF Continued, Moved, Sound
    <2> QED BY <2>6, <2>7 DEF Settled, t
  <1>3. CASE ~made
    <2>1. f \in Adapters
      BY <1>1 DEF Adapters, SslStates
    <2>2. Frame(s, f) /\ f.verified = s.verified /\ f.rc = -1
      BY <1>1 DEF Adapters, Frame
    <2>3. t = f
      BY <1>3 DEF BeginSsl
    <2> HIDE DEF f, t
    <2>4. f.verified => f.digest = "match"
      BY <2>2 DEF Sound, Frame
    <2>5. Ended(s, SslError(f, signal))
      BY <2>1, <2>2, <2>4, GiveUpSound
    <2> QED BY <2>2, <2>3, <2>5 DEF Settled, t
  <1> QED BY <1>2, <1>3

(* A step that only tells the user something. *)
Told(s, t) ==
  /\ Moved(s, t) /\ t.state = s.state /\ t.verified = s.verified
  /\ "SE_CLOSE" \notin t.sig
  /\ ("SE_OPEN" \in t.sig => s.state = "SSL_NONE")

LEMMA SignalSound ==
  ASSUME NEW s, Sound(s), s.ssl # "null" <=> s.state \in Working, NEW e \in SUBSET SslEvents
  PROVE  LET t == [s EXCEPT !.sig = e]
         IN  Moved(s, t) /\ t.state = s.state /\ t.verified = s.verified /\ t.sig = e
  <1> DEFINE t == [s EXCEPT !.sig = e]
  <1>1. s \in Adapters
    BY DEF Sound
  <1>2. t \in Adapters
    BY <1>1 DEF Adapters
  <1>3. /\ Frame(s, t) /\ t.verified = s.verified /\ t.chain = s.chain /\ t.timer = s.timer
        /\ t.state = s.state /\ t.ssl = s.ssl /\ t.sig = e
    BY <1>1 DEF Adapters, Frame
  <1> HIDE DEF t
  <1> QED BY <1>2, <1>3 DEF Moved, Sound, Frame, t

(* OnEvent. *)
LEMMA OpenSound ==
  ASSUME NEW s, Sound(s), s.sig = {}, s.ssl # "null" <=> s.state \in Working,
         s.state \in {"SSL_NONE", "SSL_WAIT"}, NEW made \in BOOLEAN, NEW o \in Outcomes
  PROVE  LET t == AfterOpen(s, made, o)
         IN  Told(s, t) \/ Settled(s, t)
  <1> DEFINE t == AfterOpen(s, made, o)
  <1>1. CASE s.state = "SSL_WAIT"
    <2> DEFINE b == BeginSsl(s, made, o)
    <2>1. t = IF b.rc # 0 THEN SslError(b, TRUE) ELSE b
      BY <1>1 DEF AfterOpen
    <2>2. Settled(s, IF b.rc # 0 THEN SslError(b, TRUE) ELSE b)
      BY <1>1, BeginSound
    <2> HIDE DEF t, b
    <2> QED BY <2>1, <2>2 DEF t
  <1>2. CASE s.state = "SSL_NONE"
    <2>1. s \in Adapters
      BY DEF Sound
    <2>2. t = [s EXCEPT !.sig = {"SE_OPEN"}]
      BY <1>2, <2>1 DEF AfterOpen, Adapters
    <2>3. {"SE_OPEN"} \in SUBSET SslEvents
      BY DEF SslEvents
    <2> HIDE DEF t
    <2>4. Moved(s, t) /\ t.state = s.state /\ t.verified = s.verified /\ t.sig = {"SE_OPEN"}
      BY <2>2, <2>3, SignalSound
    <2> QED BY <1>2, <2>4 DEF Told, t
  <1> QED BY <1>1, <1>2

LEMMA ReadySound ==
  ASSUME NEW s, Sound(s), s.sig = {}, s.rc = 0, s.ssl # "null" <=> s.state \in Working,
         NEW events \in SUBSET {"SE_READ", "SE_WRITE"}, NEW o \in Outcomes
  PROVE  LET t == AfterReady(s, events, o)
         IN  Told(s, t) \/ (s.state = "SSL_CONNECTING" /\ Settled(s, t))
  <1> DEFINE t == AfterReady(s, events, o)
  <1>0. s \in Adapters
    BY DEF Sound
  <1>1. CASE s.state = "SSL_NONE"
    <2> DEFINE e == events \intersect {"SE_READ", "SE_WRITE"}
    <2>1. t = [s EXCEPT !.sig = e]
      BY <1>0, <1>1 DEF AfterReady, Adapters
    <2>2. e \in SUBSET SslEvents /\ "SE_CLOSE" \notin e
      BY DEF SslEvents
    <2> HIDE DEF t, e
    <2>3. Moved(s, t) /\ t.state = s.state /\ t.verified = s.verified /\ t.sig = e
      BY <2>1, <2>2, SignalSound
    <2> QED BY <1>1, <2>2, <2>3 DEF Told, t
  <1>2. CASE s.state = "SSL_CONNECTING"
    <2> DEFINE c == ContinueSsl(s, o)
    <2>1. t = IF c.rc # 0 THEN SslError(c, TRUE) ELSE c
      BY <1>2 DEF AfterReady
    <2>2. Continued(s, c)
      BY <1>2, ContinueSound
    <2> HIDE DEF t, c
    <2>3. Ended(s, SslError(c, TRUE))
      BY <2>2, GiveUpSound DEF Continued, Moved, Sound
    <2> QED BY <1>2, <2>1, <2>2, <2>3 DEF Settled, t
  <1>3. CASE s.state = "SSL_CONNECTED"
    <2> DEFINE e == (IF "SE_WRITE" \in events \/ ("SE_READ" \in events /\ s.write_needs_read)
                     THEN {"SE_WRITE"} ELSE {})
                    \union (IF "SE_READ" \in events \/ ("SE_WRITE" \in events /\ s.read_needs_write)
                            THEN {"SE_READ"} ELSE {})
    <2>1. t = [s EXCEPT !.sig = e]
      BY <1>0, <1>3 DEF AfterReady, Adapters
    <2>2. e \in SUBSET SslEvents /\ "SE_CLOSE" \notin e /\ "SE_OPEN" \notin e
      BY DEF SslEvents
    <2> HIDE DEF t, e
    <2>3. Moved(s, t) /\ t.state = s.state /\ t.verified = s.verified /\ t.sig = e
      BY <2>1, <2>2, SignalSound
    <2> QED BY <2>2, <2>3 DEF Told, t
  <1>4. CASE s.state \notin {"SSL_NONE", "SSL_CONNECTING", "SSL_CONNECTED"}
    <2>1. t = s
      BY <1>4 DEF AfterReady
    <2> QED BY <2>1 DEF Told, Moved, Frame
  <1> QED BY <1>1, <1>2, <1>3, <1>4

-----------------------------------------------------------------------------
(***************************************************************************)
(* The inductive invariant of the adapter.  While the stream below is      *)
(* opening the handshake has not begun; the user is told once, when the    *)
(* peer is verified and the handshake is done, whichever comes last.       *)
(***************************************************************************)
Blocked == {"below", "handshake", "verify"}
StuckValues == Blocked \union {"", "input", "output"}

SslTypes ==
  /\ ssl_conf \in SslConfigs
  /\ Sound(adapter) /\ adapter.sig = {} /\ adapter.rc = 0
  /\ (adapter.ssl # "null" <=> adapter.state \in Working)
  /\ below \in {"OPENING", "OPEN", "CLOSED"}
  /\ record \in [size : Nat, left : Nat]
  /\ postedEvents \in Nat
  /\ stuck \in [read : StuckValues,
                write : StuckValues]
  /\ seen \in [opens : Nat, data : BOOLEAN, halves : BOOLEAN, begun : BOOLEAN, late : BOOLEAN]

BeginsOpen ==
  /\ below = "OPENING" /\ adapter.alive => adapter.state \in {"SSL_NONE", "SSL_WAIT"}
  /\ ~adapter.alive => adapter.state \in {"SSL_ERROR", "SSL_CLOSED"}

DataVerified ==
  /\ seen.data /\ ssl_conf.auth => adapter.verified
  /\ ~seen.late
  /\ seen.begun => adapter.state # "SSL_NONE"

ToldOnce ==
  ssl_conf.auth =>
    /\ seen.opens + postedEvents \in {0, 1}
    /\ seen.opens + postedEvents = 1 =>
         adapter.verified /\ adapter.state \in {"SSL_CONNECTED", "SSL_CLOSED", "SSL_ERROR"}
    /\ adapter.state = "SSL_CONNECTED" /\ adapter.verified => seen.opens + postedEvents = 1

NobodyForgotten ==
  \A op \in {"read", "write"} :
    /\ adapter.state = "SSL_CONNECTED" /\ ~Waiting(adapter) /\ stuck[op] \in Blocked
    => postedEvents > 0

OtherDirection ==
  /\ stuck.write = "input" => adapter.write_needs_read
  /\ stuck.read = "output" => adapter.read_needs_write

WholeRecords == ~seen.halves /\ (ssl_conf.dtls => record.left \in {0, record.size})

SslInv ==
  /\ SslTypes /\ BeginsOpen /\ DataVerified /\ ToldOnce /\ NobodyForgotten /\ OtherDirection
  /\ WholeRecords

(* The variables after Take(s), field by field. *)
SeenType == [opens : Nat, data : BOOLEAN, halves : BOOLEAN, begun : BOOLEAN, late : BOOLEAN]
StuckType == [read : StuckValues,
              write : StuckValues]

Taken(s) ==
  /\ adapter' \in Adapters /\ adapter'.sig = {} /\ adapter'.rc = 0
  /\ adapter'.alive = s.alive /\ adapter'.state = s.state /\ adapter'.ssl = s.ssl
  /\ adapter'.digest = s.digest /\ adapter'.verified = s.verified /\ adapter'.chain = s.chain
  /\ adapter'.timer = s.timer /\ adapter'.read_needs_write = s.read_needs_write
  /\ adapter'.write_needs_read = s.write_needs_read
  /\ seen' \in SeenType /\ seen'.data = seen.data /\ seen'.halves = seen.halves
  /\ seen'.late = seen.late /\ (seen'.begun => seen.begun \/ s.state # "SSL_NONE")
  /\ "SE_OPEN" \in s.sig /\ s.state # "SSL_NONE" => seen'.opens = seen.opens + 1
  /\ ~("SE_OPEN" \in s.sig /\ s.state # "SSL_NONE") => seen'.opens = seen.opens
  /\ stuck' \in StuckType
  /\ stuck'.read \in {stuck.read, ""} /\ stuck'.write \in {stuck.write, ""}
  /\ "SE_READ" \in s.sig => stuck'.read = ""
  /\ "SE_WRITE" \in s.sig => stuck'.write = ""

LEMMA TakeFields ==
  ASSUME NEW s \in Adapters, Take(s), seen \in SeenType, stuck \in StuckType
  PROVE  Taken(s)
  <1>1. adapter' = [s EXCEPT !.sig = {}, !.rc = 0]
    BY DEF Take
  <1>2. adapter' \in Adapters
    BY <1>1 DEF Adapters
  <1>3. /\ adapter'.sig = {} /\ adapter'.rc = 0
        /\ adapter'.alive = s.alive /\ adapter'.state = s.state /\ adapter'.ssl = s.ssl
        /\ adapter'.digest = s.digest /\ adapter'.verified = s.verified /\ adapter'.chain = s.chain
        /\ adapter'.timer = s.timer /\ adapter'.read_needs_write = s.read_needs_write
        /\ adapter'.write_needs_read = s.write_needs_read
    BY <1>1 DEF Adapters
  <1>4. /\ seen' \in SeenType /\ seen'.data = seen.data /\ seen'.halves = seen.halves
        /\ seen'.late = seen.late /\ (seen'.begun => seen.begun \/ s.state # "SSL_NONE")
        /\ "SE_OPEN" \in s.sig /\ s.state # "SSL_NONE" => seen'.opens = seen.opens + 1
        /\ ~("SE_OPEN" \in s.sig /\ s.state # "SSL_NONE") => seen'.opens = seen.opens
    <2> DEFINE k == IF "SE_OPEN" \in s.sig /\ s.state # "SSL_NONE" THEN 1 ELSE 0
               b == seen.begun \/ s.state # "SSL_NONE"
    <2>1. seen' = [seen EXCEPT !.opens = seen.opens + k, !.begun = b]
      BY DEF Take, SeenType
    <2>2. k \in Nat /\ b \in BOOLEAN
      BY DEF SeenType
    <2> HIDE DEF k, b
    <2>3. /\ seen' \in SeenType /\ seen'.data = seen.data /\ seen'.halves = seen.halves
          /\ seen'.opens = seen.opens + k /\ seen'.late = seen.late /\ seen'.begun = b
      <3> DEFINE t == [seen EXCEPT !.opens = seen.opens + k]
      <3>1. /\ t \in SeenType /\ t.opens = seen.opens + k /\ t.data = seen.data
            /\ t.halves = seen.halves /\ t.late = seen.late
        BY <2>2 DEF SeenType
      <3>2. seen' = [t EXCEPT !.begun = b]
        BY <2>1
      <3> HIDE DEF t
      <3> QED BY <2>2, <3>1, <3>2 DEF SeenType
    <2> QED BY <2>3 DEF k, b, SeenType
  <1>5. /\ stuck' \in StuckType
        /\ stuck'.read \in {stuck.read, ""} /\ stuck'.write \in {stuck.write, ""}
        /\ "SE_READ" \in s.sig => stuck'.read = ""
        /\ "SE_WRITE" \in s.sig => stuck'.write = ""
    BY DEF Take, StuckType, Blocked, StuckValues
  <1> QED BY <1>2, <1>3, <1>4, <1>5 DEF Taken

(* The parts of the invariant that every step with Take keeps. *)
Keeps(s, t) ==
  /\ Sound(t) /\ (s.verified => t.verified)
  /\ t.read_needs_write = s.read_needs_write /\ t.write_needs_read = s.write_needs_read
  /\ (t.ssl # "null" <=> t.state \in Working)
  /\ (t.state = "SSL_NONE" => s.state = "SSL_NONE")

Types(s) ==
  /\ below' \in {"OPENING", "OPEN", "CLOSED"} /\ record' \in [size : Nat, left : Nat]
  /\ postedEvents' \in Nat /\ UNCHANGED ssl_conf

LEMMA TakeKeeps ==
  ASSUME SslInv, NEW s, Keeps(adapter, s), Take(s), Types(s)
  PROVE  Taken(s) /\ SslTypes' /\ DataVerified' /\ OtherDirection'
  <1>1. s \in Adapters /\ seen \in SeenType /\ stuck \in StuckType
    BY DEF SslInv, SslTypes, SeenType, StuckType, Keeps, Sound
  <1>2. Taken(s)
    BY <1>1, TakeFields
  <1>3. Sound(adapter')
    BY <1>2 DEF Taken, Keeps, Sound
  <1>4. SslTypes'
    BY <1>2, <1>3 DEF Taken, Keeps, Types, SslInv, SslTypes, SeenType, StuckType
  <1>5. DataVerified'
    BY <1>2 DEF Taken, Keeps, Types, SslInv, DataVerified
  <1>6. OtherDirection'
    BY <1>2 DEF Taken, Keeps, SslInv, OtherDirection
  <1> QED BY <1>2, <1>4, <1>5, <1>6

LEMMA MovedKeeps ==
  ASSUME NEW s, NEW t, Moved(s, t)
  PROVE  Keeps(s, t)
  BY DEF Moved, Keeps, Frame

(* A step that tells the user something, and no posted event goes or comes. *)
LEMMA ToldKeeps ==
  ASSUME SslInv, NEW s, Told(adapter, s), Take(s), Types(s), postedEvents' = postedEvents,
         below' = "OPENING" => below = "OPENING"
  PROVE  SslTypes' /\ DataVerified' /\ OtherDirection' /\ BeginsOpen' /\ ToldOnce' /\ NobodyForgotten'
  <1>1. Taken(s) /\ SslTypes' /\ DataVerified' /\ OtherDirection'
    BY TakeKeeps, MovedKeeps DEF Told
  <1>2. BeginsOpen'
    BY <1>1 DEF Taken, Told, Moved, Frame, SslInv, BeginsOpen
  <1>3. ToldOnce'
    BY <1>1 DEF Taken, Told, Types, SslInv, ToldOnce
  <1>4. NobodyForgotten'
    BY <1>1 DEF Taken, Told, Types, SslInv, NobodyForgotten, Waiting, Blocked
  <1> QED BY <1>1, <1>2, <1>3, <1>4

(* A step of the handshake. *)
LEMMA SettledKeeps ==
  ASSUME SslInv, NEW s, Settled(adapter, s), Take(s), Types(s), postedEvents' = postedEvents,
         adapter.state \in {"SSL_NONE", "SSL_WAIT", "SSL_CONNECTING"}, adapter.alive,
         below' # "OPENING"
  PROVE  SslTypes' /\ DataVerified' /\ OtherDirection' /\ BeginsOpen' /\ ToldOnce' /\ NobodyForgotten'
  <1>0. Moved(adapter, s)
    BY DEF Settled, Continued, Ended
  <1>1. Taken(s) /\ SslTypes' /\ DataVerified' /\ OtherDirection'
    BY <1>0, TakeKeeps, MovedKeeps
  <1>2. BeginsOpen'
    BY <1>0, <1>1 DEF Taken, Moved, Frame, BeginsOpen
  <1>3. ssl_conf.auth => seen.opens + postedEvents = 0
    BY DEF SslInv, ToldOnce
  <1>4. ssl_conf.auth' = ssl_conf.auth /\ ssl_conf.auth \in BOOLEAN
    BY SslStreamConstants DEF Types, SslInv, SslTypes
  <1>5. CASE Continued(adapter, s) /\ s.state = "SSL_CONNECTED" /\ ~Waiting(s)
    <2>1. s.sig = OpenEvents
      BY <1>5 DEF Continued
    <2>2. seen'.opens = seen.opens + 1 /\ stuck'.read = "" /\ stuck'.write = ""
      BY <1>1, <1>5, <2>1 DEF Taken, OpenEvents
    <2>3. ToldOnce'
      <3> SUFFICES ASSUME ssl_conf.auth
                   PROVE  /\ (seen.opens + postedEvents)' = 1
                          /\ adapter'.verified /\ adapter'.state = "SSL_CONNECTED"
        BY <1>4 DEF ToldOnce
      <3>1. seen.opens \in Nat /\ postedEvents \in Nat
        BY DEF SslInv, SslTypes
      <3>2. seen.opens = 0 /\ postedEvents = 0
        BY <1>3, <3>1
      <3>3. seen.opens + 1 = 1
        BY <3>2
      <3>4. seen'.opens = 1
        BY <2>2, <3>3, Zenon
      <3>5. postedEvents' = 0
        BY <3>2
      <3>6. (seen.opens + postedEvents)' = 1
        BY <3>4, <3>5
      <3> QED BY <1>1, <1>5, <3>6 DEF Taken, Waiting
    <2>4. NobodyForgotten'
      BY <2>2 DEF NobodyForgotten, Blocked
    <2> QED BY <1>1, <1>2, <2>3, <2>4
  <1>6. CASE ~(s.state = "SSL_CONNECTED" /\ ~Waiting(s))
    <2>1. "SE_OPEN" \notin s.sig
      BY <1>6 DEF Settled, Continued, Ended
    <2>2. seen'.opens = seen.opens
      BY <1>1, <2>1 DEF Taken
    <2>3. ToldOnce'
      <3> SUFFICES ASSUME ssl_conf.auth
                   PROVE  /\ (seen.opens + postedEvents)' = 0
                          /\ ~(adapter'.state = "SSL_CONNECTED" /\ adapter'.verified)
        BY <1>4 DEF ToldOnce
      <3>1. (seen.opens + postedEvents)' = 0
        BY <1>3, <2>2
      <3> QED BY <1>1, <1>6, <3>1 DEF Taken, Waiting
    <2>4. NobodyForgotten'
      BY <1>1, <1>4, <1>6 DEF Taken, NobodyForgotten, Waiting
    <2> QED BY <1>1, <1>2, <2>3, <2>4
  <1> QED BY <1>5, <1>6 DEF Settled, Ended

(* A step that ends it. *)
Over(s) == s.state \in {"SSL_ERROR", "SSL_CLOSED"} /\ "SE_OPEN" \notin s.sig

LEMMA OverKeeps ==
  ASSUME SslInv, NEW s, Keeps(adapter, s), Over(s), Take(s), Types(s), postedEvents' = postedEvents,
         ~s.alive \/ below' # "OPENING"
  PROVE  SslTypes' /\ DataVerified' /\ OtherDirection' /\ BeginsOpen' /\ ToldOnce' /\ NobodyForgotten'
  <1>1. Taken(s) /\ SslTypes' /\ DataVerified' /\ OtherDirection'
    BY TakeKeeps
  <1>2. BeginsOpen'
    BY <1>1 DEF Taken, Over, BeginsOpen
  <1>3. ToldOnce'
    BY <1>1 DEF Taken, Over, Keeps, Types, SslInv, ToldOnce
  <1>4. NobodyForgotten'
    BY <1>1 DEF Taken, Over, NobodyForgotten
  <1> QED BY <1>1, <1>2, <1>3, <1>4

-----------------------------------------------------------------------------
(* Every action keeps the invariant.  First those of the handshake. *)
LEMMA RecordKept ==
  ASSUME SslInv, UNCHANGED <<ssl_conf, record>>, seen'.halves = seen.halves
  PROVE  WholeRecords'
  BY DEF SslInv, WholeRecords

LEMMA StartKeeps ==
  ASSUME SslInv, NEW made \in BOOLEAN, NEW o \in Outcomes, SslStart(made, o)
  PROVE  SslInv'
  <1>1. /\ SslTypes /\ Sound(adapter) /\ adapter.sig = {} /\ adapter.alive
        /\ adapter.state = "SSL_NONE" /\ (adapter.ssl # "null" <=> adapter.state \in Working)
    BY DEF SslInv, SslTypes, SslStart
  <1>2. UNCHANGED <<ssl_conf, below, record, postedEvents>>
    BY DEF SslStart, AdapterUntouched
  <1>3. below # "OPEN" => Take([adapter EXCEPT !.state = "SSL_WAIT"])
    BY DEF SslStart
  <1>4. \A s : Types(s)
    BY <1>1, <1>2 DEF Types, SslTypes
  <1>5. CASE below # "OPEN"
    <2> DEFINE s == [adapter EXCEPT !.state = "SSL_WAIT"]
    <2>1. adapter \in Adapters
      BY <1>1 DEF Sound
    <2>2. s \in Adapters
      BY <2>1 DEF Adapters, SslStates
    <2>3. /\ Frame(adapter, s) /\ s.verified = adapter.verified /\ s.chain = adapter.chain
          /\ s.timer = adapter.timer /\ s.state = "SSL_WAIT" /\ s.ssl = adapter.ssl /\ s.sig = {}
      BY <1>1, <2>1 DEF Adapters, Frame
    <2>4. Take(s)
      BY <1>3, <1>5
    <2> HIDE DEF s
    <2>5. Keeps(adapter, s)
      BY <1>1, <2>2, <2>3 DEF Keeps, Sound, Frame, Working
    <2>6. Taken(s) /\ SslTypes' /\ DataVerified' /\ OtherDirection'
      BY <1>4, <2>4, <2>5, TakeKeeps
    <2>7. BeginsOpen'
      BY <1>1, <2>3, <2>6 DEF Taken, BeginsOpen, Frame
    <2>8. seen'.opens = seen.opens /\ postedEvents' = postedEvents /\ ssl_conf' = ssl_conf
      BY <1>2, <2>3, <2>6 DEF Taken
    <2>9. ToldOnce'
      BY <1>1, <2>3, <2>6, <2>8 DEF Taken, SslInv, ToldOnce
    <2>10. NobodyForgotten'
      BY <2>3, <2>6 DEF Taken, NobodyForgotten
    <2>11. WholeRecords'
      BY <1>2, <2>6, RecordKept DEF Taken
    <2> QED BY <2>6, <2>7, <2>9, <2>10, <2>11 DEF SslInv
  <1>6. CASE below = "OPEN"
    <2> DEFINE b == BeginSsl(adapter, made, o)
               s == IF b.rc # 0 THEN SslError(b, FALSE) ELSE b
    <2>1. Take(s)
      BY <1>6 DEF SslStart
    <2>2. Settled(adapter, s)
      BY <1>1, BeginSound
    <2> HIDE DEF b, s
    <2>3. SslTypes' /\ DataVerified' /\ OtherDirection' /\ BeginsOpen' /\ ToldOnce' /\ NobodyForgotten'
      BY <1>1, <1>2, <1>4, <1>6, <2>1, <2>2, SettledKeeps
    <2>4. seen'.halves = seen.halves
      BY <1>1, <2>1, <2>2, TakeFields
      DEF SslTypes, SeenType, StuckType, Settled, Continued, Ended, Moved, Sound, Taken
    <2> QED BY <1>2, <2>3, <2>4, RecordKept DEF SslInv
  <1> QED BY <1>5, <1>6

LEMMA OpensKeeps ==
  ASSUME SslInv, NEW made \in BOOLEAN, NEW o \in Outcomes, StreamOpens(made, o)
  PROVE  SslInv'
  <1> DEFINE s == AfterOpen(adapter, made, o)
  <1>1. /\ SslTypes /\ Sound(adapter) /\ adapter.sig = {} /\ adapter.alive
        /\ (adapter.ssl # "null" <=> adapter.state \in Working)
        /\ adapter.state \in {"SSL_NONE", "SSL_WAIT"}
    BY DEF SslInv, SslTypes, StreamOpens, BeginsOpen
  <1>2. UNCHANGED <<ssl_conf, record, postedEvents>> /\ below' = "OPEN" /\ Take(s)
    BY DEF StreamOpens
  <1>3. Types(s)
    BY <1>1, <1>2 DEF Types, SslTypes
  <1>4. Told(adapter, s) \/ Settled(adapter, s)
    BY <1>1, OpenSound
  <1> HIDE DEF s
  <1>5. SslTypes' /\ DataVerified' /\ OtherDirection' /\ BeginsOpen' /\ ToldOnce' /\ NobodyForgotten'
    BY <1>1, <1>2, <1>3, <1>4, ToldKeeps, SettledKeeps
  <1>6. seen'.halves = seen.halves
    BY <1>1, <1>2, <1>4, TakeFields
    DEF SslTypes, SeenType, StuckType, Told, Settled, Continued, Ended, Moved, Sound, Taken
  <1> QED BY <1>2, <1>5, <1>6, RecordKept DEF SslInv

LEMMA ReadyKeeps ==
  ASSUME SslInv, NEW events \in SUBSET {"SE_READ", "SE_WRITE"}, NEW o \in Outcomes,
         StreamReady(events, o)
  PROVE  SslInv'
  <1> DEFINE s == AfterReady(adapter, events, o)
  <1>1. /\ SslTypes /\ Sound(adapter) /\ adapter.sig = {} /\ adapter.rc = 0 /\ adapter.alive
        /\ (adapter.ssl # "null" <=> adapter.state \in Working)
    BY DEF SslInv, SslTypes, StreamReady
  <1>2. /\ UNCHANGED <<ssl_conf, below, record, postedEvents>> /\ below = "OPEN" /\ Take(s)
    BY DEF StreamReady
  <1>3. Types(s)
    BY <1>1, <1>2 DEF Types, SslTypes
  <1>4. Told(adapter, s) \/ (adapter.state = "SSL_CONNECTING" /\ Settled(adapter, s))
    BY <1>1, ReadySound
  <1> HIDE DEF s
  <1>5. SslTypes' /\ DataVerified' /\ OtherDirection' /\ BeginsOpen' /\ ToldOnce' /\ NobodyForgotten'
    BY <1>1, <1>2, <1>3, <1>4, ToldKeeps, SettledKeeps
  <1>6. seen'.halves = seen.halves
    BY <1>1, <1>2, <1>4, TakeFields
    DEF SslTypes, SeenType, StuckType, Told, Settled, Continued, Ended, Moved, Sound, Taken
  <1> QED BY <1>2, <1>5, <1>6, RecordKept DEF SslInv

LEMMA TimeoutKeeps ==
  ASSUME SslInv, NEW o \in Outcomes, TimeoutFires(o)
  PROVE  SslInv'
  <1> DEFINE s == ContinueSsl(adapter, o)
  <1>1. /\ SslTypes /\ Sound(adapter) /\ adapter.sig = {} /\ adapter.alive
        /\ adapter.state = "SSL_CONNECTING" /\ below # "OPENING"
    BY DEF SslInv, SslTypes, TimeoutFires, Sound, BeginsOpen
  <1>2. UNCHANGED <<ssl_conf, below, record, postedEvents>> /\ Take(s)
    BY DEF TimeoutFires, AdapterUntouched
  <1>3. Types(s)
    BY <1>1, <1>2 DEF Types, SslTypes
  <1>4. Settled(adapter, s)
    BY <1>1, ContinueSound DEF Settled
  <1> HIDE DEF s
  <1>5. SslTypes' /\ DataVerified' /\ OtherDirection' /\ BeginsOpen' /\ ToldOnce' /\ NobodyForgotten'
    BY <1>1, <1>2, <1>3, <1>4, SettledKeeps
  <1>6. seen'.halves = seen.halves
    BY <1>1, <1>2, <1>4, TakeFields
    DEF SslTypes, SeenType, StuckType, Settled, Continued, Ended, Moved, Sound, Taken
  <1> QED BY <1>2, <1>5, <1>6, RecordKept DEF SslInv

(* The end of a connection, in all its ways. *)
LEMMA EndKeeps ==
  ASSUME SslInv, NEW s, Keeps(adapter, s), Over(s), Take(s),
         UNCHANGED <<ssl_conf, record, postedEvents>>, below' \in {below, "CLOSED"},
         ~s.alive \/ below' # "OPENING"
  PROVE  SslInv'
  <1>1. Types(s) /\ postedEvents' = postedEvents
    BY DEF Types, SslInv, SslTypes
  <1>2. SslTypes' /\ DataVerified' /\ OtherDirection' /\ BeginsOpen' /\ ToldOnce' /\ NobodyForgotten'
    BY <1>1, OverKeeps
  <1>3. seen'.halves = seen.halves
    BY <1>1, TakeKeeps DEF Taken
  <1> QED BY <1>2, <1>3, RecordKept DEF SslInv

LEMMA ClosesKeeps ==
  ASSUME SslInv, StreamCloses \/ SslClose \/ SslDestroy \/ SslFails
  PROVE  SslInv'
  <1> DEFINE c == SslCleanup(adapter)
  <1>1. /\ Sound(adapter) /\ adapter \in Adapters /\ adapter.sig = {} /\ below \in {"OPENING", "OPEN", "CLOSED"}
    BY DEF SslInv, SslTypes, Sound
  <1>2. /\ Sound(c) /\ Frame(adapter, c) /\ c.verified = adapter.verified /\ c.sig = {}
        /\ c.state \in {"SSL_ERROR", "SSL_CLOSED"} /\ c.ssl = "null"
    BY <1>1, CleanupSound
  <1>3. (c.ssl # "null" <=> c.state \in Working) /\ c \in Adapters
    BY <1>2 DEF Working, Sound
  <1>4. CASE StreamCloses
    <2> DEFINE s == [c EXCEPT !.sig = {"SE_CLOSE"}]
    <2>1. Take(s) /\ UNCHANGED <<ssl_conf, record, postedEvents>> /\ below' = "CLOSED"
      BY <1>4 DEF StreamCloses
    <2>2. {"SE_CLOSE"} \in SUBSET SslEvents
      BY DEF SslEvents
    <2> HIDE DEF c
    <2>3. Moved(c, s) /\ s.state = c.state /\ s.verified = c.verified /\ s.sig = {"SE_CLOSE"}
      BY <1>2, <1>3, <2>2, SignalSound
    <2> HIDE DEF s
    <2>4. Keeps(adapter, s) /\ Over(s)
      BY <1>2, <2>3 DEF Keeps, Over, Moved, Frame
    <2> QED BY <2>1, <2>4, EndKeeps
  <1>5. CASE SslClose
    <2>1. Take(c) /\ UNCHANGED <<ssl_conf, record, postedEvents>> /\ below' = "CLOSED"
      BY <1>5 DEF SslClose
    <2> HIDE DEF c
    <2>2. Keeps(adapter, c) /\ Over(c)
      BY <1>2, <1>3 DEF Keeps, Over, Frame
    <2> QED BY <2>1, <2>2, EndKeeps
  <1>6. CASE SslDestroy
    <2> DEFINE s == [c EXCEPT !.alive = FALSE]
    <2>1. Take(s) /\ UNCHANGED <<ssl_conf, record, postedEvents, below>>
      BY <1>6 DEF SslDestroy, AdapterUntouched
    <2> HIDE DEF c
    <2>2. s \in Adapters
      BY <1>3 DEF Adapters
    <2>3. /\ ~s.alive /\ s.state = c.state /\ s.ssl = c.ssl /\ s.digest = c.digest
          /\ s.verified = c.verified /\ s.chain = c.chain /\ s.timer = c.timer /\ s.sig = c.sig
          /\ s.read_needs_write = c.read_needs_write /\ s.write_needs_read = c.write_needs_read
      BY <1>3 DEF Adapters
    <2> HIDE DEF s
    <2>4. Keeps(adapter, s) /\ Over(s)
      BY <1>2, <1>3, <2>2, <2>3 DEF Keeps, Over, Sound, Frame
    <2> QED BY <2>1, <2>3, <2>4, EndKeeps
  <1>7. CASE SslFails
    <2> DEFINE s == SslError(adapter, FALSE)
    <2>1. Take(s) /\ UNCHANGED <<ssl_conf, record, postedEvents, below>> /\ below # "OPENING"
      BY <1>1, <1>7 DEF SslFails, AdapterUntouched, Open, SslInv, BeginsOpen
    <2>2. Ended(adapter, s)
      BY <1>1, GiveUpSound DEF Frame, Sound
    <2> HIDE DEF s
    <2>3. Keeps(adapter, s) /\ Over(s)
      BY <2>2, MovedKeeps DEF Ended, Over
    <2> QED BY <2>1, <2>3, EndKeeps
  <1> QED BY <1>4, <1>5, <1>6, <1>7

LEMMA RecordComesKeeps ==
  ASSUME SslInv, NEW size \in RecordSizes, RecordComes(size)
  PROVE  SslInv'
  <1> DEFINE o == [result |-> "error", callback |-> FALSE, timeout |-> FALSE]
             s == AfterReady(adapter, {"SE_READ"}, o)
  <1>1. /\ SslTypes /\ Sound(adapter) /\ adapter.sig = {} /\ adapter.rc = 0 /\ adapter.alive
        /\ (adapter.ssl # "null" <=> adapter.state \in Working) /\ adapter.state = "SSL_CONNECTED"
    BY DEF SslInv, SslTypes, RecordComes
  <1>2. /\ UNCHANGED <<ssl_conf, below, postedEvents>> /\ below = "OPEN" /\ Take(s)
        /\ record' = [size |-> size, left |-> size]
    BY DEF RecordComes
  <1>3. size \in Nat /\ o \in Outcomes /\ {"SE_READ"} \in SUBSET {"SE_READ", "SE_WRITE"}
    BY SslStreamConstants DEF Outcomes
  <1>4. Types(s)
    BY <1>1, <1>2, <1>3 DEF Types, SslTypes
  <1> HIDE DEF o
  <1>5. Told(adapter, s) \/ (adapter.state = "SSL_CONNECTING" /\ Settled(adapter, s))
    BY <1>1, <1>3, ReadySound
  <1> HIDE DEF s
  <1>6. Told(adapter, s)
    BY <1>1, <1>5
  <1>7. SslTypes' /\ DataVerified' /\ OtherDirection' /\ BeginsOpen' /\ ToldOnce' /\ NobodyForgotten'
    BY <1>1, <1>2, <1>4, <1>6, ToldKeeps
  <1>8. seen'.halves = seen.halves
    BY <1>4, <1>6, <1>2, TakeKeeps, MovedKeeps DEF Told, Taken
  <1>9. WholeRecords'
    BY <1>2, <1>8 DEF SslInv, WholeRecords
  <1> QED BY <1>7, <1>9 DEF SslInv

LEMMA PostedKeeps ==
  ASSUME SslInv, RunPosted
  PROVE  SslInv'
  <1>1. /\ SslTypes /\ Sound(adapter) /\ adapter \in Adapters /\ postedEvents \in Nat
        /\ (adapter.ssl # "null" <=> adapter.state \in Working) /\ seen.opens \in Nat
    BY DEF SslInv, SslTypes, Sound
  <1>2. /\ UNCHANGED <<ssl_conf, below, record>> /\ postedEvents' = postedEvents - 1
        /\ postedEvents > 0
    BY DEF RunPosted
  <1>0. postedEvents' \in Nat
    BY <1>1, <1>2
  <1>3. \A s : Types(s)
    BY <1>0, <1>1, <1>2 DEF Types, SslTypes
  <1>4. CASE adapter.alive
    <2> DEFINE s == [adapter EXCEPT !.sig = OpenEvents]
    <2>1. Take(s)
      BY <1>4 DEF RunPosted
    <2>2. OpenEvents \in SUBSET SslEvents
      BY DEF SslEvents, OpenEvents
    <2>3. Moved(adapter, s) /\ s.state = adapter.state /\ s.verified = adapter.verified /\ s.sig = OpenEvents
      BY <1>1, <2>2, SignalSound
    <2> HIDE DEF s
    <2>4. Taken(s) /\ SslTypes' /\ DataVerified' /\ OtherDirection'
      BY <1>3, <2>1, <2>3, TakeKeeps, MovedKeeps
    <2>5. BeginsOpen'
      BY <1>2, <2>3, <2>4 DEF Taken, Moved, Frame, SslInv, BeginsOpen
    <2>6. stuck'.read = "" /\ stuck'.write = ""
      BY <2>3, <2>4 DEF Taken, OpenEvents
    <2>7. NobodyForgotten'
      BY <2>6 DEF NobodyForgotten, Blocked
    <2>8. ToldOnce'
      <3> SUFFICES ASSUME ssl_conf.auth
                   PROVE  /\ (seen.opens + postedEvents)' = 1
                          /\ adapter'.verified
                          /\ adapter'.state \in {"SSL_CONNECTED", "SSL_CLOSED", "SSL_ERROR"}
        BY <1>2 DEF ToldOnce
      <3>1. seen.opens = 0 /\ postedEvents = 1 /\ seen.opens + postedEvents = 1
        BY <1>1, <1>2 DEF SslInv, ToldOnce
      <3>2. adapter.verified /\ adapter.state \in {"SSL_CONNECTED", "SSL_CLOSED", "SSL_ERROR"}
        BY <3>1 DEF SslInv, ToldOnce
      <3>3. seen'.opens = seen.opens + 1
        BY <2>3, <2>4, <3>2 DEF Taken, OpenEvents
      <3>4. seen.opens + 1 = 1 /\ postedEvents - 1 = 0
        BY <3>1
      <3>5. seen'.opens = 1 /\ postedEvents' = 0
        BY <1>2, <3>3, <3>4, Zenon
      <3>6. (seen.opens + postedEvents)' = 1
        BY <3>5
      <3> QED BY <2>3, <2>4, <3>2, <3>6 DEF Taken
    <2>9. WholeRecords'
      BY <1>2, <2>4, RecordKept DEF Taken
    <2> QED BY <2>4, <2>5, <2>7, <2>8, <2>9 DEF SslInv
  <1>5. CASE ~adapter.alive
    <2>1. UNCHANGED <<adapter, stuck, seen, ssl_conf, below, record>>
      BY <1>2, <1>5 DEF RunPosted
    <2>2. adapter.state \in {"SSL_ERROR", "SSL_CLOSED"}
      BY <1>5 DEF SslInv, BeginsOpen
    <2>3. SslTypes' /\ BeginsOpen' /\ DataVerified' /\ OtherDirection' /\ WholeRecords'
      <3>1. SslTypes'
        BY <1>0, <1>1, <2>1 DEF SslTypes
      <3>2. BeginsOpen' /\ DataVerified' /\ OtherDirection' /\ WholeRecords'
        BY <2>1 DEF SslInv, BeginsOpen, DataVerified, OtherDirection, WholeRecords
      <3> QED BY <3>1, <3>2
    <2>4. NobodyForgotten'
      BY <2>1, <2>2 DEF NobodyForgotten
    <2>5. ToldOnce'
      <3> SUFFICES ASSUME ssl_conf.auth
                   PROVE  (seen.opens + postedEvents)' = 0
        BY <2>1, <2>2 DEF ToldOnce
      <3>1. seen.opens = 0 /\ postedEvents = 1
        BY <1>1, <1>2 DEF SslInv, ToldOnce
      <3>2. seen'.opens = 0 /\ postedEvents' = 0
        BY <1>2, <2>1, <3>1
      <3> QED BY <3>2
    <2> QED BY <2>3, <2>4, <2>5 DEF SslInv
  <1> QED BY <1>4, <1>5

(* The digest, before, during and after the handshake. *)
LEMMA DigestKeeps ==
  ASSUME SslInv, NEW d \in {"match", "other"}, SetPeerCertificateDigest(d)
  PROVE  SslInv'
  <1> DEFINE s == [adapter EXCEPT !.digest = d]
  <1>1. /\ SslTypes /\ Sound(adapter) /\ adapter \in Adapters /\ adapter.sig = {} /\ adapter.alive
        /\ (adapter.ssl # "null" <=> adapter.state \in Working) /\ ~adapter.verified
        /\ postedEvents \in Nat /\ seen.opens \in Nat
    BY DEF SslInv, SslTypes, Sound, SetPeerCertificateDigest
  <1>2. s \in Adapters
    BY <1>1 DEF Adapters
  <1>3. /\ s.alive = adapter.alive /\ s.state = adapter.state /\ s.ssl = adapter.ssl /\ s.digest = d
        /\ s.verified = adapter.verified /\ s.chain = adapter.chain /\ s.timer = adapter.timer
        /\ s.sig = adapter.sig /\ s.read_needs_write = adapter.read_needs_write
        /\ s.write_needs_read = adapter.write_needs_read
    BY <1>1 DEF Adapters
  <1>4. \/ ~s.chain /\ Take(s) /\ AdapterUntouched
        \/ s.chain /\ ~VerifyPeerCertificate(s) /\ Take(SslError(s, FALSE)) /\ AdapterUntouched
        \/ /\ s.chain /\ VerifyPeerCertificate(s) /\ Take([s EXCEPT !.verified = TRUE])
           /\ postedEvents' = postedEvents + (IF s.state = "SSL_CONNECTED" THEN 1 ELSE 0)
           /\ UNCHANGED <<ssl_conf, below, record>>
    BY DEF SetPeerCertificateDigest
  <1> HIDE DEF s
  <1>5. Keeps(adapter, s)
    BY <1>1, <1>2, <1>3 DEF Keeps, Sound
  <1>6. CASE ~s.chain /\ Take(s) /\ AdapterUntouched
    <2>1. Types(s) /\ UNCHANGED <<ssl_conf, below, record, postedEvents>>
      BY <1>1, <1>6 DEF Types, SslTypes, AdapterUntouched
    <2>2. Taken(s) /\ SslTypes' /\ DataVerified' /\ OtherDirection'
      BY <1>5, <1>6, <2>1, TakeKeeps
    <2>3. seen'.opens = seen.opens
      BY <1>1, <1>3, <2>2 DEF Taken
    <2>4. BeginsOpen' /\ ToldOnce'
      BY <1>3, <2>1, <2>2, <2>3 DEF Taken, SslInv, BeginsOpen, ToldOnce
    <2>5. NobodyForgotten'
      BY <1>3, <2>1, <2>2 DEF Taken, SslInv, NobodyForgotten, Waiting, Blocked
    <2>6. WholeRecords'
      BY <2>1, <2>2, RecordKept DEF Taken
    <2> QED BY <2>2, <2>4, <2>5, <2>6 DEF SslInv
  <1>7. CASE s.chain /\ Take(SslError(s, FALSE)) /\ AdapterUntouched
    <2> DEFINE e == SslError(s, FALSE)
    <2>1. Ended(s, e)
      BY <1>1, <1>2, <1>3, GiveUpSound DEF Frame
    <2>2. Take(e) /\ UNCHANGED <<ssl_conf, below, record, postedEvents>>
      BY <1>7 DEF AdapterUntouched
    <2> HIDE DEF e
    <2>3. Keeps(adapter, e) /\ Over(e)
      BY <1>3, <2>1 DEF Ended, Moved, Frame, Keeps, Over
    <2>4. below # "OPENING"
      BY <1>1, <1>3, <1>7 DEF SslInv, Sound, BeginsOpen, Working
    <2> QED BY <2>2, <2>3, <2>4, EndKeeps
  <1>8. CASE /\ s.chain /\ VerifyPeerCertificate(s) /\ Take([s EXCEPT !.verified = TRUE])
             /\ postedEvents' = postedEvents + (IF s.state = "SSL_CONNECTED" THEN 1 ELSE 0)
             /\ UNCHANGED <<ssl_conf, below, record>>
    <2> DEFINE v == [s EXCEPT !.verified = TRUE]
    <2>1. v \in Adapters
      BY <1>2 DEF Adapters
    <2>2. /\ v.alive = s.alive /\ v.state = s.state /\ v.ssl = s.ssl /\ v.digest = s.digest
          /\ v.verified /\ v.chain = s.chain /\ v.timer = s.timer /\ v.sig = s.sig
          /\ v.read_needs_write = s.read_needs_write /\ v.write_needs_read = s.write_needs_read
      BY <1>2 DEF Adapters
    <2>3. Take(v) /\ UNCHANGED <<ssl_conf, below, record>> /\ s.chain /\ s.digest = "match"
      BY <1>8 DEF VerifyPeerCertificate
    <2>4. /\ s.state = "SSL_CONNECTED" => postedEvents' = postedEvents + 1
          /\ s.state # "SSL_CONNECTED" => postedEvents' = postedEvents
      BY <1>1, <1>8
    <2> HIDE DEF v
    <2>5. Keeps(adapter, v)
      BY <1>3, <1>5, <2>1, <2>2, <2>3 DEF Keeps, Sound
    <2>6. postedEvents' \in Nat
      BY <1>1, <2>4
    <2>7. Types(v)
      BY <1>1, <2>3, <2>6 DEF Types, SslTypes
    <2>8. Taken(v) /\ SslTypes' /\ DataVerified' /\ OtherDirection'
      BY <2>3, <2>5, <2>7, TakeKeeps
    <2>9. BeginsOpen'
      BY <1>3, <2>2, <2>3, <2>8 DEF Taken, SslInv, BeginsOpen
    <2>10. seen'.opens = seen.opens
      BY <1>1, <1>3, <2>2, <2>8 DEF Taken
    <2>11. NobodyForgotten'
      <3>1. s.state = "SSL_CONNECTED" => postedEvents' > 0
        BY <1>1, <2>4
      <3>2. adapter'.state = s.state
        BY <2>2, <2>8 DEF Taken
      <3> QED BY <3>1, <3>2 DEF NobodyForgotten
    <2>12. ToldOnce'
      <3> SUFFICES ASSUME ssl_conf.auth
                   PROVE  /\ (seen.opens + postedEvents)' \in {0, 1}
                          /\ (seen.opens + postedEvents)' = 1 =>
                               adapter'.verified /\ adapter'.state = "SSL_CONNECTED"
                          /\ adapter'.state = "SSL_CONNECTED" => (seen.opens + postedEvents)' = 1
        BY <2>3 DEF ToldOnce
      <3>1. seen.opens = 0 /\ postedEvents = 0
        BY <1>1 DEF SslInv, ToldOnce
      <3>2. adapter'.state = s.state /\ seen'.opens = 0
        BY <2>2, <2>8, <2>10, <3>1 DEF Taken
      <3>3. /\ s.state = "SSL_CONNECTED" => postedEvents' = 1
            /\ s.state # "SSL_CONNECTED" => postedEvents' = 0
        BY <2>4, <3>1
      <3>4. adapter'.verified
        BY <2>2, <2>8 DEF Taken
      <3> QED BY <3>2, <3>3, <3>4
    <2>13. WholeRecords'
      BY <2>3, <2>8, RecordKept DEF Taken
    <2> QED BY <2>8, <2>9, <2>11, <2>12, <2>13 DEF SslInv
  <1> QED BY <1>4, <1>6, <1>7, <1>8

(* The calls of the user. *)
LEMMA SuitesKeep ==
  ASSUME SslInv, NEW list \in SuiteLists, SetDtlsSrtpCryptoSuites(list)
  PROVE  SslInv'
  <1>1. /\ SslTypes /\ Sound(adapter) /\ adapter \in Adapters /\ adapter.sig = {} /\ adapter.rc = 0
        /\ (adapter.ssl # "null" <=> adapter.state \in Working)
    BY DEF SslInv, SslTypes, Sound
  <1>2. list \in Seq(kSrtpCipherMap)
    <2>1. list \in Seq(Nat) /\ \A i \in 1 .. Len(list) : list[i] \in kSrtpCipherMap
      BY SslStreamConstants DEF SetDtlsSrtpCryptoSuites
    <2> QED BY <2>1
  <1>3. adapter' = [adapter EXCEPT !.srtp_ciphers = list]
    BY DEF SetDtlsSrtpCryptoSuites
  <1>4. UNCHANGED <<ssl_conf, below, record, postedEvents, stuck, seen>>
    BY DEF SetDtlsSrtpCryptoSuites
  <1>5. adapter' \in Adapters
    BY <1>1, <1>2, <1>3 DEF Adapters
  <1>6. /\ adapter'.sig = adapter.sig /\ adapter'.rc = adapter.rc
        /\ adapter'.alive = adapter.alive /\ adapter'.state = adapter.state /\ adapter'.ssl = adapter.ssl
        /\ adapter'.digest = adapter.digest /\ adapter'.verified = adapter.verified
        /\ adapter'.chain = adapter.chain /\ adapter'.timer = adapter.timer
        /\ adapter'.read_needs_write = adapter.read_needs_write
        /\ adapter'.write_needs_read = adapter.write_needs_read
    BY <1>1, <1>3 DEF Adapters
  <1>7. Sound(adapter')
    BY <1>1, <1>5, <1>6 DEF Sound
  <1>8. SslTypes'
    BY <1>1, <1>4, <1>6, <1>7 DEF SslTypes
  <1>9. BeginsOpen' /\ DataVerified' /\ OtherDirection' /\ WholeRecords'
    BY <1>4, <1>6 DEF SslInv, BeginsOpen, DataVerified, OtherDirection, WholeRecords
  <1>10. ToldOnce'
    BY <1>4, <1>6 DEF SslInv, ToldOnce
  <1>11. NobodyForgotten'
    BY <1>4, <1>6 DEF SslInv, NobodyForgotten, Waiting
  <1> QED BY <1>8, <1>9, <1>10, <1>11 DEF SslInv

(* Of the adapter only the two flags change, with what the user waits for. *)
Used ==
  /\ adapter' \in Adapters
  /\ adapter'.sig = adapter.sig /\ adapter'.rc = adapter.rc
  /\ adapter'.alive = adapter.alive /\ adapter'.state = adapter.state /\ adapter'.ssl = adapter.ssl
  /\ adapter'.digest = adapter.digest /\ adapter'.verified = adapter.verified
  /\ adapter'.chain = adapter.chain /\ adapter'.timer = adapter.timer
  /\ stuck' \in StuckType
  /\ UNCHANGED <<ssl_conf, below, postedEvents>>
  /\ seen' \in SeenType /\ seen'.opens = seen.opens
  /\ record' \in [size : Nat, left : Nat]

LEMMA UsedKeeps ==
  ASSUME SslInv, Used
  PROVE  SslTypes' /\ BeginsOpen' /\ ToldOnce'
  <1>1. Sound(adapter')
    BY DEF SslInv, SslTypes, Used, Sound
  <1>2. SslTypes'
    BY <1>1 DEF SslInv, SslTypes, Used, SeenType, StuckType
  <1>3. BeginsOpen'
    BY DEF SslInv, BeginsOpen, Used
  <1>4. ToldOnce'
    BY DEF SslInv, ToldOnce, Used
  <1> QED BY <1>2, <1>3, <1>4

LEMMA BlockKeeps ==
  ASSUME SslInv, NEW op \in {"read", "write"}, ReadOrWriteBlocks(op)
  PROVE  SslInv'
  <1> DEFINE w == BlocksOn(adapter)
  <1>1. w \in {"handshake", "verify"} /\ ~(adapter.state = "SSL_CONNECTED" /\ ~Waiting(adapter))
    BY DEF ReadOrWriteBlocks, BlocksOn
  <1>2. /\ UNCHANGED <<ssl_conf, adapter, below, record, postedEvents, seen>>
        /\ stuck' = [stuck EXCEPT ![op] = w]
    BY DEF ReadOrWriteBlocks
  <1>3. stuck \in StuckType /\ SslTypes
    BY DEF SslInv, SslTypes, StuckType
  <1> HIDE DEF w
  <1>4. /\ stuck' \in StuckType
        /\ stuck'.read \in {stuck.read, w} /\ stuck'.write \in {stuck.write, w}
    BY <1>1, <1>2, <1>3 DEF StuckType, Blocked, StuckValues
  <1>5. SslTypes'
    BY <1>2, <1>3, <1>4 DEF SslTypes, StuckType
  <1>6. BeginsOpen' /\ DataVerified' /\ ToldOnce' /\ WholeRecords'
    BY <1>2 DEF SslInv, BeginsOpen, DataVerified, ToldOnce, WholeRecords
  <1>7. NobodyForgotten'
    BY <1>1, <1>2 DEF NobodyForgotten, Waiting
  <1>8. OtherDirection'
    BY <1>1, <1>2, <1>4 DEF SslInv, OtherDirection
  <1> QED BY <1>5, <1>6, <1>7, <1>8 DEF SslInv

LEMMA PassKeeps ==
  ASSUME SslInv, NEW op \in {"read", "write"}, NEW taken \in BOOLEAN, PassThrough(op, taken)
  PROVE  SslInv'
  <1> DEFINE w == IF taken THEN "" ELSE "below"
  <1>1. /\ UNCHANGED <<ssl_conf, adapter, below, record, postedEvents>> /\ adapter.state = "SSL_NONE"
        /\ stuck' = [stuck EXCEPT ![op] = w]
        /\ seen' = [seen EXCEPT !.late = seen.late \/ (taken /\ seen.begun)]
    BY DEF PassThrough, SslInv, SslTypes
  <1>2. w \in {"", "below"}
    OBVIOUS
  <1>3. stuck \in StuckType /\ SslTypes /\ seen \in SeenType
    BY DEF SslInv, SslTypes, StuckType, SeenType
  <1> HIDE DEF w
  <1>4. /\ stuck' \in StuckType
        /\ stuck'.read \in {stuck.read, w} /\ stuck'.write \in {stuck.write, w}
    BY <1>1, <1>2, <1>3 DEF StuckType, StuckValues, Blocked
  <1>5. ~seen.begun /\ ~seen.late
    BY <1>1 DEF SslInv, DataVerified
  <1>6. /\ seen' \in SeenType /\ seen'.opens = seen.opens /\ seen'.data = seen.data
        /\ seen'.halves = seen.halves /\ ~seen'.begun /\ ~seen'.late
    BY <1>1, <1>3, <1>5 DEF SeenType
  <1>7. SslTypes'
    BY <1>1, <1>3, <1>4, <1>6 DEF SslTypes, StuckType, SeenType
  <1>8. BeginsOpen' /\ DataVerified' /\ ToldOnce' /\ WholeRecords'
    BY <1>1, <1>6 DEF SslInv, BeginsOpen, DataVerified, ToldOnce, WholeRecords
  <1>9. NobodyForgotten'
    BY <1>1 DEF NobodyForgotten
  <1>10. OtherDirection'
    BY <1>1, <1>2, <1>4 DEF SslInv, OtherDirection
  <1> QED BY <1>7, <1>8, <1>9, <1>10 DEF SslInv

(* The flag of one direction and what its call waits for. *)
LEMMA ReadFlag ==
  ASSUME SslInv, NEW b \in BOOLEAN, NEW w \in {"", "input", "output"},
         adapter' = [adapter EXCEPT !.read_needs_write = b], stuck' = [stuck EXCEPT !.read = w],
         w = "output" => b,
         UNCHANGED <<ssl_conf, below, postedEvents>>, seen' \in SeenType, seen'.opens = seen.opens,
         record' \in [size : Nat, left : Nat]
  PROVE  SslTypes' /\ BeginsOpen' /\ ToldOnce' /\ NobodyForgotten' /\ OtherDirection' /\ Used
  <1>1. adapter \in Adapters /\ stuck \in StuckType
    BY DEF SslInv, SslTypes, Sound, StuckType
  <1>2. adapter' \in Adapters /\ stuck' \in StuckType
    BY <1>1 DEF Adapters, StuckType, Blocked, StuckValues
  <1>3. /\ adapter'.sig = adapter.sig /\ adapter'.rc = adapter.rc
        /\ adapter'.alive = adapter.alive /\ adapter'.state = adapter.state /\ adapter'.ssl = adapter.ssl
        /\ adapter'.digest = adapter.digest /\ adapter'.verified = adapter.verified
        /\ adapter'.chain = adapter.chain /\ adapter'.timer = adapter.timer
        /\ adapter'.read_needs_write = b /\ adapter'.write_needs_read = adapter.write_needs_read
    BY <1>1 DEF Adapters
  <1>4. stuck'.read = w /\ stuck'.write = stuck.write
    BY <1>1 DEF StuckType
  <1>5. Used
    BY <1>2, <1>3 DEF Used
  <1>6. NobodyForgotten'
    <2> SUFFICES ASSUME adapter.state = "SSL_CONNECTED", ~Waiting(adapter),
                        stuck.write \in Blocked
                 PROVE  postedEvents > 0
      BY <1>3, <1>4 DEF NobodyForgotten, Waiting, Blocked
    <2> QED BY DEF SslInv, NobodyForgotten
  <1>7. OtherDirection'
    BY <1>3, <1>4 DEF SslInv, OtherDirection
  <1> QED BY <1>5, <1>6, <1>7, UsedKeeps

LEMMA WriteFlag ==
  ASSUME SslInv, NEW b \in BOOLEAN, NEW w \in {"", "input", "output"},
         adapter' = [adapter EXCEPT !.write_needs_read = b], stuck' = [stuck EXCEPT !.write = w],
         w = "input" => b,
         UNCHANGED <<ssl_conf, below, postedEvents>>, seen' \in SeenType, seen'.opens = seen.opens,
         record' \in [size : Nat, left : Nat]
  PROVE  SslTypes' /\ BeginsOpen' /\ ToldOnce' /\ NobodyForgotten' /\ OtherDirection' /\ Used
  <1>1. adapter \in Adapters /\ stuck \in StuckType
    BY DEF SslInv, SslTypes, Sound, StuckType
  <1>2. adapter' \in Adapters /\ stuck' \in StuckType
    BY <1>1 DEF Adapters, StuckType, Blocked, StuckValues
  <1>3. /\ adapter'.sig = adapter.sig /\ adapter'.rc = adapter.rc
        /\ adapter'.alive = adapter.alive /\ adapter'.state = adapter.state /\ adapter'.ssl = adapter.ssl
        /\ adapter'.digest = adapter.digest /\ adapter'.verified = adapter.verified
        /\ adapter'.chain = adapter.chain /\ adapter'.timer = adapter.timer
        /\ adapter'.write_needs_read = b /\ adapter'.read_needs_write = adapter.read_needs_write
    BY <1>1 DEF Adapters
  <1>4. stuck'.write = w /\ stuck'.read = stuck.read
    BY <1>1 DEF StuckType
  <1>5. Used
    BY <1>2, <1>3 DEF Used
  <1>6. NobodyForgotten'
    <2> SUFFICES ASSUME adapter.state = "SSL_CONNECTED", ~Waiting(adapter),
                        stuck.read \in Blocked
                 PROVE  postedEvents > 0
      BY <1>3, <1>4 DEF NobodyForgotten, Waiting, Blocked
    <2> QED BY DEF SslInv, NobodyForgotten
  <1>7. OtherDirection'
    BY <1>3, <1>4 DEF SslInv, OtherDirection
  <1> QED BY <1>5, <1>6, <1>7, UsedKeeps

LEMMA OpenVerified ==
  ASSUME SslInv, Open
  PROVE  ssl_conf.auth => adapter.verified
  BY DEF Open, Waiting

LEMMA WantsKeep ==
  ASSUME SslInv, NEW what \in {"input", "output"}, SslReadWants(what) \/ SslWriteWants(what)
  PROVE  SslInv'
  <1>1. /\ UNCHANGED <<ssl_conf, below, record, postedEvents, seen>>
        /\ seen' \in SeenType /\ seen'.opens = seen.opens /\ record' \in [size : Nat, left : Nat]
    BY DEF SslReadWants, SslWriteWants, SslInv, SslTypes, SeenType
  <1>2. WholeRecords'
    BY <1>1, RecordKept
  <1>3. SslTypes' /\ BeginsOpen' /\ ToldOnce' /\ NobodyForgotten' /\ OtherDirection' /\ Used
    <2>1. CASE SslReadWants(what)
      <3> DEFINE b == what = "output"
      <3>1. /\ adapter' = [adapter EXCEPT !.read_needs_write = b]
            /\ stuck' = [stuck EXCEPT !.read = what] /\ b \in BOOLEAN /\ (what = "output" => b)
        BY <2>1 DEF SslReadWants
      <3> HIDE DEF b
      <3> QED BY <1>1, <3>1, ReadFlag
    <2>2. CASE SslWriteWants(what)
      <3> DEFINE b == what = "input"
      <3>1. /\ adapter' = [adapter EXCEPT !.write_needs_read = b]
            /\ stuck' = [stuck EXCEPT !.write = what] /\ b \in BOOLEAN /\ (what = "input" => b)
        BY <2>2 DEF SslWriteWants
      <3> HIDE DEF b
      <3> QED BY <1>1, <3>1, WriteFlag
    <2> QED BY <2>1, <2>2
  <1>4. DataVerified'
    BY <1>1, <1>3 DEF SslInv, DataVerified, Used
  <1> QED BY <1>2, <1>3, <1>4 DEF SslInv

LEMMA WriteKeeps ==
  ASSUME SslInv, SslWrite
  PROVE  SslInv'
  <1>1. /\ adapter' = [adapter EXCEPT !.write_needs_read = FALSE]
        /\ stuck' = [stuck EXCEPT !.write = ""] /\ seen' = [seen EXCEPT !.data = TRUE]
        /\ UNCHANGED <<ssl_conf, below, record, postedEvents>> /\ Open
    BY DEF SslWrite
  <1>2. seen \in SeenType /\ record \in [size : Nat, left : Nat]
    BY DEF SslInv, SslTypes, SeenType
  <1>3. /\ seen' \in SeenType /\ seen'.opens = seen.opens /\ seen'.halves = seen.halves
        /\ seen'.late = seen.late /\ seen'.begun = seen.begun
    BY <1>1, <1>2 DEF SeenType
  <1>4. SslTypes' /\ BeginsOpen' /\ ToldOnce' /\ NobodyForgotten' /\ OtherDirection' /\ Used
    BY <1>1, <1>2, <1>3, WriteFlag
  <1>5. DataVerified'
    BY <1>1, <1>3, <1>4, OpenVerified DEF SslInv, DataVerified, Used
  <1>6. WholeRecords'
    BY <1>1, <1>3, RecordKept
  <1> QED BY <1>4, <1>5, <1>6 DEF SslInv

(* A DTLS record is read as a whole, or its rest is dropped. *)
LEMMA ReadKeeps ==
  ASSUME SslInv, NEW n \in RecordSizes, SslRead(n)
  PROVE  SslInv'
  <1> DEFINE got == Lesser(n, record.left)
             short == ssl_conf.dtls /\ got < record.left
             left == IF short THEN 0 ELSE record.left - got
             half == seen.halves \/ (ssl_conf.dtls /\ ~short /\ got # record.size)
  <1>1. /\ adapter' = [adapter EXCEPT !.read_needs_write = FALSE]
        /\ stuck' = [stuck EXCEPT !.read = ""] /\ Open
        /\ UNCHANGED <<ssl_conf, below, postedEvents>> /\ record.left > 0
    BY DEF SslRead
  <1>2. seen \in SeenType /\ record \in [size : Nat, left : Nat]
    BY DEF SslInv, SslTypes, SeenType
  <1>3. record.size \in Nat /\ record.left \in Nat /\ n \in Nat
    BY <1>2, SslStreamConstants
  <1>4. record' = [record EXCEPT !.left = left]
    BY <1>2 DEF SslRead
  <1>5. seen' = [seen EXCEPT !.data = TRUE, !.halves = half]
    BY <1>2 DEF SslRead, SeenType
  <1>6. got \in Nat /\ got <= record.left
    BY <1>3 DEF Lesser
  <1> HIDE DEF got
  <1>7. left \in Nat /\ (ssl_conf.dtls => left = 0)
    BY <1>3, <1>6
  <1>8. half = FALSE
    <2>1. ~seen.halves /\ (ssl_conf.dtls => record.left \in {0, record.size})
      BY DEF SslInv, WholeRecords
    <2>2. ssl_conf.dtls /\ ~short => got = record.size
      <3> SUFFICES ASSUME ssl_conf.dtls, ~short PROVE got = record.size
        OBVIOUS
      <3>1. ~(got < record.left)
        OBVIOUS
      <3>2. got = record.left
        BY <1>3, <1>6, <3>1
      <3>3. record.left > 0
        BY <1>1
      <3>4. record.left # 0
        BY <1>3, <3>3
      <3>5. record.left = record.size
        BY <2>1, <3>4, Zenon
      <3> QED BY <3>2, <3>5
    <2> QED BY <2>1, <2>2
  <1> HIDE DEF short, left, half
  <1>9. record' \in [size : Nat, left : Nat] /\ record'.left = left
    BY <1>2, <1>4, <1>7
  <1>10. /\ seen' \in SeenType /\ seen'.opens = seen.opens /\ ~seen'.halves
         /\ seen'.late = seen.late /\ seen'.begun = seen.begun
    BY <1>2, <1>5, <1>8 DEF SeenType
  <1>11. SslTypes' /\ BeginsOpen' /\ ToldOnce' /\ NobodyForgotten' /\ OtherDirection' /\ Used
    BY <1>1, <1>9, <1>10, ReadFlag
  <1>12. DataVerified'
    BY <1>1, <1>10, <1>11, OpenVerified DEF SslInv, DataVerified, Used
  <1>13. WholeRecords'
    BY <1>1, <1>7, <1>9, <1>10 DEF WholeRecords
  <1> QED BY <1>11, <1>12, <1>13 DEF SslInv

-----------------------------------------------------------------------------
LEMMA SslInvAtFirst == SslStreamInit => SslInv
  <1> SUFFICES ASSUME SslStreamInit PROVE SslInv
    OBVIOUS
  <1>1. << >> \in Seq(kSrtpCipherMap)
    OBVIOUS
  <1>2. adapter \in Adapters
    BY <1>1 DEF SslStreamInit, Adapters, SslStates, SslEvents
  <1>3. SslTypes
    BY <1>2 DEF SslStreamInit, SslTypes, Sound, Working, Blocked, StuckValues
  <1>4. BeginsOpen /\ DataVerified /\ NobodyForgotten /\ OtherDirection /\ WholeRecords
    BY DEF SslStreamInit, BeginsOpen, DataVerified, NobodyForgotten, OtherDirection, WholeRecords
  <1>5. seen.opens = 0 /\ postedEvents = 0 /\ adapter.state = "SSL_NONE"
    BY DEF SslStreamInit
  <1>6. ToldOnce
    BY <1>5 DEF ToldOnce
  <1> QED BY <1>3, <1>4, <1>6 DEF SslInv

LEMMA SslInvKept == SslInv /\ [SslStreamNext]_sslStreamVars => SslInv'
  <1> SUFFICES ASSUME SslInv, [SslStreamNext]_sslStreamVars PROVE SslInv'
    OBVIOUS
  <1>1. CASE SslStreamNext
    BY <1>1, DigestKeeps, SuitesKeep, StartKeeps, OpensKeeps, ReadyKeeps, TimeoutKeeps,
       RecordComesKeeps, ReadKeeps, BlockKeeps, PassKeeps, WantsKeep, WriteKeeps, ClosesKeeps, PostedKeeps
    DEF SslStreamNext
  <1>2. CASE UNCHANGED sslStreamVars
    <2>1. SslTypes'
      BY <1>2 DEF sslStreamVars, SslInv, SslTypes
    <2>2. BeginsOpen' /\ DataVerified' /\ ToldOnce' /\ OtherDirection' /\ WholeRecords'
      BY <1>2 DEF sslStreamVars, SslInv, BeginsOpen, DataVerified, ToldOnce, OtherDirection, WholeRecords
    <2>3. NobodyForgotten'
      BY <1>2 DEF sslStreamVars, SslInv, NobodyForgotten, Waiting
    <2> QED BY <2>1, <2>2, <2>3 DEF SslInv
  <1> QED BY <1>1, <1>2

(* The tables of suites and versions. *)
LEMMA TablesRight == TablesAgree
  <1>1. \A suite \in kSrtpCipherMap :
          /\ SrtpCryptoSuiteFromName(SrtpCryptoSuiteToName(suite)) = suite
          /\ GetSrtpKeyAndSaltLengths(suite) # << >>
          /\ IsGcmCryptoSuite(suite) <=> IsGcmCryptoSuiteName(SrtpCryptoSuiteToName(suite))
    BY DEF kSrtpCipherMap, SrtpCryptoSuiteFromName, SrtpCryptoSuiteToName, GetSrtpKeyAndSaltLengths,
           IsGcmCryptoSuite, IsGcmCryptoSuiteName
  <1>2. ASSUME NEW dtls \in BOOLEAN, NEW legacy \in BOOLEAN, NEW max \in 0 .. 2,
               NEW v \in VersionRange(dtls, legacy, max).min .. VersionRange(dtls, legacy, max).max
        PROVE  /\ GetSslVersion(dtls, v) # -1
               /\ legacy /\ ~(dtls /\ max = 0) => v <= max
    BY DEF VersionRange, GetSslVersion
  <1> QED BY <1>1, <1>2 DEF TablesAgree

LEMMA SslInvMeans == SslInv => StreamOpensVerified
  <1> SUFFICES ASSUME SslInv PROVE StreamOpensVerified
    OBVIOUS
  <1>1. adapter \in Adapters /\ Sound(adapter)
    BY DEF SslInv, SslTypes, Sound
  <1>2. seen.data /\ ssl_conf.auth => adapter.digest = "match" /\ adapter.verified
    BY <1>1 DEF SslInv, DataVerified, Sound
  <1>3. GetState(adapter) = "SS_OPEN" => adapter.state = "SSL_CONNECTED" /\ ~Waiting(adapter)
    BY DEF GetState
  <1>4. ssl_conf.auth => seen.opens + postedEvents <= 1
    BY DEF SslInv, ToldOnce
  <1>5. ssl_conf.auth /\ GetState(adapter) = "SS_OPEN" => seen.opens + postedEvents = 1
    BY <1>3 DEF SslInv, ToldOnce, Waiting
  <1>6. \A op \in {"read", "write"} :
          GetState(adapter) = "SS_OPEN" /\ stuck[op] \in Blocked => postedEvents > 0
    BY <1>3 DEF SslInv, NobodyForgotten
  <1>7. /\ adapter.timer => adapter.state = "SSL_CONNECTING" /\ adapter.ssl # "null"
        /\ adapter.ssl # "null" <=> adapter.state \in {"SSL_CONNECTING", "SSL_CONNECTED"}
    BY <1>1 DEF SslInv, SslTypes, Sound, Working
  <1>8. Open => /\ stuck.write = "input" => adapter.write_needs_read
                /\ stuck.read = "output" => adapter.read_needs_write
    BY DEF SslInv, OtherDirection
  <1>9. adapter.profile # 0 => GetSrtpKeyAndSaltLengths(adapter.profile) # << >>
    <2>1. adapter.profile \in kSrtpCipherMap \union {0}
      BY <1>1 DEF Adapters
    <2>2. \A suite \in kSrtpCipherMap : GetSrtpKeyAndSaltLengths(suite) # << >>
      BY TablesRight DEF TablesAgree
    <2> QED BY <2>1, <2>2
  <1>10. ~seen.halves /\ ~seen.late
    BY DEF SslInv, WholeRecords, DataVerified
  <1> QED BY <1>2, <1>4, <1>5, <1>6, <1>7, <1>8, <1>9, <1>10, TablesRight DEF StreamOpensVerified, Blocked

(***************************************************************************)
(* For every configuration, every list of suites and records of any size,  *)
(* whenever the digest of the peer's certificate is set and however the    *)
(* calls of the user, the events of the stream below, the timer and the    *)
(* posted task interleave (openssl_stream_adapter.cc): what is read and    *)
(* written passes in the clear until StartSSL is called and not after it,  *)
(* nothing passes through SSL before the peer is verified, the user is     *)
(* told once that the stream is open, no call waits for what has happened, *)
(* the timer and the SSL object live as long as they may be used, and a    *)
(* message of DTLS is never returned in parts.                             *)
(***************************************************************************)
THEOREM OpensOnlyVerified == SslStreamSpec => []StreamOpensVerified
  <1> QED BY SslInvAtFirst, SslInvKept, SslInvMeans, PTL DEF SslStreamSpec

-----------------------------------------------------------------------------
(***************************************************************************)
(* The parser of offers, for offers of any number of lines and any number  *)
(* of offers.                                                              *)
(***************************************************************************)
Owners == {"pub", "pull"}

SectionStates == [type : Media, dtls : {"nodtls", "nofp", "set"}, ssrcs : Nat, groups : Nat]

SdpStates == [media : Seq(SectionStates), ver : BOOLEAN, org : BOOLEAN, ptr : Nat,
              flag : BOOLEAN, stop : BOOLEAN, died : BOOLEAN]

(* What parse_sdp keeps of the object that it was called for: sections are
   appended, and the pointer is null or one of the new ones. *)
Grown(b, s) ==
  /\ b \in SdpStates /\ s \in SdpStates
  /\ Len(b.media) <= Len(s.media)
  /\ s.ptr # 0 => s.ptr \in Len(b.media) + 1 .. Len(s.media)
  /\ b.media # << >> => s.media[1].dtls = b.media[1].dtls

LEMMA SectionTyped ==
  ASSUME NEW v \in Media
  PROVE  Section(v) \in SectionStates
  BY DEF Section, SectionStates

SectionKinds == {"fingerprint", "ssrc", "group"}

LEMMA AmendedTyped ==
  ASSUME NEW c \in SectionStates, NEW l \in Lines, l.k \in SectionKinds, l.v \notin {"bad", "short"}
  PROVE  Amended(c, l) \in SectionStates
  <1>1. CASE l.k = "fingerprint"
    <2>1. l.v \in {"set", "nofp"}
      BY <1>1 DEF Lines, LineOf
    <2> QED BY <1>1, <2>1 DEF Amended, SectionStates
  <1>2. CASE l.k = "ssrc"
    BY <1>2 DEF Amended, SectionStates
  <1>3. CASE l.k = "group"
    BY <1>3 DEF Amended, SectionStates
  <1> QED BY <1>1, <1>2, <1>3 DEF SectionKinds

(* The object after a line of a section. *)
LEMMA SectionLineIs ==
  ASSUME NEW s \in SdpStates, NEW l, s.ptr \in 1 .. Len(s.media), l.v \notin {"bad", "short"}
  PROVE  SectionLine(s, l) =
           [media |-> [s.media EXCEPT ![s.ptr] = Amended(s.media[s.ptr], l)], ver |-> s.ver,
            org |-> s.org, ptr |-> s.ptr, flag |-> TRUE, stop |-> s.stop, died |-> s.died]
  <1>1. s.ptr # 0
    OBVIOUS
  <1>2. SectionLine(s, l) = [s EXCEPT !.flag = TRUE, !.media[s.ptr] = Amended(s.media[s.ptr], l)]
    BY <1>1 DEF SectionLine
  <1> QED BY <1>2 DEF SdpStates

LEMMA MediaLineGrows ==
  ASSUME NEW b, NEW s, Grown(b, s), NEW v \in Media \union {"bad"}
  PROVE  Grown(b, MediaLine(s, v))
  <1>1. /\ b \in SdpStates /\ s \in SdpStates /\ s.media \in Seq(SectionStates)
        /\ b.media \in Seq(SectionStates)
    BY DEF Grown, SdpStates
  <1>2. CASE v = "bad"
    <2> DEFINE t == [media |-> s.media, ver |-> s.ver, org |-> s.org, ptr |-> 0, flag |-> FALSE,
                     stop |-> s.stop, died |-> s.died]
    <2>1. MediaLine(s, v) = t
      BY <1>1, <1>2 DEF MediaLine, SdpStates
    <2>2. t \in SdpStates /\ t.media = s.media /\ t.ptr = 0
      BY <1>1 DEF SdpStates
    <2> HIDE DEF t
    <2> QED BY <2>1, <2>2 DEF Grown
  <1>3. CASE v # "bad"
    <2> DEFINE q == Append(s.media, Section(v))
               t == [media |-> q, ver |-> s.ver, org |-> s.org, ptr |-> Len(s.media) + 1,
                     flag |-> s.flag, stop |-> s.stop, died |-> s.died]
    <2>1. MediaLine(s, v) = t
      BY <1>1, <1>3 DEF MediaLine, SdpStates
    <2>2. /\ Section(v) \in SectionStates /\ q \in Seq(SectionStates) /\ Len(q) = Len(s.media) + 1
          /\ Len(s.media) \in Nat /\ \A i \in 1 .. Len(s.media) : q[i] = s.media[i]
      BY <1>1, <1>3, SectionTyped, AppendProperties
    <2> HIDE DEF q
    <2>3. t \in SdpStates /\ t.media = q /\ t.ptr = Len(s.media) + 1
      BY <1>1, <2>2 DEF SdpStates
    <2> HIDE DEF t
    <2>4. Len(b.media) \in Nat /\ (b.media # << >> => 1 <= Len(b.media)) /\ Len(b.media) <= Len(s.media)
      BY <1>1 DEF Grown
    <2>5. b.media # << >> => q[1].dtls = b.media[1].dtls
      BY <2>2, <2>4 DEF Grown
    <2>6. Len(b.media) <= Len(q) /\ t.ptr \in Len(b.media) + 1 .. Len(q)
      BY <2>2, <2>3, <2>4
    <2> QED BY <1>1, <2>1, <2>3, <2>5, <2>6 DEF Grown
  <1> QED BY <1>2, <1>3

LEMMA SectionLineGrows ==
  ASSUME NEW b, NEW s, Grown(b, s), NEW l \in Lines, l.k \in SectionKinds
  PROVE  Grown(b, SectionLine(s, l))
  <1>1. /\ b \in SdpStates /\ s \in SdpStates /\ s.media \in Seq(SectionStates)
        /\ b.media \in Seq(SectionStates) /\ Len(b.media) \in Nat /\ Len(s.media) \in Nat
    BY DEF Grown, SdpStates
  <1>2. CASE s.ptr = 0
    BY <1>2 DEF SectionLine
  <1>3. CASE s.ptr # 0 /\ l.v \in {"bad", "short"}
    <2>1. PICK f \in BOOLEAN, d \in BOOLEAN :
            SectionLine(s, l) = [media |-> s.media, ver |-> s.ver, org |-> s.org, ptr |-> s.ptr,
                                 flag |-> f, stop |-> s.stop, died |-> d]
      <3>1. CASE l.v = "bad"
        <4>1. SectionLine(s, l) = [media |-> s.media, ver |-> s.ver, org |-> s.org, ptr |-> s.ptr,
                                   flag |-> FALSE, stop |-> s.stop, died |-> s.died]
          BY <1>1, <1>3, <3>1 DEF SectionLine, SdpStates
        <4> QED BY <1>1, <4>1 DEF SdpStates
      <3>2. CASE l.v = "short"
        <4>1. SectionLine(s, l) = [media |-> s.media, ver |-> s.ver, org |-> s.org, ptr |-> s.ptr,
                                   flag |-> s.flag, stop |-> s.stop, died |-> TRUE]
          BY <1>1, <1>3, <3>2 DEF SectionLine, SdpStates
        <4> QED BY <1>1, <4>1 DEF SdpStates
      <3> QED BY <1>3, <3>1, <3>2
    <2> DEFINE t == [media |-> s.media, ver |-> s.ver, org |-> s.org, ptr |-> s.ptr,
                     flag |-> f, stop |-> s.stop, died |-> d]
    <2>2. t \in SdpStates /\ t.media = s.media /\ t.ptr = s.ptr
      BY <1>1 DEF SdpStates
    <2>3. SectionLine(s, l) = t
      BY <2>1
    <2> HIDE DEF t
    <2> QED BY <2>2, <2>3 DEF Grown
  <1>4. CASE s.ptr # 0 /\ l.v \notin {"bad", "short"}
    <2>1. s.ptr \in Len(b.media) + 1 .. Len(s.media)
      BY <1>4 DEF Grown
    <2> DEFINE p == s.ptr
               d == Amended(s.media[p], l)
               q == [s.media EXCEPT ![p] = d]
               t == [media |-> q, ver |-> s.ver, org |-> s.org, ptr |-> p,
                     flag |-> TRUE, stop |-> s.stop, died |-> s.died]
    <2>2. SectionLine(s, l) = t /\ p \in 1 .. Len(s.media)
      <3>1. p \in 1 .. Len(s.media)
        BY <1>1, <2>1
      <3> QED BY <1>1, <1>4, <3>1, SectionLineIs
    <2>3. d \in SectionStates
      BY <1>1, <1>4, <2>2, AmendedTyped
    <2> HIDE DEF d
    <2>4. q \in Seq(SectionStates) /\ Len(q) = Len(s.media) /\ \A i \in 1 .. Len(s.media) : i # p => q[i] = s.media[i]
      BY <1>1, <2>2, <2>3
    <2> HIDE DEF q
    <2>5. t \in SdpStates /\ t.media = q /\ t.ptr = p
      BY <1>1, <2>4 DEF SdpStates
    <2> HIDE DEF t
    <2>6. b.media # << >> => q[1].dtls = b.media[1].dtls
      <3>1. b.media # << >> => 1 \in 1 .. Len(b.media)
        BY <1>1
      <3>2. b.media # << >> => 1 \in 1 .. Len(s.media) /\ 1 # p
        BY <1>1, <2>1, <3>1
      <3> QED BY <2>4, <3>2 DEF Grown
    <2> QED BY <1>1, <2>1, <2>2, <2>4, <2>5, <2>6 DEF Grown
  <1> QED BY <1>2, <1>3, <1>4

(* A line of the parser's loop. *)
LEMMA ParseLineGrows ==
  ASSUME NEW b, NEW s, Grown(b, s), NEW l \in Lines
  PROVE  Grown(b, ParseLine(s, l))
  <1> DEFINE t == CASE l.k = "m" -> MediaLine(s, l.v)
                    [] l.k \in {"fingerprint", "ssrc", "group"} -> SectionLine(s, l)
                    [] OTHER -> Field(s, l)
  <1>1. Grown(b, t)
    <2>1. CASE l.k = "m"
      <3>1. l.v \in Media \union {"bad"}
        BY <2>1 DEF Lines, LineOf
      <3> QED BY <2>1, <3>1, MediaLineGrows
    <2>2. CASE l.k \in SectionKinds
      BY <2>2, SectionLineGrows DEF SectionKinds
    <2>3. CASE l.k \notin SectionKinds \union {"m"}
      <3> DEFINE f == IF l.k = "other" THEN s.flag ELSE l.v = "ok"
                 v == s.ver \/ (l.k = "v" /\ l.v = "ok")
                 o == s.org \/ (l.k = "o" /\ l.v = "ok")
                 r == [media |-> s.media, ver |-> v, org |-> o, ptr |-> s.ptr,
                       flag |-> f, stop |-> s.stop, died |-> s.died]
      <3>1. s \in SdpStates
        BY DEF Grown
      <3>2. f \in BOOLEAN /\ v \in BOOLEAN /\ o \in BOOLEAN
        BY <3>1 DEF SdpStates
      <3>3. Field(s, l) = [s EXCEPT !.flag = f, !.ver = v, !.org = o]
        BY <3>1 DEF Field, SdpStates
      <3> HIDE DEF f, v, o
      <3>4. Field(s, l) = r
        BY <3>1, <3>3 DEF SdpStates
      <3>5. r \in SdpStates /\ r.media = s.media /\ r.ptr = s.ptr
        BY <3>1, <3>2 DEF SdpStates
      <3> HIDE DEF r
      <3>6. Grown(b, Field(s, l))
        BY <3>4, <3>5 DEF Grown
      <3> QED BY <2>3, <3>6 DEF SectionKinds
    <2> QED BY <2>1, <2>2, <2>3
  <1> HIDE DEF t
  <1>2. CASE s.stop \/ s.died
    BY <1>2 DEF ParseLine
  <1>3. CASE ~(s.stop \/ s.died)
    <2> DEFINE r == [media |-> t.media, ver |-> t.ver, org |-> t.org, ptr |-> t.ptr,
                     flag |-> t.flag, stop |-> ~t.flag, died |-> t.died]
    <2>1. t \in SdpStates
      BY <1>1 DEF Grown
    <2>2. [t EXCEPT !.stop = ~t.flag] = r
      BY <2>1 DEF SdpStates
    <2>3. ParseLine(s, l) = r
      BY <1>3, <2>2 DEF ParseLine, t
    <2>4. r \in SdpStates /\ r.media = t.media /\ r.ptr = t.ptr
      BY <2>1 DEF SdpStates
    <2> HIDE DEF r
    <2> QED BY <1>1, <2>3, <2>4 DEF Grown
  <1> QED BY <1>2, <1>3

-----------------------------------------------------------------------------
(* The offer that is parsed, or the last one. *)
OfferInv ==
  /\ sdp \in [Owners -> SdpStates] /\ whose \in Owners /\ before \in SdpStates
  /\ parsing # "none" => parsing = whose /\ kind = "none" /\ Grown(before, sdp[whose])
  /\ kind # "none" => FpOf(sdp[whose].media) \in FpAfter(FpOf(before.media), kind)

LEMMA StartKeepsOffer ==
  ASSUME OfferInv, NEW o \in Owners, ParseStart(o)
  PROVE  OfferInv'
  <1> DEFINE s == sdp[o]
             t == [media |-> s.media, ver |-> s.ver, org |-> s.org, ptr |-> 0, flag |-> FALSE,
                   stop |-> FALSE, died |-> s.died]
  <1>1. s \in SdpStates /\ sdp \in [Owners -> SdpStates]
    BY DEF OfferInv
  <1>2. /\ sdp' = [sdp EXCEPT ![o].ptr = 0, ![o].flag = FALSE, ![o].stop = FALSE]
        /\ before' = s /\ whose' = o /\ kind' = "none" /\ parsing' = o
    BY DEF ParseStart
  <1>3. t \in SdpStates /\ t.media = s.media /\ t.ptr = 0
    BY <1>1 DEF SdpStates
  <1>4. sdp'[o] = t
    BY <1>1, <1>2 DEF SdpStates
  <1>5. \A p \in Owners : p # o => sdp'[p] = sdp[p]
    BY <1>1, <1>2
  <1>6. sdp' = [p \in Owners |-> sdp'[p]]
    BY <1>1, <1>2
  <1> HIDE DEF t
  <1>7. sdp' \in [Owners -> SdpStates]
    BY <1>1, <1>3, <1>4, <1>5, <1>6
  <1>8. Grown(s, t)
    BY <1>1, <1>3 DEF Grown, SdpStates
  <1> QED BY <1>1, <1>2, <1>4, <1>7, <1>8 DEF OfferInv

LEMMA LineKeepsOffer ==
  ASSUME OfferInv, NEW l \in Lines, ParseNext(l)
  PROVE  OfferInv'
  <1> DEFINE t == ParseLine(sdp[parsing], l)
  <1>1. /\ parsing = whose /\ whose \in Owners /\ sdp \in [Owners -> SdpStates] /\ kind = "none"
        /\ Grown(before, sdp[whose]) /\ before \in SdpStates
    BY DEF OfferInv, ParseNext
  <1>2. /\ sdp' = [sdp EXCEPT ![parsing] = t] /\ parsing # "none"
        /\ UNCHANGED <<parsing, before, whose, kind>>
    BY DEF ParseNext
  <1>3. Grown(before, t)
    BY <1>1, ParseLineGrows
  <1> HIDE DEF t
  <1>4. t \in SdpStates
    BY <1>3 DEF Grown
  <1> QED BY <1>1, <1>2, <1>3, <1>4 DEF OfferInv

(* The outcome of an offer and the first section, old or new. *)
LEMMA OutcomeFits ==
  ASSUME NEW b, NEW s, Grown(b, s), NEW k,
         k = IF ~s.flag THEN "bad" ELSE KindOf(s.media, Len(b.media) + 1)
  PROVE  FpOf(s.media) \in FpAfter(FpOf(b.media), k)
  <1>1. /\ b \in SdpStates /\ s \in SdpStates /\ s.media \in Seq(SectionStates)
        /\ b.media \in Seq(SectionStates) /\ Len(b.media) \in Nat /\ Len(s.media) \in Nat
    BY DEF Grown, SdpStates
  <1>2. CASE b.media # << >>
    <2>1. b.media[1] \in SectionStates /\ 1 <= Len(b.media)
      BY <1>1, <1>2
    <2>2. FpOf(b.media) = b.media[1].dtls /\ FpOf(b.media) # "empty"
      BY <1>2, <2>1 DEF FpOf, SectionStates
    <2>3. s.media # << >> /\ s.media[1].dtls = b.media[1].dtls
      BY <1>1, <1>2, <2>1 DEF Grown
    <2> QED BY <2>2, <2>3 DEF FpOf, FpAfter
  <1>3. CASE b.media = << >>
    <2>1. Len(b.media) + 1 = 1 /\ FpOf(b.media) = "empty"
      BY <1>3 DEF FpOf
    <2>2. CASE s.media = << >>
      <3>1. k \in {"bad", "nomedia"} /\ FpOf(s.media) = "empty"
        BY <2>1, <2>2 DEF KindOf, FpOf
      <3> QED BY <2>1, <3>1 DEF FpAfter, Fingerprints
    <2>3. CASE s.media # << >>
      <3>1. s.media[1] \in SectionStates /\ ~(1 > Len(s.media))
        BY <1>1, <2>3
      <3>2. s.media[1].dtls \in {"nodtls", "nofp", "set"} /\ FpOf(s.media) = s.media[1].dtls
        BY <2>3, <3>1 DEF SectionStates, FpOf
      <3>3. k = "bad" \/ k = IF s.media[1].dtls = "set" THEN "good" ELSE s.media[1].dtls
        BY <2>1, <3>1 DEF KindOf
      <3> QED BY <2>1, <3>2, <3>3 DEF FpAfter, Fingerprints
    <2> QED BY <2>2, <2>3
  <1> QED BY <1>2, <1>3

LEMMA EndKeepsOffer ==
  ASSUME OfferInv, OfferEnd
  PROVE  OfferInv'
  <1>1. /\ parsing = whose /\ whose \in Owners /\ Grown(before, sdp[whose])
    BY DEF OfferInv, OfferEnd
  <1>2. /\ kind' = IF ~ sdp[whose].flag THEN "bad" ELSE KindOf(sdp[whose].media, Len(before.media) + 1)
        /\ parsing' = "none" /\ UNCHANGED <<sdp, before, whose>>
    BY <1>1 DEF OfferEnd
  <1>3. FpOf(sdp[whose].media) \in FpAfter(FpOf(before.media), kind')
    BY <1>1, <1>2, OutcomeFits
  <1> QED BY <1>2, <1>3 DEF OfferInv

LEMMA OfferInvariant == SdpSpec => []OfferInv
  <1>1. SdpInit => OfferInv
    <2>1. Fresh \in SdpStates
      BY DEF Fresh, SdpStates
    <2> QED BY <2>1 DEF SdpInit, OfferInv, Owners
  <1>2. OfferInv /\ [SdpNext]_sdpVars => OfferInv'
    <2> SUFFICES ASSUME OfferInv, [SdpNext]_sdpVars
                 PROVE  OfferInv'
      OBVIOUS
    <2>1. ASSUME NEW o \in {"pub", "pull"}, ParseStart(o) \/ CreateAnswer(o)
          PROVE  OfferInv'
      <3>1. CASE ParseStart(o)
        BY <3>1, StartKeepsOffer DEF Owners
      <3>2. CASE CreateAnswer(o)
        BY <3>2 DEF CreateAnswer, OfferInv
      <3> QED BY <2>1, <3>1, <3>2
    <2>2. ASSUME NEW l \in Lines, ParseNext(l)
          PROVE  OfferInv'
      BY <2>2, LineKeepsOffer
    <2>3. CASE OfferEnd
      BY <2>3, EndKeepsOffer
    <2>4. CASE UNCHANGED sdpVars
      BY <2>4 DEF OfferInv, sdpVars
    <2> QED BY <2>1, <2>2, <2>3, <2>4 DEF SdpNext
  <1> QED BY <1>1, <1>2, PTL DEF SdpSpec

(* Whatever lines an offer has and however many offers come: what the handlers
   are told of an offer decides the fingerprint of the first media section as
   Offer says, after offers that parse_sdp refused half way, too. *)
THEOREM OffersParsedAsToldOf == SdpSpec => []ParserKeepsOffer
  <1>1. OfferInv => ParserKeepsOffer
    BY DEF OfferInv, ParserKeepsOffer, Offers
  <1> QED BY <1>1, OfferInvariant, PTL

-----------------------------------------------------------------------------
LEMMA LeastNumber ==
  ASSUME NEW T, T \subseteq Nat, T # {}
  PROVE  \E n \in T : \A k \in T : n <= k
  <1>1. PICK n \in T : \A k \in T : ~ (<<k, n>> \in OpToRel(<, Nat))
    BY NatLessThanWellFounded, WFMin
  <1>2. \A k \in T : k \in Nat /\ n \in Nat /\ ~ (k < n)
    BY <1>1 DEF OpToRel
  <1>3. \A k \in T : n <= k
    BY <1>2
  <1> QED BY <1>3

LEMMA GreatestNumber ==
  ASSUME NEW n \in Nat, NEW s, s \subseteq 1 .. n, s # {}
  PROVE  /\ Max(s) \in s /\ \A y \in s : y <= Max(s)
         /\ Max(s) \in 1 .. n /\ s \ {Max(s)} \subseteq 1 .. Max(s) - 1
  <1> DEFINE T == { n - y : y \in s }
  <1>1. T \subseteq Nat /\ T # {}
    OBVIOUS
  <1>2. PICK m \in T : \A k \in T : m <= k
    BY <1>1, LeastNumber
  <1>3. PICK x \in s : m = n - x
    BY <1>2
  <1>4. \A y \in s : y \in 1 .. n /\ x >= y
    BY <1>2, <1>3
  <1>5. Max(s) \in s /\ \A y \in s : Max(s) >= y
    BY <1>3, <1>4 DEF Max
  <1>6. s \ {Max(s)} \subseteq 1 .. Max(s) - 1
    <2> SUFFICES ASSUME NEW y \in s, y # Max(s)
                 PROVE  y \in 1 .. Max(s) - 1
      OBVIOUS
    <2>1. y \in 1 .. n /\ Max(s) \in 1 .. n /\ Max(s) >= y
      BY <1>4, <1>5
    <2> QED BY <2>1
  <1> QED BY <1>4, <1>5, <1>6

(* A function that folds the parser over the first lines of a text. *)
FoldsTo(h, text, k) ==
  h = [s \in SUBSET (1 .. k) |->
         IF s = {} THEN Fresh ELSE ParseLine(h[s \ {Max(s)}], text[Max(s)])]

(* There is one for every text, made line by line. *)
LEMMA FoldExists ==
  ASSUME NEW text, NEW n \in Nat
  PROVE  \E h : FoldsTo(h, text, n)
  <1> DEFINE T == { k \in Nat : ~ \E h : FoldsTo(h, text, k) }
  <1>1. SUFFICES ASSUME T # {} PROVE FALSE
    OBVIOUS
  <1>2. PICK k \in T : \A j \in T : k <= j
    BY <1>1, LeastNumber
  <1>3. CASE k = 0
    <2> DEFINE h == [s \in SUBSET (1 .. 0) |-> Fresh]
    <2>1. \A s \in SUBSET (1 .. 0) : s = {}
      OBVIOUS
    <2>2. FoldsTo(h, text, 0)
      BY <2>1 DEF FoldsTo
    <2> HIDE DEF h
    <2> QED BY <1>2, <1>3, <2>2
  <1>4. CASE k # 0
    <2>1. k \in Nat /\ k - 1 \in Nat /\ ~ (k <= k - 1)
      BY <1>2, <1>4
    <2>2. PICK g : FoldsTo(g, text, k - 1)
      BY <1>2, <2>1
    <2> DEFINE body(f, s) == IF s = {} THEN Fresh ELSE ParseLine(f[s \ {Max(s)}], text[Max(s)])
               h == [s \in SUBSET (1 .. k) |-> body(g, s)]
    <2>3. \A s \in SUBSET (1 .. k) : s # {} => s \ {Max(s)} \in SUBSET (1 .. k - 1)
      <3> SUFFICES ASSUME NEW s \in SUBSET (1 .. k), s # {}
                   PROVE  s \ {Max(s)} \subseteq 1 .. k - 1
        OBVIOUS
      <3>1. Max(s) \in 1 .. k /\ s \ {Max(s)} \subseteq 1 .. Max(s) - 1
        BY <2>1, GreatestNumber
      <3> QED BY <2>1, <3>1
    <2>4. \A s \in SUBSET (1 .. k - 1) : h[s] = g[s]
      <3> SUFFICES ASSUME NEW s \in SUBSET (1 .. k - 1)
                   PROVE  h[s] = g[s]
        OBVIOUS
      <3>1. g[s] = body(g, s)
        BY <2>2 DEF FoldsTo
      <3>2. s \in SUBSET (1 .. k)
        BY <2>1
      <3> QED BY <3>1, <3>2
    <2>5. \A s \in SUBSET (1 .. k) : body(g, s) = body(h, s)
      <3> SUFFICES ASSUME NEW s \in SUBSET (1 .. k)
                   PROVE  body(g, s) = body(h, s)
        OBVIOUS
      <3> HIDE DEF h
      <3>1. s # {} => g[s \ {Max(s)}] = h[s \ {Max(s)}]
        BY <2>3, <2>4
      <3> QED BY <3>1
    <2>6. h = [s \in SUBSET (1 .. k) |-> body(h, s)]
      BY <2>5
    <2>7. FoldsTo(h, text, k)
      BY <2>6 DEF FoldsTo
    <2> HIDE DEF h
    <2> QED BY <1>2, <2>7
  <1> QED BY <1>3, <1>4

LEMMA FoldOfParser ==
  ASSUME NEW text, NEW n \in Nat, DOMAIN text = 1 .. n
  PROVE  \E h : FoldsTo(h, text, n) /\ FoldLeft(ParseLine, Fresh, text) = h[1 .. n]
  <1> DEFINE c == CHOOSE h : h = [s \in SUBSET (DOMAIN text) |->
         IF s = {} THEN Fresh ELSE ParseLine(h[s \ {Max(s)}], text[Max(s)])]
  <1>0. \E h : h = [s \in SUBSET (DOMAIN text) |->
         IF s = {} THEN Fresh ELSE ParseLine(h[s \ {Max(s)}], text[Max(s)])]
    <2>1. PICK g : FoldsTo(g, text, n)
      BY FoldExists
    <2>2. g = [s \in SUBSET (DOMAIN text) |->
                IF s = {} THEN Fresh ELSE ParseLine(g[s \ {Max(s)}], text[Max(s)])]
      BY <2>1 DEF FoldsTo
    <2> QED BY <2>2
  <1>1. FoldsTo(c, text, n)
    BY <1>0 DEF FoldsTo
  <1>2. FoldLeft(ParseLine, Fresh, text) = c[DOMAIN text]
    BY DEF FoldLeft, MapThenFoldSet
  <1> HIDE DEF c
  <1> QED BY <1>1, <1>2

(* The parser's states, one for each line that was read. *)
Reads(R, text, n) ==
  /\ R[0] = Fresh
  /\ \A k \in 1 .. n : R[k] = ParseLine(R[k - 1], text[k])

LEMMA ParserRuns ==
  ASSUME NEW text, NEW n \in Nat, DOMAIN text = 1 .. n
  PROVE  \E R : Reads(R, text, n) /\ FoldLeft(ParseLine, Fresh, text) = R[n]
  <1>1. PICK h : FoldsTo(h, text, n) /\ FoldLeft(ParseLine, Fresh, text) = h[1 .. n]
    BY FoldOfParser
  <1> DEFINE R == [k \in 0 .. n |-> h[1 .. k]]
  <1>2. R[n] = h[1 .. n]
    OBVIOUS
  <1>3. R[0] = Fresh
    <2>1. 1 .. 0 = {} /\ {} \in SUBSET (1 .. n)
      OBVIOUS
    <2>2. h[{}] = Fresh
      BY <1>1, <2>1 DEF FoldsTo
    <2> QED BY <2>1, <2>2
  <1>4. ASSUME NEW k \in 1 .. n
        PROVE  R[k] = ParseLine(R[k - 1], text[k])
    <2> DEFINE s == 1 .. k
    <2>1. s \in SUBSET (1 .. n) /\ s # {} /\ k \in s /\ s \subseteq 1 .. n
      OBVIOUS
    <2>2. Max(s) = k
      <3>1. Max(s) \in s /\ k <= Max(s)
        BY <2>1, GreatestNumber
      <3> QED BY <3>1
    <2>3. s \ {k} = 1 .. k - 1
      OBVIOUS
    <2> HIDE DEF s
    <2>4. h[s] = ParseLine(h[s \ {Max(s)}], text[Max(s)])
      BY <1>1, <2>1 DEF FoldsTo
    <2>5. h[s] = ParseLine(h[1 .. k - 1], text[k])
      BY <2>2, <2>3, <2>4
    <2>6. R[k] = h[s] /\ R[k - 1] = h[1 .. k - 1]
      BY DEF s
    <2> QED BY <2>5, <2>6
  <1> HIDE DEF R
  <1> QED BY <1>1, <1>2, <1>3, <1>4 DEF Reads

-----------------------------------------------------------------------------
(* x is what s and t, texts of k and l lines, come to. *)
Joins(x, s, t, k, l) ==
  /\ x \in Seq(Lines) /\ Len(x) = k + l /\ DOMAIN x = 1 .. k + l
  /\ \A i \in 1 .. k : x[i] = s[i]
  /\ \A i \in 1 .. l : x[k + i] = t[i]

LEMMA Concatenated ==
  ASSUME NEW s \in Seq(Lines), NEW t \in Seq(Lines)
  PROVE  Joins(s \o t, s, t, Len(s), Len(t))
  <1> DEFINE x == s \o t
             k == Len(s)
             l == Len(t)
  <1>1. k \in Nat /\ l \in Nat
    OBVIOUS
  <1>2. x \in Seq(Lines) /\ Len(x) = k + l
    BY ConcatProperties
  <1>3. \A i \in 1 .. k + l : x[i] = IF i <= k THEN s[i] ELSE t[i - k]
    BY ConcatProperties
  <1> HIDE DEF x, k, l
  <1>4. \A i \in 1 .. k : x[i] = s[i]
    BY <1>1, <1>3
  <1>5. ASSUME NEW i \in 1 .. l
        PROVE  x[k + i] = t[i]
    <2>1. k + i \in 1 .. k + l /\ ~ (k + i <= k) /\ (k + i) - k = i
      BY <1>1
    <2> QED BY <1>3, <2>1
  <1>6. DOMAIN x = 1 .. k + l
    BY <1>2
  <1> QED BY <1>2, <1>4, <1>5, <1>6 DEF Joins, x, k, l

(* The text of an answer, line by line. *)
Sec(t, d, s, g) == [type |-> t, dtls |-> d, ssrcs |-> s, groups |-> g]

IsSectionText(x, t, n, g) ==
  /\ DOMAIN x = 1 .. 6 + g + n /\ Len(x) = 6 + g + n /\ x \in Seq(Lines)
  /\ x[1] = LineOf("m", t) /\ x[2] = LineOf("other", "ok") /\ x[3] = LineOf("rtpmap", "ok")
  /\ x[4] = LineOf("other", "ok") /\ x[5] = LineOf("fingerprint", "set")
  /\ x[6] = LineOf("other", "ok")
  /\ \A j \in 1 .. g : x[6 + j] = LineOf("group", "ok")
  /\ \A j \in 1 .. n : x[6 + g + j] = LineOf("ssrc", "ok")

LEMMA SectionTextIs ==
  ASSUME NEW t \in Media, NEW d, NEW n \in Nat, NEW g \in Nat
  PROVE  IsSectionText(SectionText(Sec(t, d, n, g)), t, n, g)
  <1> DEFINE x == SectionText(Sec(t, d, n, g))
  <1> DEFINE h == <<LineOf("m", t), LineOf("other", "ok"), LineOf("rtpmap", "ok"),
                    LineOf("other", "ok"), LineOf("fingerprint", "set"), LineOf("other", "ok")>>
             gs == Times(LineOf("group", "ok"), g)
             ss == Times(LineOf("ssrc", "ok"), n)
  <1>1. /\ LineOf("m", t) \in Lines /\ LineOf("other", "ok") \in Lines /\ LineOf("rtpmap", "ok") \in Lines
        /\ LineOf("fingerprint", "set") \in Lines /\ LineOf("group", "ok") \in Lines
        /\ LineOf("ssrc", "ok") \in Lines
    BY DEF Lines
  <1>2. /\ h \in Seq(Lines) /\ Len(h) = 6
        /\ h[1] = LineOf("m", t) /\ h[2] = LineOf("other", "ok") /\ h[3] = LineOf("rtpmap", "ok")
        /\ h[4] = LineOf("other", "ok") /\ h[5] = LineOf("fingerprint", "set")
        /\ h[6] = LineOf("other", "ok")
    BY <1>1
  <1>3. gs \in Seq(Lines) /\ Len(gs) = g /\ \A j \in 1 .. g : gs[j] = LineOf("group", "ok")
    BY <1>1 DEF Times
  <1>4. ss \in Seq(Lines) /\ Len(ss) = n /\ \A j \in 1 .. n : ss[j] = LineOf("ssrc", "ok")
    BY <1>1 DEF Times
  <1>5. x = (h \o gs) \o ss
    BY DEF SectionText, Sec
  <1> HIDE DEF h, gs, ss, x
  <1> DEFINE hg == h \o gs
  <1>6. /\ hg \in Seq(Lines) /\ Len(hg) = 6 + g
        /\ \A i \in 1 .. 6 : hg[i] = h[i]
        /\ \A j \in 1 .. g : hg[6 + j] = gs[j]
    <2>1. Joins(hg, h, gs, 6, g)
      BY <1>2, <1>3, Concatenated
    <2> HIDE DEF hg
    <2> QED BY <2>1 DEF Joins
  <1>7. /\ x \in Seq(Lines) /\ Len(x) = 6 + g + n /\ DOMAIN x = 1 .. 6 + g + n
        /\ \A i \in 1 .. 6 + g : x[i] = hg[i]
        /\ \A j \in 1 .. n : x[6 + g + j] = ss[j]
    <2> HIDE DEF hg
    <2>1. x = hg \o ss
      BY <1>5 DEF hg
    <2>2. Joins(x, hg, ss, 6 + g, n)
      BY <1>4, <1>6, <2>1, Concatenated
    <2> QED BY <2>2 DEF Joins
  <1> HIDE DEF hg
  <1>8. \A j \in 1 .. g : 6 + j \in 1 .. 6 + g
    OBVIOUS
  <1>9. \A i \in 1 .. 6 : x[i] = h[i]
    BY <1>6, <1>7
  <1>10. \A j \in 1 .. g : x[6 + j] = LineOf("group", "ok")
    BY <1>3, <1>6, <1>7, <1>8
  <1>11. /\ x[1] = LineOf("m", t) /\ x[2] = LineOf("other", "ok") /\ x[3] = LineOf("rtpmap", "ok")
         /\ x[4] = LineOf("other", "ok") /\ x[5] = LineOf("fingerprint", "set")
         /\ x[6] = LineOf("other", "ok")
    BY <1>2, <1>9
  <1>12. \A j \in 1 .. n : x[6 + g + j] = LineOf("ssrc", "ok")
    BY <1>4, <1>7
  <1> QED BY <1>7, <1>10, <1>11, <1>12 DEF IsSectionText, x

(* Answers: an audio and a video section. *)
AnswerOf(a, n1, n2, g2) ==
  /\ a.ver \in BOOLEAN /\ a.org \in BOOLEAN
  /\ a.media = <<Sec("audio", "nodtls", n1, 0), Sec("video", "nodtls", n2, g2)>>

LEMMA AnswerTextIs ==
  ASSUME NEW a, NEW n1 \in Nat, NEW n2 \in Nat, NEW g2 \in Nat, AnswerOf(a, n1, n2, g2),
         NEW x, x = AnswerText(a)
  PROVE  LET s1 == SectionText(Sec("audio", "nodtls", n1, 0))
             s2 == SectionText(Sec("video", "nodtls", n2, g2))
         IN  /\ DOMAIN x = 1 .. 15 + n1 + n2 + g2
             /\ x[1] = LineOf("v", IF a.ver THEN "ok" ELSE "bad")
             /\ x[2] = LineOf("o", IF a.org THEN "ok" ELSE "bad")
             /\ x[3] = LineOf("other", "ok")
             /\ \A i \in 1 .. 6 + n1 : x[3 + i] = s1[i]
             /\ \A i \in 1 .. 6 + g2 + n2 : x[9 + n1 + i] = s2[i]
  <1> DEFINE h == <<LineOf("v", IF a.ver THEN "ok" ELSE "bad"),
                    LineOf("o", IF a.org THEN "ok" ELSE "bad"), LineOf("other", "ok")>>
             s1 == SectionText(Sec("audio", "nodtls", n1, 0))
             s2 == SectionText(Sec("video", "nodtls", n2, g2))
  <1>1. s1 \in Seq(Lines) /\ Len(s1) = 6 + n1
    <2>1. IsSectionText(s1, "audio", n1, 0)
      BY SectionTextIs DEF Media
    <2> HIDE DEF s1
    <2> QED BY <2>1 DEF IsSectionText
  <1>2. s2 \in Seq(Lines) /\ Len(s2) = 6 + g2 + n2
    <2>1. IsSectionText(s2, "video", n2, g2)
      BY SectionTextIs DEF Media
    <2> HIDE DEF s2
    <2> QED BY <2>1 DEF IsSectionText
  <1>3. h \in Seq(Lines) /\ Len(h) = 3
    <2>1. h[1] \in Lines /\ h[2] \in Lines /\ h[3] \in Lines
      BY DEF Lines
    <2> QED BY <2>1
  <1>4. x = (h \o s1) \o s2
    <2>1. a.media[1] = Sec("audio", "nodtls", n1, 0) /\ a.media[2] = Sec("video", "nodtls", n2, g2)
      BY DEF AnswerOf
    <2> QED BY <2>1 DEF AnswerText
  <1>5. /\ h[1] = LineOf("v", IF a.ver THEN "ok" ELSE "bad")
        /\ h[2] = LineOf("o", IF a.org THEN "ok" ELSE "bad") /\ h[3] = LineOf("other", "ok")
    OBVIOUS
  <1> HIDE DEF h, s1, s2
  <1> DEFINE hs == h \o s1
  <1>6. /\ hs \in Seq(Lines) /\ Len(hs) = 9 + n1
        /\ \A i \in 1 .. 3 : hs[i] = h[i]
        /\ \A i \in 1 .. 6 + n1 : hs[3 + i] = s1[i]
    <2>1. 3 + (6 + n1) = 9 + n1
      OBVIOUS
    <2>2. Joins(hs, h, s1, 3, 6 + n1)
      BY <1>1, <1>3, Concatenated
    <2> HIDE DEF hs
    <2> QED BY <2>1, <2>2 DEF Joins
  <1> HIDE DEF hs
  <1>7. /\ x \in Seq(Lines) /\ DOMAIN x = 1 .. 15 + n1 + n2 + g2
        /\ \A i \in 1 .. 9 + n1 : x[i] = hs[i]
        /\ \A i \in 1 .. 6 + g2 + n2 : x[9 + n1 + i] = s2[i]
    <2>1. (9 + n1) + (6 + g2 + n2) = 15 + n1 + n2 + g2
      OBVIOUS
    <2>2. x = hs \o s2
      BY <1>4 DEF hs
    <2>3. Joins(x, hs, s2, 9 + n1, 6 + g2 + n2)
      BY <1>2, <1>6, <2>2, Concatenated
    <2> QED BY <2>1, <2>3 DEF Joins
  <1>8. \A i \in 1 .. 3 : x[i] = h[i]
    <2>1. \A i \in 1 .. 3 : i \in 1 .. 9 + n1
      OBVIOUS
    <2> QED BY <1>6, <1>7, <2>1
  <1>9. \A i \in 1 .. 6 + n1 : x[3 + i] = s1[i]
    <2>1. \A i \in 1 .. 6 + n1 : 3 + i \in 1 .. 9 + n1
      OBVIOUS
    <2> QED BY <1>6, <1>7, <2>1
  <1>10. /\ x[1] = LineOf("v", IF a.ver THEN "ok" ELSE "bad")
         /\ x[2] = LineOf("o", IF a.org THEN "ok" ELSE "bad") /\ x[3] = LineOf("other", "ok")
    BY <1>5, <1>8
  <1> QED BY <1>7, <1>9, <1>10 DEF s1, s2

-----------------------------------------------------------------------------
(* The parser with sections q, none of whose lines was bad, and with one more,
   the one that its pointer is at. *)
At(q, p) == [media |-> q, ver |-> TRUE, org |-> TRUE, ptr |-> p, flag |-> TRUE, stop |-> FALSE,
             died |-> FALSE]
In(q, c) == At(Append(q, c), Len(q) + 1)

LEMMA AtTyped ==
  ASSUME NEW q \in Seq(SectionStates), NEW p \in Nat
  PROVE  /\ At(q, p) \in SdpStates /\ At(q, p).media = q /\ At(q, p).ptr = p /\ At(q, p).flag
         /\ ~At(q, p).stop /\ ~At(q, p).died /\ At(q, p).ver /\ At(q, p).org
  BY DEF At, SdpStates

(* The flag is set, so the loop goes on. *)
LEMMA GoesOn ==
  ASSUME NEW q, NEW p, NEW r, r = At(q, p)
  PROVE  [r EXCEPT !.stop = ~r.flag] = r
  <1>1. r.flag = TRUE /\ r.stop = FALSE
    BY DEF At
  <1>2. (~r.flag) = r.stop
    BY <1>1
  <1>3. [r EXCEPT !.stop = r.stop] = r
    BY DEF At
  <1> QED BY <1>2, <1>3

LEMMA MediaLineRead ==
  ASSUME NEW q \in Seq(SectionStates), NEW p \in Nat, NEW t \in Media
  PROVE  ParseLine(At(q, p), LineOf("m", t)) = In(q, Sec(t, "nodtls", 0, 0))
  <1> DEFINE s == At(q, p)
             l == LineOf("m", t)
             r == MediaLine(s, t)
  <1>1. l.k = "m" /\ l.v = t /\ t # "bad"
    BY DEF LineOf, Media
  <1>2. r = [s EXCEPT !.media = Append(q, Section(t)), !.ptr = Len(q) + 1]
    BY <1>1, AtTyped DEF MediaLine
  <1>3. Section(t) = Sec(t, "nodtls", 0, 0)
    BY DEF Section, Sec
  <1>4. r = In(q, Sec(t, "nodtls", 0, 0))
    BY <1>2, <1>3 DEF At, In
  <1>5. [r EXCEPT !.stop = ~r.flag] = r
    BY <1>4, GoesOn DEF In
  <1> HIDE DEF r
  <1>6. ParseLine(s, l) = [r EXCEPT !.stop = ~r.flag]
    BY <1>1, AtTyped DEF ParseLine, r
  <1> QED BY <1>4, <1>5, <1>6

LEMMA OtherLineRead ==
  ASSUME NEW q \in Seq(SectionStates), NEW p \in Nat, NEW k \in {"other", "rtpmap"}
  PROVE  ParseLine(At(q, p), LineOf(k, "ok")) = At(q, p)
  <1> DEFINE s == At(q, p)
             l == LineOf(k, "ok")
             r == Field(s, l)
  <1>1. l.k = k /\ l.v = "ok" /\ l.k \notin {"m", "fingerprint", "ssrc", "group", "v", "o"}
    BY DEF LineOf
  <1>2. r = [s EXCEPT !.flag = TRUE, !.ver = TRUE, !.org = TRUE]
    BY <1>1, AtTyped DEF Field
  <1>3. r = s
    BY <1>2 DEF At
  <1>4. [r EXCEPT !.stop = ~r.flag] = r
    BY <1>3, GoesOn
  <1> HIDE DEF r
  <1>5. ParseLine(s, l) = [r EXCEPT !.stop = ~r.flag]
    BY <1>1, AtTyped DEF ParseLine, r
  <1> QED BY <1>3, <1>4, <1>5

LEMMA SectionLineRead ==
  ASSUME NEW q \in Seq(SectionStates), NEW c \in SectionStates,
         NEW l \in {LineOf("fingerprint", "set"), LineOf("group", "ok"), LineOf("ssrc", "ok")}
  PROVE  ParseLine(In(q, c), l) = In(q, Amended(c, l))
  <1> DEFINE m == Append(q, c)
             n == Len(q) + 1
             s == At(m, n)
             d == Amended(c, l)
             r == SectionLine(s, l)
  <1>1. l \in Lines /\ l.k \in SectionKinds /\ l.v \notin {"bad", "short"} /\ l.k # "m"
    BY DEF Lines, LineOf, SectionKinds
  <1>2. /\ m \in Seq(SectionStates) /\ Len(m) = n /\ n \in Nat /\ n \in 1 .. Len(m) /\ m[n] = c
    BY AppendProperties
  <1>3. d \in SectionStates
    BY <1>1, AmendedTyped
  <1> HIDE DEF d
  <1>4. [m EXCEPT ![n] = d] = Append(q, d)
    <2>1. /\ Append(q, d) \in Seq(SectionStates) /\ Len(Append(q, d)) = n
          /\ \A i \in 1 .. Len(q) : Append(q, d)[i] = q[i] /\ m[i] = q[i]
          /\ Append(q, d)[n] = d
      BY <1>3, AppendProperties
    <2> DEFINE x == [m EXCEPT ![n] = d]
               y == Append(q, d)
    <2>2. x \in Seq(SectionStates) /\ Len(x) = n /\ \A i \in 1 .. n : x[i] = IF i = n THEN d ELSE m[i]
      <3> HIDE DEF m, n
      <3> QED BY <1>2, <1>3
    <2>3. \A i \in 1 .. n : i = n \/ i \in 1 .. Len(q)
      OBVIOUS
    <2>4. \A i \in 1 .. n : x[i] = y[i]
      BY <2>1, <2>2, <2>3
    <2> HIDE DEF x, y
    <2>5. x = y
      BY <2>1, <2>2, <2>4, SeqEqual DEF y
    <2> QED BY <2>5 DEF x, y
  <1>5. r = [media |-> [m EXCEPT ![n] = d], ver |-> TRUE, org |-> TRUE, ptr |-> n, flag |-> TRUE,
             stop |-> FALSE, died |-> FALSE]
    <2>1. /\ s \in SdpStates /\ s.media = m /\ s.ptr = n /\ ~s.stop /\ ~s.died
          /\ s.ver = TRUE /\ s.org = TRUE /\ s.stop = FALSE /\ s.died = FALSE
      BY <1>2, AtTyped DEF At
    <2> HIDE DEF s, m, n
    <2>2. SectionLine(s, l) =
           [media |-> [s.media EXCEPT ![s.ptr] = Amended(s.media[s.ptr], l)], ver |-> s.ver,
            org |-> s.org, ptr |-> s.ptr, flag |-> TRUE, stop |-> s.stop, died |-> s.died]
      BY <1>1, <1>2, <2>1, SectionLineIs
    <2> QED BY <1>2, <2>1, <2>2 DEF d
  <1>6. r = In(q, d)
    BY <1>4, <1>5 DEF In, At
  <1>7. [r EXCEPT !.stop = ~r.flag] = r
    BY <1>6, GoesOn DEF In
  <1> HIDE DEF r
  <1>8. ParseLine(s, l) = [r EXCEPT !.stop = ~r.flag]
    <2>1. ~s.stop /\ ~s.died
      BY <1>2, AtTyped
    <2> HIDE DEF s
    <2> QED BY <1>1, <2>1 DEF ParseLine, r, SectionKinds
  <1> QED BY <1>6, <1>7, <1>8 DEF In, d
LEMMA AmendedIs ==
  ASSUME NEW t \in Media, NEW d \in {"nodtls", "set"}, NEW n \in Nat, NEW g \in Nat
  PROVE  /\ Sec(t, d, n, g) \in SectionStates
         /\ Amended(Sec(t, d, n, g), LineOf("fingerprint", "set")) = Sec(t, "set", n, g)
         /\ Amended(Sec(t, d, n, g), LineOf("group", "ok")) = Sec(t, d, n, g + 1)
         /\ Amended(Sec(t, d, n, g), LineOf("ssrc", "ok")) = Sec(t, d, n + 1, g)
  <1>1. Sec(t, d, n, g) \in SectionStates
    BY DEF Sec, SectionStates
  <1>2. Amended(Sec(t, d, n, g), LineOf("fingerprint", "set")) = Sec(t, "set", n, g)
    BY DEF Amended, Sec, LineOf
  <1>3. Amended(Sec(t, d, n, g), LineOf("group", "ok")) = Sec(t, d, n, g + 1)
    BY DEF Amended, Sec, LineOf
  <1>4. Amended(Sec(t, d, n, g), LineOf("ssrc", "ok")) = Sec(t, d, n + 1, g)
    BY DEF Amended, Sec, LineOf
  <1> QED BY <1>1, <1>2, <1>3, <1>4

(* A section's text is read from position p on. *)
ReadsFrom(R, x, p, k) == \A i \in 1 .. k : R[p + i] = ParseLine(R[p + (i - 1)], x[i])

LEMMA SectionRead ==
  ASSUME NEW q \in Seq(SectionStates), NEW z \in Nat, NEW t \in Media, NEW n \in Nat, NEW g \in Nat,
         NEW x, IsSectionText(x, t, n, g), NEW p \in Nat, NEW R, R[p] = At(q, z),
         ReadsFrom(R, x, p, 6 + g + n)
  PROVE  R[p + (6 + g + n)] = In(q, Sec(t, "set", n, g))
  <1> DEFINE k == 6 + g + n
  <1>1. \A i \in 1 .. k : R[p + i] = ParseLine(R[p + (i - 1)], x[i])
    BY DEF ReadsFrom
  <1> DEFINE c == Sec(t, "nodtls", 0, 0)
  <1>2. R[p + 1] = In(q, c)
    <2>1. R[p + 1] = ParseLine(R[p + (1 - 1)], x[1]) /\ p + (1 - 1) = p
      BY <1>1
    <2> QED BY <2>1, MediaLineRead DEF IsSectionText
  <1>3. ASSUME NEW d \in SectionStates
        PROVE  /\ Append(q, d) \in Seq(SectionStates) /\ Len(q) + 1 \in Nat
               /\ ParseLine(In(q, d), LineOf("other", "ok")) = In(q, d)
               /\ ParseLine(In(q, d), LineOf("rtpmap", "ok")) = In(q, d)
    <2>1. Append(q, d) \in Seq(SectionStates) /\ Len(q) + 1 \in Nat
      BY AppendProperties
    <2> QED BY <2>1, OtherLineRead DEF In
  <1>4. c \in SectionStates /\ Sec(t, "set", 0, 0) \in SectionStates
    BY AmendedIs
  <1>5. R[p + 4] = In(q, c)
    <2>1. /\ R[p + 2] = ParseLine(R[p + 1], x[2]) /\ R[p + 3] = ParseLine(R[p + 2], x[3])
          /\ R[p + 4] = ParseLine(R[p + 3], x[4])
      <3>1. 2 - 1 = 1 /\ 3 - 1 = 2 /\ 4 - 1 = 3 /\ 2 \in 1 .. k /\ 3 \in 1 .. k /\ 4 \in 1 .. k
        OBVIOUS
      <3> QED BY <1>1, <3>1
    <2> HIDE DEF c
    <2> QED BY <1>2, <1>3, <1>4, <2>1 DEF IsSectionText
  <1>6. R[p + 6] = In(q, Sec(t, "set", 0, 0))
    <2>1. R[p + 5] = ParseLine(R[p + 4], x[5]) /\ R[p + 6] = ParseLine(R[p + 5], x[6])
      <3>1. 5 - 1 = 4 /\ 6 - 1 = 5 /\ 5 \in 1 .. k /\ 6 \in 1 .. k
        OBVIOUS
      <3> QED BY <1>1, <3>1
    <2>2. R[p + 5] = In(q, Sec(t, "set", 0, 0))
      <3>1. Amended(c, LineOf("fingerprint", "set")) = Sec(t, "set", 0, 0)
        BY AmendedIs
      <3> HIDE DEF c
      <3> QED BY <1>4, <1>5, <2>1, <3>1, SectionLineRead DEF IsSectionText
    <2> QED BY <1>3, <1>4, <2>1, <2>2 DEF IsSectionText
  <1>7. \A j \in 0 .. g : R[p + (6 + j)] = In(q, Sec(t, "set", 0, j))
    <2> DEFINE T == { j \in 0 .. g : R[p + (6 + j)] # In(q, Sec(t, "set", 0, j)) }
    <2> SUFFICES ASSUME T # {} PROVE FALSE
      OBVIOUS
    <2>1. PICK j \in T : \A i \in T : j <= i
      <3>1. T \subseteq Nat
        OBVIOUS
      <3> QED BY <3>1, LeastNumber
    <2>2. j # 0
      BY <1>6
    <2>3. j - 1 \in 0 .. g /\ ~ (j <= j - 1) /\ j \in 1 .. g /\ j \in Nat /\ j - 1 \in Nat
      BY <2>2
    <2>4. R[p + (6 + (j - 1))] = In(q, Sec(t, "set", 0, j - 1))
      BY <2>1, <2>3
    <2>5. R[p + (6 + j)] = ParseLine(R[p + (6 + (j - 1))], x[6 + j])
      <3>1. 6 + j \in 1 .. k /\ (6 + j) - 1 = 6 + (j - 1)
        BY <2>3
      <3> QED BY <1>1, <3>1
    <2>6. x[6 + j] = LineOf("group", "ok")
      BY <2>3 DEF IsSectionText
    <2>7. /\ Sec(t, "set", 0, j - 1) \in SectionStates
          /\ Amended(Sec(t, "set", 0, j - 1), LineOf("group", "ok")) = Sec(t, "set", 0, j)
      <3>1. (j - 1) + 1 = j
        BY <2>3
      <3> DEFINE i == j - 1
      <3>2. i \in Nat
        BY <2>3
      <3> HIDE DEF i
      <3>3. /\ Sec(t, "set", 0, i) \in SectionStates
            /\ Amended(Sec(t, "set", 0, i), LineOf("group", "ok")) = Sec(t, "set", 0, i + 1)
        <4>1. \A n0 \in Nat : /\ Sec(t, "set", n0, i) \in SectionStates
                              /\ Amended(Sec(t, "set", n0, i), LineOf("group", "ok")) = Sec(t, "set", n0, i + 1)
          BY <3>2, AmendedIs
        <4> QED BY <4>1
      <3> QED BY <3>1, <3>3 DEF i
    <2>8. R[p + (6 + j)] = In(q, Sec(t, "set", 0, j))
      BY <2>4, <2>5, <2>6, <2>7, SectionLineRead
    <2> QED BY <2>1, <2>8
  <1>8. \A j \in 0 .. n : R[p + (6 + g + j)] = In(q, Sec(t, "set", j, g))
    <2> DEFINE T == { j \in 0 .. n : R[p + (6 + g + j)] # In(q, Sec(t, "set", j, g)) }
    <2> SUFFICES ASSUME T # {} PROVE FALSE
      OBVIOUS
    <2>1. PICK j \in T : \A i \in T : j <= i
      <3>1. T \subseteq Nat
        OBVIOUS
      <3> QED BY <3>1, LeastNumber
    <2>2. j # 0
      <3>1. 6 + g + 0 = 6 + g /\ g \in 0 .. g
        OBVIOUS
      <3> QED BY <1>7, <2>1, <3>1
    <2>3. j - 1 \in 0 .. n /\ ~ (j <= j - 1) /\ j \in 1 .. n /\ j \in Nat /\ j - 1 \in Nat
      BY <2>2
    <2>4. R[p + (6 + g + (j - 1))] = In(q, Sec(t, "set", j - 1, g))
      BY <2>1, <2>3
    <2>5. R[p + (6 + g + j)] = ParseLine(R[p + (6 + g + (j - 1))], x[6 + g + j])
      <3>1. 6 + g + j \in 1 .. k /\ (6 + g + j) - 1 = 6 + g + (j - 1)
        BY <2>3
      <3> QED BY <1>1, <3>1
    <2>6. x[6 + g + j] = LineOf("ssrc", "ok")
      BY <2>3 DEF IsSectionText
    <2>7. /\ Sec(t, "set", j - 1, g) \in SectionStates
          /\ Amended(Sec(t, "set", j - 1, g), LineOf("ssrc", "ok")) = Sec(t, "set", j, g)
      <3>1. (j - 1) + 1 = j
        BY <2>3
      <3> DEFINE i == j - 1
      <3>2. i \in Nat
        BY <2>3
      <3> HIDE DEF i
      <3>3. /\ Sec(t, "set", i, g) \in SectionStates
            /\ Amended(Sec(t, "set", i, g), LineOf("ssrc", "ok")) = Sec(t, "set", i + 1, g)
        BY <3>2, AmendedIs
      <3> QED BY <3>1, <3>3 DEF i
    <2>8. R[p + (6 + g + j)] = In(q, Sec(t, "set", j, g))
      BY <2>4, <2>5, <2>6, <2>7, SectionLineRead
    <2> QED BY <2>1, <2>8
  <1>9. n \in 0 .. n
    OBVIOUS
  <1> QED BY <1>8, <1>9

-----------------------------------------------------------------------------
(* After a bad line nothing more is read. *)
LEMMA StaysStopped ==
  ASSUME NEW R, NEW x, NEW n \in Nat, Reads(R, x, n), NEW m \in 0 .. n, R[m].stop
  PROVE  R[n] = R[m]
  <1> DEFINE T == { j \in m .. n : R[j] # R[m] }
  <1> SUFFICES ASSUME T # {} PROVE FALSE
    OBVIOUS
  <1>1. PICK j \in T : \A i \in T : j <= i
    <2>1. T \subseteq Nat
      OBVIOUS
    <2> QED BY <2>1, LeastNumber
  <1>2. j # m /\ j \in m .. n
    BY <1>1
  <1>3. j - 1 \in m .. n /\ j \in 1 .. n /\ ~ (j <= j - 1)
    BY <1>2
  <1>4. R[j - 1] = R[m]
    BY <1>1, <1>3
  <1>5. R[j] = ParseLine(R[j - 1], x[j])
    BY <1>3 DEF Reads
  <1>6. R[j] = R[m]
    BY <1>4, <1>5 DEF ParseLine
  <1> QED BY <1>1, <1>6

(* The first two lines of a text. *)
LEMMA VersionRead ==
  ASSUME NEW b \in BOOLEAN
  PROVE  LET r == ParseLine(Fresh, LineOf("v", IF b THEN "ok" ELSE "bad"))
         IN  r = [media |-> << >>, ver |-> b, org |-> FALSE, ptr |-> 0, flag |-> b, stop |-> ~b,
                  died |-> FALSE]
  <1>1. CASE b
    BY <1>1 DEF ParseLine, Field, Fresh, LineOf
  <1>2. CASE ~b
    BY <1>2 DEF ParseLine, Field, Fresh, LineOf
  <1> QED BY <1>1, <1>2

LEMMA OriginRead ==
  ASSUME NEW b \in BOOLEAN
  PROVE  LET s == [media |-> << >>, ver |-> TRUE, org |-> FALSE, ptr |-> 0, flag |-> TRUE,
                   stop |-> FALSE, died |-> FALSE]
             r == ParseLine(s, LineOf("o", IF b THEN "ok" ELSE "bad"))
         IN  r = [media |-> << >>, ver |-> TRUE, org |-> b, ptr |-> 0, flag |-> b, stop |-> ~b,
                  died |-> FALSE]
  <1>1. CASE b
    BY <1>1 DEF ParseLine, Field, LineOf
  <1>2. CASE ~b
    BY <1>2 DEF ParseLine, Field, LineOf
  <1> QED BY <1>1, <1>2

-----------------------------------------------------------------------------
(* The two sections of an answer that was read to its end. *)
WithFingerprints(a) == [i \in {1, 2} |-> [a.media[i] EXCEPT !.dtls = "set"]]

LEMMA BothSections ==
  ASSUME NEW a, NEW n1 \in Nat, NEW n2 \in Nat, NEW g2 \in Nat, AnswerOf(a, n1, n2, g2),
         NEW m, m = Append(Append(<< >>, Sec("audio", "set", n1, 0)), Sec("video", "set", n2, g2))
  PROVE  m = WithFingerprints(a)
  <1> DEFINE c1 == Sec("audio", "set", n1, 0)
             c2 == Sec("video", "set", n2, g2)
             f == [i \in {1, 2} |-> [a.media[i] EXCEPT !.dtls = "set"]]
  <1>1. /\ [Sec("audio", "nodtls", n1, 0) EXCEPT !.dtls = "set"] = c1
        /\ [Sec("video", "nodtls", n2, g2) EXCEPT !.dtls = "set"] = c2
    BY DEF Sec
  <1>2. a.media[1] = Sec("audio", "nodtls", n1, 0) /\ a.media[2] = Sec("video", "nodtls", n2, g2)
    BY DEF AnswerOf
  <1>3. f = [i \in {1, 2} |-> f[i]] /\ f[1] = c1 /\ f[2] = c2
    BY <1>1, <1>2
  <1> HIDE DEF c1, c2, f
  <1>5. m = [i \in {1, 2} |-> m[i]] /\ m[1] = c1 /\ m[2] = c2
    <2> DEFINE S == {c1, c2}
               q == Append(<< >>, c1)
    <2>1. << >> \in Seq(S) /\ Len(<< >>) = 0 /\ c1 \in S /\ c2 \in S
      OBVIOUS
    <2>2. q \in Seq(S) /\ Len(q) = 1 /\ q[1] = c1
      BY <2>1, AppendProperties
    <2>3. m = Append(q, c2)
      BY DEF c1, c2
    <2> HIDE DEF q, S
    <2>4. m \in Seq(S) /\ Len(m) = 2 /\ m[1] = c1 /\ m[2] = c2
      BY <2>1, <2>2, <2>3, AppendProperties
    <2>5. m = [i \in 1 .. 2 |-> m[i]]
      BY <2>4
    <2>6. 1 .. 2 = {1, 2}
      OBVIOUS
    <2> QED BY <2>4, <2>5, <2>6
  <1>6. m = f
    BY <1>3, <1>5
  <1> QED BY <1>6 DEF f, WithFingerprints

(* What parse_sdp makes of the text of an answer. *)
ReadsBackAs(a) ==
  /\ ReadBack(a).flag <=> (a.ver /\ a.org)
  /\ ReadBack(a).flag => ReadBack(a).media = WithFingerprints(a)

LEMMA AnswersRead ==
  ASSUME NEW a, NEW n1 \in Nat, NEW n2 \in Nat, NEW g2 \in Nat, AnswerOf(a, n1, n2, g2)
  PROVE  ReadsBackAs(a)
  <1> DEFINE x == AnswerText(a)
             n == 15 + n1 + n2 + g2
             s1 == SectionText(Sec("audio", "nodtls", n1, 0))
             s2 == SectionText(Sec("video", "nodtls", n2, g2))
  <1>1. /\ DOMAIN x = 1 .. n
        /\ x[1] = LineOf("v", IF a.ver THEN "ok" ELSE "bad")
        /\ x[2] = LineOf("o", IF a.org THEN "ok" ELSE "bad")
        /\ x[3] = LineOf("other", "ok")
        /\ \A i \in 1 .. 6 + n1 : x[3 + i] = s1[i]
        /\ \A i \in 1 .. 6 + g2 + n2 : x[9 + n1 + i] = s2[i]
    BY AnswerTextIs
  <1>2. n \in Nat /\ 1 \in 1 .. n /\ 2 \in 1 .. n /\ 3 \in 1 .. n /\ 1 \in 0 .. n /\ 2 \in 0 .. n
    OBVIOUS
  <1>3. IsSectionText(s1, "audio", n1, 0) /\ IsSectionText(s2, "video", n2, g2)
    BY SectionTextIs DEF Media
  <1> HIDE DEF s1, s2, x, n
  <1>4. PICK R : Reads(R, x, n) /\ FoldLeft(ParseLine, Fresh, x) = R[n]
    BY <1>1, <1>2, ParserRuns
  <1>5. ReadBack(a) = R[n]
    BY <1>4 DEF ReadBack, x
  <1>6. a.ver \in BOOLEAN /\ a.org \in BOOLEAN
    BY DEF AnswerOf
  <1>7. R[0] = Fresh /\ \A k \in 1 .. n : R[k] = ParseLine(R[k - 1], x[k])
    BY <1>4 DEF Reads
  <1>8. R[1] = ParseLine(Fresh, x[1]) /\ R[2] = ParseLine(R[1], x[2]) /\ R[3] = ParseLine(R[2], x[3])
    <2>1. 1 - 1 = 0 /\ 2 - 1 = 1 /\ 3 - 1 = 2
      OBVIOUS
    <2>2. R[1] = ParseLine(R[1 - 1], x[1]) /\ R[2] = ParseLine(R[2 - 1], x[2]) /\ R[3] = ParseLine(R[3 - 1], x[3])
      BY <1>2, <1>7
    <2> QED BY <1>7, <2>1, <2>2
  <1>9. R[1] = [media |-> << >>, ver |-> a.ver, org |-> FALSE, ptr |-> 0, flag |-> a.ver,
                stop |-> ~a.ver, died |-> FALSE]
    BY <1>1, <1>6, <1>8, VersionRead
  <1>10. CASE ~a.ver
    <2>1. R[1].stop /\ ~R[1].flag
      <3>1. a.ver = FALSE /\ (~a.ver) = TRUE
        BY <1>6, <1>10
      <3>2. R[1] = [media |-> << >>, ver |-> FALSE, org |-> FALSE, ptr |-> 0, flag |-> FALSE,
                    stop |-> TRUE, died |-> FALSE]
        BY <1>9, <3>1
      <3> QED BY <3>2
    <2>2. R[n] = R[1]
      BY <1>2, <1>4, <2>1, StaysStopped
    <2>3. ~ReadBack(a).flag
      BY <1>5, <2>1, <2>2
    <2> QED BY <1>10, <2>3 DEF ReadsBackAs
  <1>11. CASE a.ver
    <2>1. a.ver = TRUE
      BY <1>6, <1>11
    <2>2. R[1] = [media |-> << >>, ver |-> TRUE, org |-> FALSE, ptr |-> 0, flag |-> TRUE,
                  stop |-> FALSE, died |-> FALSE]
      BY <1>9, <2>1
    <2>3. R[2] = [media |-> << >>, ver |-> TRUE, org |-> a.org, ptr |-> 0, flag |-> a.org,
                  stop |-> ~a.org, died |-> FALSE]
      BY <1>1, <1>6, <1>8, <2>2, OriginRead
    <2>4. CASE ~a.org
      <3>1. R[2].stop /\ ~R[2].flag
        <4>1. a.org = FALSE /\ (~a.org) = TRUE
          BY <1>6, <2>4
        <4>2. R[2] = [media |-> << >>, ver |-> TRUE, org |-> FALSE, ptr |-> 0, flag |-> FALSE,
                      stop |-> TRUE, died |-> FALSE]
          BY <2>3, <4>1
        <4> QED BY <4>2
      <3>2. R[n] = R[2]
        BY <1>2, <1>4, <3>1, StaysStopped
      <3>3. ~ReadBack(a).flag
        BY <1>5, <3>1, <3>2
      <3> QED BY <2>4, <3>3 DEF ReadsBackAs
    <2>5. CASE a.org
      <3>1. a.org = TRUE
        BY <1>6, <2>5
      <3>2. R[2] = At(<< >>, 0)
        BY <2>3, <3>1 DEF At
      <3>3. << >> \in Seq(SectionStates) /\ 0 \in Nat
        OBVIOUS
      <3>4. R[3] = At(<< >>, 0)
        <4>1. ParseLine(At(<< >>, 0), LineOf("other", "ok")) = At(<< >>, 0)
          BY <3>3, OtherLineRead
        <4> QED BY <1>1, <1>8, <3>2, <4>1
      <3> DEFINE c1 == Sec("audio", "set", n1, 0)
                 c2 == Sec("video", "set", n2, g2)
                 q == Append(<< >>, c1)
                 e == 3 + (6 + 0 + n1)
      <3>5. ReadsFrom(R, s1, 3, 6 + 0 + n1)
        <4> SUFFICES ASSUME NEW i \in 1 .. 6 + 0 + n1
                     PROVE  R[3 + i] = ParseLine(R[3 + (i - 1)], s1[i])
          BY DEF ReadsFrom
        <4>1. 3 + i \in 1 .. n /\ (3 + i) - 1 = 3 + (i - 1) /\ i \in 1 .. 6 + n1
          BY DEF n
        <4> QED BY <1>1, <1>7, <4>1
      <3>6. R[e] = In(<< >>, c1)
        <4> DEFINE z == 0
                   y == << >>
        <4>1. y \in Seq(SectionStates) /\ z \in Nat /\ R[3] = At(y, z) /\ "audio" \in Media /\ 3 \in Nat
          BY <3>4 DEF Media
        <4>2. IsSectionText(s1, "audio", n1, z) /\ ReadsFrom(R, s1, 3, 6 + z + n1)
          BY <1>3, <3>5
        <4>3. (R[3 + (6 + z + n1)] = In(y, Sec("audio", "set", n1, z))) => R[e] = In(<< >>, c1)
          OBVIOUS
        <4> HIDE DEF y, z, e, c1
        <4>4. R[3 + (6 + z + n1)] = In(y, Sec("audio", "set", n1, z))
          BY <4>1, <4>2, SectionRead
        <4> QED BY <4>3, <4>4
      <3>7. c1 \in SectionStates /\ q \in Seq(SectionStates) /\ 1 \in Nat
        <4>1. c1 \in SectionStates
          BY DEF Sec, SectionStates, Media
        <4> QED BY <3>3, <4>1, AppendProperties
      <3>8. R[e] = At(q, 1)
        <4>1. Len(<< >>) + 1 = 1
          OBVIOUS
        <4> QED BY <3>6, <4>1 DEF In
      <3> HIDE DEF q, c1
      <3>9. ReadsFrom(R, s2, e, 6 + g2 + n2)
        <4> SUFFICES ASSUME NEW i \in 1 .. 6 + g2 + n2
                     PROVE  R[e + i] = ParseLine(R[e + (i - 1)], s2[i])
          BY DEF ReadsFrom
        <4>1. e + i \in 1 .. n /\ (e + i) - 1 = e + (i - 1) /\ 9 + n1 + i = e + i
          BY DEF n
        <4> HIDE DEF e
        <4> QED BY <1>1, <1>7, <4>1
      <3>10. e \in Nat /\ e + (6 + g2 + n2) = n
        BY DEF n
      <3> HIDE DEF e
      <3>11. R[n] = In(q, c2)
        <4>1. "video" \in Media
          BY DEF Media
        <4>2. R[e + (6 + g2 + n2)] = In(q, Sec("video", "set", n2, g2))
          BY <1>3, <3>7, <3>8, <3>9, <3>10, <4>1, SectionRead
        <4> QED BY <3>10, <4>2
      <3>12. R[n].flag /\ R[n].media = Append(q, c2)
        BY <3>11 DEF In, At
      <3>13. R[n].media = WithFingerprints(a)
        <4>1. R[n].media = Append(Append(<< >>, Sec("audio", "set", n1, 0)), Sec("video", "set", n2, g2))
          BY <3>12 DEF q, c1
        <4> HIDE DEF c2
        <4> QED BY <4>1, BothSections
      <3> QED BY <1>5, <1>11, <2>5, <3>12, <3>13 DEF ReadsBackAs
    <2> QED BY <1>6, <2>4, <2>5
  <1> QED BY <1>6, <1>10, <1>11

-----------------------------------------------------------------------------
(* An answer has as many ssrcs and groups as one of the sections has. *)
AnswerInv ==
  answer = NoAnswer \/ \E n1 \in Nat, n2 \in Nat, g2 \in Nat : AnswerOf(answer, n1, n2, g2)

LEMMA FirstOfType ==
  ASSUME NEW s \in SdpStates, NEW mt \in Media
  PROVE  MediaContent(s, mt).ssrcs \in Nat /\ MediaContent(s, mt).groups \in Nat
  <1> DEFINE T == { i \in 1 .. Len(s.media) : s.media[i].type = mt }
             i == SelectInSeq(s.media, LAMBDA c : c.type = mt)
  <1>1. s.media \in Seq(SectionStates) /\ Len(s.media) \in Nat
    BY DEF SdpStates
  <1>2. i = IF T # {} THEN Min(T) ELSE 0
    BY DEF SelectInSeq
  <1>3. i # 0 => i \in 1 .. Len(s.media)
    <2>1. CASE T # {}
      <3>1. T \subseteq Nat
        BY <1>1
      <3>2. PICK x \in T : \A y \in T : x <= y
        BY <2>1, <3>1, LeastNumber
      <3>3. Min(T) \in T
        BY <3>2 DEF Min
      <3> QED BY <1>2, <2>1, <3>3
    <2> QED BY <1>2, <2>1
  <1>4. MediaContent(s, mt) = IF i = 0 THEN Section(mt) ELSE s.media[i]
    BY DEF MediaContent
  <1> HIDE DEF i
  <1>5. MediaContent(s, mt) \in SectionStates
    BY <1>1, <1>3, <1>4, SectionTyped
  <1> QED BY <1>5 DEF SectionStates

LEMMA AnswerKept ==
  ASSUME OfferInv, NEW o \in Owners, CreateAnswer(o)
  PROVE  AnswerInv'
  <1> DEFINE a == MediaContent(sdp["pub"], "audio")
             v == MediaContent(sdp["pub"], "video")
             sends == o = "pull"
             n1 == IF sends THEN a.ssrcs ELSE 0
             n2 == IF sends THEN v.ssrcs ELSE 0
             g2 == IF sends THEN v.groups ELSE 0
  <1>1. sdp["pub"] \in SdpStates /\ sdp[o] \in SdpStates
    BY DEF OfferInv, Owners
  <1>2. n1 \in Nat /\ n2 \in Nat /\ g2 \in Nat
    <2>1. a.ssrcs \in Nat /\ v.ssrcs \in Nat /\ v.groups \in Nat
      BY <1>1, FirstOfType DEF Media
    <2> HIDE DEF a, v
    <2> QED BY <2>1
  <1>3. answer' = [for |-> o, direct |-> IF sends THEN "sendonly" ELSE "recvonly",
                   ver |-> sdp[o].ver, org |-> sdp[o].org,
                   media |-> <<[Section("audio") EXCEPT !.ssrcs = n1],
                               [Section("video") EXCEPT !.ssrcs = n2, !.groups = g2]>>]
    BY DEF CreateAnswer
  <1> HIDE DEF n1, n2, g2
  <1>4. /\ [Section("audio") EXCEPT !.ssrcs = n1] = Sec("audio", "nodtls", n1, 0)
        /\ [Section("video") EXCEPT !.ssrcs = n2, !.groups = g2] = Sec("video", "nodtls", n2, g2)
    <2>1. [Section("audio") EXCEPT !.ssrcs = n1] = Sec("audio", "nodtls", n1, 0)
      BY DEF Section, Sec
    <2>2. [Section("video") EXCEPT !.ssrcs = n2, !.groups = g2] = Sec("video", "nodtls", n2, g2)
      <3> DEFINE r == [type |-> "video", dtls |-> "nodtls", ssrcs |-> 0, groups |-> 0]
                 t == [r EXCEPT !.ssrcs = n2]
      <3>1. Section("video") = r
        BY DEF Section
      <3>2. t = [type |-> "video", dtls |-> "nodtls", ssrcs |-> n2, groups |-> 0]
        OBVIOUS
      <3>3. [r EXCEPT !.ssrcs = n2, !.groups = g2] = [t EXCEPT !.groups = g2]
        OBVIOUS
      <3> HIDE DEF t, r
      <3>4. [t EXCEPT !.groups = g2] = Sec("video", "nodtls", n2, g2)
        BY <3>2 DEF Sec
      <3> QED BY <3>1, <3>3, <3>4
    <2> QED BY <2>1, <2>2
  <1>5. sdp[o].ver \in BOOLEAN /\ sdp[o].org \in BOOLEAN
    BY <1>1 DEF SdpStates
  <1>6. AnswerOf(answer', n1, n2, g2)
    BY <1>3, <1>4, <1>5 DEF AnswerOf
  <1> QED BY <1>2, <1>6 DEF AnswerInv

LEMMA AnswerInvariant == SdpSpec => []AnswerInv
  <1>1. SdpInit => AnswerInv
    BY DEF SdpInit, AnswerInv
  <1>2. OfferInv /\ AnswerInv /\ [SdpNext]_sdpVars => AnswerInv'
    <2> SUFFICES ASSUME OfferInv, AnswerInv, [SdpNext]_sdpVars
                 PROVE  AnswerInv'
      OBVIOUS
    <2>1. ASSUME NEW o \in {"pub", "pull"}, CreateAnswer(o)
          PROVE  AnswerInv'
      BY <2>1, AnswerKept DEF Owners
    <2>2. ASSUME UNCHANGED answer
          PROVE  AnswerInv'
      BY <2>2 DEF AnswerInv
    <2>3. (\E o \in {"pub", "pull"} : CreateAnswer(o)) \/ UNCHANGED answer
      BY DEF SdpNext, ParseStart, ParseNext, OfferEnd, sdpVars
    <2> QED BY <2>1, <2>2, <2>3
  <1> QED BY <1>1, <1>2, OfferInvariant, PTL DEF SdpSpec

(* Whatever the publisher offered, in however many sections, with however many
   ssrcs and groups: parse_sdp reads the text that to_string makes of an answer
   back to an audio and a video section with a fingerprint and those numbers,
   if the member's offers had a version and an origin, and refuses it if not. *)
THEOREM AnswersReadBack == SdpSpec => []AnswerReadsBack
  <1>1. AnswerInv => AnswerReadsBack
    <2> SUFFICES ASSUME AnswerInv, answer # NoAnswer
                 PROVE  ReadsBackAs(answer)
      BY DEF AnswerReadsBack, ReadsBackAs, WithFingerprints
    <2>1. PICK n1 \in Nat, n2 \in Nat, g2 \in Nat : AnswerOf(answer, n1, n2, g2)
      BY DEF AnswerInv
    <2> QED BY <2>1, AnswersRead
  <1> QED BY <1>1, AnswerInvariant, PTL
=============================================================================
