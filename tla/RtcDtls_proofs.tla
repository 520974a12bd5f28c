--------------------------- MODULE RtcDtls_proofs ---------------------------
(***************************************************************************)
(* Proofs about a DTLS connection, for every queue capacity, every outcome *)
(* of StartSSL and all datagrams of the peer, however many records each    *)
(* has.                                                                    *)
(*                                                                         *)
(* One call of handle_dtls works through all records of a datagram, so an  *)
(* induction over the records comes first.  It rests on the least element  *)
(* of a set of numbers, which needs no operator as a parameter.            *)
(*                                                                         *)
(* At the end: which datagrams get there, and the order of the others.     *)
(***************************************************************************)
EXTENDS RtcDtls, RtpRtcp, WellFoundedInduction, NaturalsInduction, TLAPS

LEMMA LeastElement ==
  ASSUME NEW T, T \subseteq Nat, T # {}
  PROVE  \E n \in T : \A k \in T : n <= k
  <1>1. PICK n \in T : \A k \in T : ~ (<<k, n>> \in OpToRel(<, Nat))
    BY NatLessThanWellFounded, WFMin
  <1>2. \A k \in T : k \in Nat /\ n \in Nat /\ ~ (k < n)
    BY <1>1 DEF OpToRel
  <1> QED BY <1>2

(* Induction up to n, for a set. *)
LEMMA UpTo ==
  ASSUME NEW n \in Nat, NEW S, 0 \in S, \A k \in 1 .. n : k - 1 \in S => k \in S
  PROVE  n \in S
  <1> DEFINE T == { k \in 0 .. n : k \notin S }
  <1> SUFFICES ASSUME T # {}
               PROVE  FALSE
    OBVIOUS
  <1>0. T \subseteq Nat
    OBVIOUS
  <1>1. PICK k \in T : \A j \in T : k <= j
    BY <1>0, LeastElement
  <1>2. k \in 1 .. n /\ k - 1 \in 0 .. n /\ k - 1 \notin T
    BY <1>1
  <1> QED BY <1>1, <1>2

-----------------------------------------------------------------------------
(* FoldLeft is defined by recursion over the sets of positions: that its
   function exists, and what it is for the first k positions. *)
IterOf(g, b, rs, n) ==
  g = [s \in SUBSET (1 .. n) |-> IF s = {} THEN b ELSE Consume(g[s \ {Max(s)}], rs[Max(s)])]

LEMMA MaxOfFirst ==
  ASSUME NEW n \in Nat, NEW s \in SUBSET (1 .. n), n \in s
  PROVE  Max(s) = n
  <1>1. \A y \in s : y \in Int /\ n >= y
    OBVIOUS
  <1>2. \E x \in s : \A y \in s : x >= y
    BY <1>1
  <1>3. Max(s) \in s /\ \A y \in s : Max(s) >= y
    BY <1>2 DEF Max
  <1>4. Max(s) >= n /\ n >= Max(s) /\ Max(s) \in Int
    BY <1>1, <1>3
  <1> QED BY <1>4

LEMMA IterExists ==
  ASSUME NEW b, NEW rs, NEW n \in Nat
  PROVE  \E g : IterOf(g, b, rs, n)
  <1> DEFINE S == { k \in 0 .. n : \E g : IterOf(g, b, rs, k) }
  <1>1. 0 \in S
    <2> DEFINE g == [s \in SUBSET (1 .. 0) |-> b]
    <2>1. IterOf(g, b, rs, 0)
      BY DEF IterOf
    <2> QED BY <2>1
  <1>2. ASSUME NEW k \in 1 .. n, k - 1 \in S
        PROVE  k \in S
    <2>1. PICK g : IterOf(g, b, rs, k - 1)
      BY <1>2
    <2> DEFINE h == [s \in SUBSET (1 .. k) |->
                       IF k \in s THEN Consume(g[s \ {k}], rs[k]) ELSE g[s]]
    <2>2. \A s \in SUBSET (1 .. k - 1) :
            g[s] = IF s = {} THEN b ELSE Consume(g[s \ {Max(s)}], rs[Max(s)])
      BY <2>1 DEF IterOf
    <2>3. ASSUME NEW s \in SUBSET (1 .. k), k \in s
          PROVE  h[s] = IF s = {} THEN b ELSE Consume(h[s \ {Max(s)}], rs[Max(s)])
      <3>1. Max(s) = k /\ s \ {k} \in SUBSET (1 .. k)
        BY <2>3, MaxOfFirst
      <3>2. h[s \ {k}] = g[s \ {k}]
        BY <3>1
      <3> QED BY <2>3, <3>1, <3>2
    <2>4. ASSUME NEW s \in SUBSET (1 .. k), k \notin s
          PROVE  h[s] = IF s = {} THEN b ELSE Consume(h[s \ {Max(s)}], rs[Max(s)])
      <3>1. s \in SUBSET (1 .. k - 1)
        BY <2>4
      <3>2. s \ {Max(s)} \in SUBSET (1 .. k) /\ k \notin s \ {Max(s)}
        BY <2>4
      <3> QED BY <2>2, <2>4, <3>1, <3>2
    <2>5. IterOf(h, b, rs, k)
      BY <2>3, <2>4 DEF IterOf
    <2> QED BY <2>5
  <1> HIDE DEF S
  <1>3. n \in S
    BY <1>1, <1>2, UpTo
  <1> QED BY <1>3 DEF S

(* g[k] is the working state after the first k records. *)
Rounds(g, b, rs, n) ==
  /\ g[0] = b
  /\ \A k \in 1 .. n : g[k] = Consume(g[k - 1], rs[k])

ReadAll(b, rs) == FoldLeft(Consume, b, rs)

LEMMA FoldRounds ==
  ASSUME NEW b, NEW rs, NEW n \in Nat, DOMAIN rs = 1 .. n
  PROVE  \E g : Rounds(g, b, rs, n) /\ ReadAll(b, rs) = g[n]
  <1> DEFINE f == CHOOSE g : g = [s \in SUBSET (1 .. n) |->
                    IF s = {} THEN b ELSE Consume(g[s \ {Max(s)}], rs[Max(s)])]
             g == [k \in 0 .. n |-> f[1 .. k]]
  <1>1. \E h : h = [s \in SUBSET (1 .. n) |->
                      IF s = {} THEN b ELSE Consume(h[s \ {Max(s)}], rs[Max(s)])]
    <2>1. PICK h : IterOf(h, b, rs, n)
      BY IterExists
    <2>2. h = [s \in SUBSET (1 .. n) |->
                 IF s = {} THEN b ELSE Consume(h[s \ {Max(s)}], rs[Max(s)])]
      BY <2>1 DEF IterOf
    <2> QED BY <2>2
  <1>2. f = [s \in SUBSET (1 .. n) |->
               IF s = {} THEN b ELSE Consume(f[s \ {Max(s)}], rs[Max(s)])]
    BY <1>1
  <1>3. ReadAll(b, rs) = f[1 .. n]
    BY DEF ReadAll, FoldLeft, MapThenFoldSet
  <1> HIDE DEF f
  <1>4. f[1 .. 0] = b
    BY <1>2
  <1>5. ASSUME NEW k \in 1 .. n
        PROVE  f[1 .. k] = Consume(f[1 .. (k - 1)], rs[k])
    <2>1. Max(1 .. k) = k
      BY MaxOfFirst
    <2>2. (1 .. k) \ {k} = 1 .. (k - 1) /\ 1 .. k \in SUBSET (1 .. n) /\ 1 .. k # {}
      OBVIOUS
    <2> QED BY <1>2, <2>1, <2>2
  <1>6. Rounds(g, b, rs, n)
    BY <1>4, <1>5 DEF Rounds
  <1> QED BY <1>3, <1>6

(* A queue of one datagram holds the records of that datagram. *)
LEMMA FlattenOne ==
  ASSUME NEW p
  PROVE  FlattenSeq(<<p>>) = p
  <1> DEFINE f == CHOOSE g : g = [i \in 1 .. 1 |-> IF i = 1 THEN <<p>>[i] ELSE g[i - 1] \o <<p>>[i]]
  <1>1. \E g : g = [i \in 1 .. 1 |-> IF i = 1 THEN <<p>>[i] ELSE g[i - 1] \o <<p>>[i]]
    <2> DEFINE h == [i \in 1 .. 1 |-> p]
    <2>1. h = [i \in 1 .. 1 |-> IF i = 1 THEN <<p>>[i] ELSE h[i - 1] \o <<p>>[i]]
      OBVIOUS
    <2> QED BY <2>1
  <1>2. f = [i \in 1 .. 1 |-> IF i = 1 THEN <<p>>[i] ELSE f[i - 1] \o <<p>>[i]]
    BY <1>1
  <1>3. FlattenSeq(<<p>>) = f[1]
    BY DEF FlattenSeq
  <1> HIDE DEF f
  <1> QED BY <1>2, <1>3

-----------------------------------------------------------------------------
SslStates == {"SSL_NONE", "SSL_CONNECTING", "SSL_CONNECTED", "SSL_CLOSED", "SSL_ERROR"}

ServerDatagrams == {<<"flight">>, <<"final">>, <<"close">>}

WorkStates ==
  [k : {"k_new", "k_connecting", "k_connected", "k_closed", "k_failed"},
   ssl : SslStates, hs : {"hello", "finish"}, que : Seq(Datagrams),
   stream : {"open", "closed"}, out : SUBSET ServerDatagrams, reading : BOOLEAN]

Alive == {"SSL_CONNECTING", "SSL_CONNECTED"}

(* The working state while records are read. *)
AtWork(w) ==
  /\ w \in WorkStates
  /\ w.que = << >>
  /\ w.ssl # "SSL_NONE" /\ w.k # "k_new"
  /\ w.reading => w.ssl \in Alive
  /\ <<"final">> \in w.out => w.ssl # "SSL_CONNECTING"

LEMMA DatagramsApart ==
  /\ <<"final">> # <<"flight">> /\ <<"final">> # <<"close">> /\ <<"flight">> # <<"close">>
  /\ {<<"flight">>, <<"final">>, <<"close">>} = ServerDatagrams
  BY DEF ServerDatagrams

(* What one record does. *)
LEMMA Consumed ==
  ASSUME NEW w, AtWork(w), NEW r
  PROVE  /\ AtWork(Consume(w, r))
         /\ ~ w.reading => Consume(w, r) = w
         /\ w.ssl # "SSL_CONNECTING" => Consume(w, r).ssl # "SSL_CONNECTING"
         /\ r # "finish" /\ w.ssl \in {"SSL_CONNECTING", "SSL_ERROR"} =>
              Consume(w, r).ssl \in {"SSL_CONNECTING", "SSL_ERROR"}
         /\ w.ssl = "SSL_CONNECTING" /\ w.reading /\ r = "badhello" =>
              Consume(w, r).ssl = "SSL_ERROR" /\ ~ Consume(w, r).reading
  <1>1. CASE ~ w.reading
    BY <1>1 DEF Consume, AtWork
  <1>2. CASE w.reading /\ w.ssl = "SSL_CONNECTING"
    <2>1. Consume(w, r) = Accept(w, r)
      BY <1>2 DEF Consume
    <2>2. CASE r \in {"badhello", "badfinish", "close", "fatal"}
      <3>1. Consume(w, r) = Fail(w)
        BY <2>1, <2>2 DEF Accept
      <3> QED BY <1>2, <2>2, <3>1 DEF Fail, AtWork, WorkStates, SslStates, Alive
    <2>3. CASE r = "hello" /\ w.hs = "hello"
      <3>1. Consume(w, r) = [w EXCEPT !.hs = "finish", !.out = @ \union {<<"flight">>}]
        BY <2>1, <2>3 DEF Accept
      <3>2. w.out \union {<<"flight">>} \in SUBSET ServerDatagrams
        BY DatagramsApart DEF AtWork, WorkStates
      <3>3. Consume(w, r) \in WorkStates
        BY <3>1, <3>2 DEF AtWork, WorkStates
      <3>4. /\ Consume(w, r).ssl = w.ssl /\ Consume(w, r).k = w.k /\ Consume(w, r).que = w.que
            /\ Consume(w, r).reading = w.reading
            /\ Consume(w, r).out = w.out \union {<<"flight">>}
        BY <3>1 DEF AtWork, WorkStates
      <3> QED BY <1>2, <2>3, <3>3, <3>4, DatagramsApart DEF AtWork
    <2>4. CASE r = "finish" /\ w.hs = "finish"
      <3>1. Consume(w, r) = [w EXCEPT !.ssl = "SSL_CONNECTED", !.k = "k_connected",
                                      !.out = @ \union {<<"final">>}]
        BY <2>1, <2>4 DEF Accept
      <3>2. w.out \union {<<"final">>} \in SUBSET ServerDatagrams
        BY DatagramsApart DEF AtWork, WorkStates
      <3>3. Consume(w, r) \in WorkStates
        BY <3>1, <3>2 DEF AtWork, WorkStates, SslStates
      <3>4. /\ Consume(w, r).ssl = "SSL_CONNECTED" /\ Consume(w, r).k = "k_connected"
            /\ Consume(w, r).que = w.que
        BY <3>1 DEF AtWork, WorkStates
      <3> QED BY <1>2, <2>4, <3>3, <3>4 DEF AtWork, Alive
    <2>5. CASE ~ (r \in {"badhello", "badfinish", "close", "fatal"}) /\ ~ (r = "hello" /\ w.hs = "hello")
               /\ ~ (r = "finish" /\ w.hs = "finish")
      <3>1. Consume(w, r) = w
        BY <2>1, <2>5 DEF Accept
      <3> QED BY <1>2, <2>5, <3>1
    <2> QED BY <2>2, <2>3, <2>4, <2>5
  <1>3. CASE w.reading /\ w.ssl = "SSL_CONNECTED"
    <2>1. Consume(w, r) = ReadRecord(w, r)
      BY <1>3 DEF Consume
    <2>2. CASE r = "finish"
      <3>1. Consume(w, r) = [w EXCEPT !.out = @ \union {<<"final">>}]
        BY <2>1, <2>2 DEF ReadRecord
      <3> QED BY <1>3, <2>2, <3>1, DatagramsApart DEF AtWork, WorkStates, SslStates, Alive
    <2>3. CASE r = "long"
      <3>1. Consume(w, r) = [w EXCEPT !.k = "k_failed", !.reading = FALSE]
        BY <2>1, <2>3 DEF ReadRecord
      <3> QED BY <1>3, <2>3, <3>1 DEF AtWork, WorkStates, SslStates, Alive
    <2>4. CASE r = "fatal"
      <3>1. Consume(w, r) = Fail(w)
        BY <2>1, <2>4 DEF ReadRecord
      <3> QED BY <1>3, <2>4, <3>1 DEF Fail, AtWork, WorkStates, SslStates, Alive
    <2>5. CASE r = "close"
      <3>1. Consume(w, r) = [w EXCEPT !.ssl = "SSL_CLOSED", !.k = "k_closed", !.stream = "closed",
                                      !.que = <<>>, !.out = @ \union {<<"close">>}, !.reading = FALSE]
        BY <2>1, <2>5 DEF ReadRecord
      <3>2. << >> \in Seq(Datagrams) /\ w.out \union {<<"close">>} \in SUBSET ServerDatagrams
        BY DatagramsApart DEF AtWork, WorkStates
      <3>3. Consume(w, r) \in WorkStates
        BY <3>1, <3>2 DEF AtWork, WorkStates, SslStates
      <3>4. /\ Consume(w, r).ssl = "SSL_CLOSED" /\ Consume(w, r).k = "k_closed"
            /\ Consume(w, r).que = << >> /\ Consume(w, r).reading = FALSE
        BY <3>1 DEF AtWork, WorkStates
      <3> QED BY <1>3, <2>5, <3>3, <3>4 DEF AtWork
    <2>6. CASE r \notin {"finish", "long", "fatal", "close"}
      <3>1. Consume(w, r) = w
        BY <2>1, <2>6 DEF ReadRecord
      <3> QED BY <1>3, <2>6, <3>1
    <2> QED BY <2>2, <2>3, <2>4, <2>5, <2>6
  <1> QED BY <1>1, <1>2, <1>3 DEF AtWork, Alive

(* What all records of a datagram do. *)
Progress(before, p, w) ==
  /\ before # "SSL_CONNECTING" => w.ssl # "SSL_CONNECTING"
  /\ before = "SSL_CONNECTING" /\ ("finish" \notin ToSet(p) \/ Head(p) = "badhello") =>
       w.ssl \in {"SSL_CONNECTING", "SSL_ERROR"}

LEMMA EventProgress ==
  ASSUME NEW s \in WorkStates, NEW p \in Seq(Records), s.que = <<p>>,
         s.ssl \in Alive, s.reading, s.k # "k_new"
  PROVE  AtWork(OnEvent(s)) /\ Progress(s.ssl, p, OnEvent(s))
  <1> DEFINE n == Len(p)
             flights == IF Retransmits(s) THEN {<<"flight">>} ELSE {}
             b == [s EXCEPT !.que = << >>, !.out = flights]
  <1>1. /\ n \in Nat /\ DOMAIN p = 1 .. n
        /\ Head(p) = p[1]
        /\ \A i \in 1 .. n : p[i] \in ToSet(p)
    BY DEF ToSet, Range
  <1>2. OnEvent(s) = ReadAll(b, p)
    BY FlattenOne DEF OnEvent, Alive, ReadAll
  <1>3. /\ b \in WorkStates /\ b.que = << >> /\ b.ssl = s.ssl /\ b.k = s.k /\ b.reading = s.reading
        /\ <<"final">> \notin b.out
    <2>1. << >> \in Seq(Datagrams) /\ flights \in SUBSET ServerDatagrams /\ <<"final">> \notin flights
      BY DatagramsApart
    <2> HIDE DEF flights
    <2> QED BY <2>1 DEF WorkStates
  <1> HIDE DEF b, n
  <1>5. PICK g : Rounds(g, b, p, n) /\ ReadAll(b, p) = g[n]
    BY <1>1, FoldRounds
  <1>6. AtWork(b)
    BY <1>3 DEF AtWork, Alive
  <1> DEFINE Bad(k, w) == k > 0 /\ p[1] = "badhello" =>
                            w.ssl = "SSL_ERROR" /\ ~ w.reading
             Good(k, w) == /\ AtWork(w)
                           /\ s.ssl # "SSL_CONNECTING" => w.ssl # "SSL_CONNECTING"
                           /\ "finish" \notin ToSet(p) /\ s.ssl = "SSL_CONNECTING" =>
                                w.ssl \in {"SSL_CONNECTING", "SSL_ERROR"}
                           /\ s.ssl = "SSL_CONNECTING" => Bad(k, w)
                           /\ k = 0 => w = b
             S == { k \in 0 .. n : Good(k, g[k]) }
  <1>7. 0 \in S
    BY <1>1, <1>5, <1>3, <1>6 DEF Rounds, Alive
  <1>8. ASSUME NEW k \in 1 .. n, k - 1 \in S
        PROVE  k \in S
    <2>1. Good(k - 1, g[k - 1]) /\ g[k] = Consume(g[k - 1], p[k]) /\ p[k] \in ToSet(p) /\ k \in 0 .. n
      BY <1>1, <1>5, <1>8 DEF Rounds
    <2> DEFINE w == g[k - 1]
               v == Consume(w, p[k])
    <2>2. /\ AtWork(v)
          /\ ~ w.reading => v = w
          /\ w.ssl # "SSL_CONNECTING" => v.ssl # "SSL_CONNECTING"
          /\ p[k] # "finish" /\ w.ssl \in {"SSL_CONNECTING", "SSL_ERROR"} =>
               v.ssl \in {"SSL_CONNECTING", "SSL_ERROR"}
          /\ w.ssl = "SSL_CONNECTING" /\ w.reading /\ p[k] = "badhello" =>
               v.ssl = "SSL_ERROR" /\ ~ v.reading
      BY <2>1, Consumed
    <2>3. s.ssl = "SSL_CONNECTING" => Bad(k, v)
      <3>1. CASE k = 1
        <4>1. w = b
          BY <2>1, <3>1
        <4> QED BY <1>3, <2>2, <3>1, <4>1
      <3>2. CASE k # 1
        <4>1. k - 1 > 0
          BY <3>2
        <4> QED BY <2>1, <2>2, <4>1
      <3> QED BY <3>1, <3>2
    <2> HIDE DEF v, w
    <2>4. Good(k, v)
      BY <2>1, <2>2, <2>3 DEF w
    <2> QED BY <2>1, <2>4 DEF v, w
  <1> HIDE DEF S
  <1>9. n \in S
    BY <1>1, <1>7, <1>8, UpTo
  <1>10. Good(n, g[n])
    BY <1>9 DEF S
  <1>11. s.ssl = "SSL_CONNECTING" /\ p[1] = "badhello" => g[n].ssl \in {"SSL_CONNECTING", "SSL_ERROR"}
    BY <1>1, <1>3, <1>10
  <1> QED BY <1>1, <1>2, <1>5, <1>10, <1>11 DEF Progress

-----------------------------------------------------------------------------
(* The working state before a datagram is handed over, and what comes of it. *)
Handed(s) ==
  /\ s \in WorkStates
  /\ s.reading /\ s.out = {} /\ s.ssl # "SSL_NONE"
  /\ s.ssl \in Alive => s.que = << >>
  /\ Len(s.que) <= Capacity

Outcome(s, p, t) ==
  /\ t \in WorkStates
  /\ Len(t.que) <= Capacity
  /\ t.ssl # "SSL_NONE"
  /\ t.ssl \in Alive => t.que = << >>
  /\ <<"final">> \in t.out => t.ssl # "SSL_CONNECTING"
  /\ s.ssl \notin Alive => t.ssl = s.ssl
  /\ Progress(s.ssl, p, t) \/ t.ssl = s.ssl

LEMMA DatagramRecords == Datagrams \subseteq Seq(Records)
  <1>1. \A x \in Records : <<x>> \in Seq(Records)
    OBVIOUS
  <1>2. "hello" \in Records /\ "finish" \in Records
    BY DEF Records
  <1> QED BY <1>1, <1>2, DtlsConstants DEF Datagrams

LEMMA PacketOutcome ==
  ASSUME NEW s, Handed(s), s.k # "k_new", NEW p \in Datagrams
  PROVE  Outcome(s, p, OnPacketReceive(s, p))
  <1>1. p \in Seq(Records) /\ s \in WorkStates /\ s.que \in Seq(Datagrams) /\ Capacity \in Nat \ {0}
    BY DatagramRecords, DtlsConstants DEF Handed, WorkStates
  <1>2. CASE "cut" \in ToSet(p) \/ is_stop
    <2>1. OnPacketReceive(s, p) = s
      BY <1>2 DEF OnPacketReceive
    <2> QED BY <2>1 DEF Handed, Outcome
  <1>3. CASE ~ ("cut" \in ToSet(p) \/ is_stop) /\ s.ssl \in Alive
    <2> DEFINE q == [s EXCEPT !.que = Append(@, p)]
    <2>1. s.que = << >> /\ Append(s.que, p) = <<p>> /\ <<p>> \in Seq(Datagrams)
      <3>1. s.que = << >>
        BY <1>3 DEF Handed
      <3>2. Append(<< >>, p) = <<p>> /\ <<p>> \in Seq(Datagrams)
        OBVIOUS
      <3> QED BY <3>1, <3>2
    <2>2. Taken(s, p)
      BY <1>1, <1>3, <2>1 DEF Taken
    <2>3. OnPacketReceive(s, p) = OnEvent(q)
      BY <1>3, <2>2 DEF OnPacketReceive
    <2>4. q \in WorkStates /\ q.que = <<p>> /\ q.ssl = s.ssl /\ q.reading = s.reading /\ q.k = s.k
      BY <1>1, <2>1 DEF WorkStates
    <2> HIDE DEF q
    <2>5. AtWork(OnEvent(q)) /\ Progress(s.ssl, p, OnEvent(q))
      BY <1>1, <1>3, <2>4, EventProgress DEF Handed
    <2>6. Len(OnEvent(q).que) = 0
      BY <2>5 DEF AtWork
    <2> QED BY <1>1, <1>3, <2>3, <2>5, <2>6 DEF Outcome, AtWork
  <1>4. CASE ~ ("cut" \in ToSet(p) \/ is_stop) /\ s.ssl \notin Alive
    <2>1. \A q : q.ssl = s.ssl => OnEvent(q) = q
      BY <1>4 DEF OnEvent, Alive
    <2>2. CASE ~ Taken(s, p)
      <3>1. OnPacketReceive(s, p) = s
        BY <1>4, <2>1, <2>2 DEF OnPacketReceive
      <3> QED BY <3>1 DEF Handed, Outcome
    <2>3. CASE Taken(s, p)
      <3> DEFINE q == [s EXCEPT !.que = Append(@, p)]
      <3>1. /\ Append(s.que, p) \in Seq(Datagrams) /\ Len(Append(s.que, p)) = Len(s.que) + 1
            /\ Len(s.que) \in Nat /\ Len(s.que) # Capacity
        BY <1>1, <2>3 DEF Taken
      <3>2. q \in WorkStates /\ q.ssl = s.ssl /\ q.out = s.out /\ q.que = Append(s.que, p)
        BY <1>1, <3>1 DEF WorkStates
      <3>3. OnPacketReceive(s, p) = q
        BY <1>4, <2>1, <2>3, <3>2 DEF OnPacketReceive
      <3> HIDE DEF q
      <3> QED BY <1>1, <1>4, <3>1, <3>2, <3>3 DEF Handed, Outcome
    <2> QED BY <2>2, <2>3
  <1> QED BY <1>2, <1>3, <1>4

LEMMA StartedOutcome ==
  ASSUME NEW s, Handed(s), NEW p \in Datagrams
  PROVE  Outcome(s, p, HandleStarted(s, p))
  <1>1. CASE s.k = "k_connecting" /\ IsClientHello(p)
    <2> DEFINE t == OnPacketReceive(s, p)
    <2>1. Outcome(s, p, t)
      BY <1>1, PacketOutcome
    <2>2. HandleStarted(s, p) = IF Taken(s, p) THEN [t EXCEPT !.k = "k_connected"] ELSE t
      BY <1>1 DEF HandleStarted
    <2> HIDE DEF t
    <2> DEFINE v == [t EXCEPT !.k = "k_connected"]
    <2>3. v \in WorkStates /\ v.ssl = t.ssl /\ v.que = t.que /\ v.out = t.out
      BY <2>1 DEF Outcome, WorkStates
    <2> HIDE DEF v
    <2>4. Outcome(s, p, v)
      BY <2>1, <2>3 DEF Outcome, Progress
    <2> QED BY <2>1, <2>2, <2>4 DEF v
  <1>2. CASE s.k = "k_connected"
    <2>1. HandleStarted(s, p) = OnPacketReceive(s, p)
      BY <1>2 DEF HandleStarted
    <2> QED BY <1>2, <2>1, PacketOutcome
  <1>3. CASE ~ (s.k = "k_connecting" /\ IsClientHello(p)) /\ s.k # "k_connected"
    <2>1. HandleStarted(s, p) = s
      BY <1>3 DEF HandleStarted
    <2> QED BY <2>1 DEF Handed, Outcome
  <1> QED BY <1>1, <1>2, <1>3

-----------------------------------------------------------------------------
(***************************************************************************)
(* The inductive invariant.  What the peer has received tells how far the  *)
(* server is, and so does what it has sent: a datagram that belongs to a   *)
(* later stage is never under way before the server has reached that       *)
(* stage, whatever is lost, repeated or reordered.                         *)
(***************************************************************************)
Drained == ssl \in {"SSL_NONE"} \union Alive => que = << >>

Started == k_state # "k_new" => ssl # "SSL_NONE"

Answered ==
  /\ client = "up" \/ <<"final">> \in s2c => ssl \notin {"SSL_NONE", "SSL_CONNECTING"}
  /\ client \in {"finish", "up"} \/ <<"flight">> \in s2c => ssl # "SSL_NONE"

SentInStage(p) == ssl = "SSL_NONE" => p = <<"hello">> \/ Head(p) = "badhello"

(* The order in which remove takes a member down: its stream is stopped
   between the socket's close and the end of the adapter. *)
Leaving ==
  /\ socket = "open" => member = "in"
  /\ member \in {"stopped", "erased"} => is_stop

DtlsInv ==
  TypeOK /\ Drained /\ Started /\ Answered /\ Leaving /\ \A p \in c2s : SentInStage(p)

LEMMA DtlsInit == Init => DtlsInv
  <1> SUFFICES ASSUME Init
               PROVE  DtlsInv
    OBVIOUS
  <1>1. << >> \in Seq(Datagrams) /\ Len(<< >>) = 0 /\ 0 <= Capacity
    BY DtlsConstants
  <1>2. TypeOK
    BY <1>1 DEF Init, TypeOK
  <1> QED BY <1>2 DEF Init, DtlsInv, Drained, Started, Answered, Leaving

(* What handle_dtls does, seen from outside. *)
Handled(p) ==
  \E s, t :
    /\ Handed(s) /\ Outcome(s, p, t)
    /\ s.ssl = ssl \/ (ssl = "SSL_NONE" /\ s.ssl \in {"SSL_CONNECTING", "SSL_ERROR"})
    /\ ssl # "SSL_NONE" => s.ssl = ssl
    /\ Become(t)

LEMMA StartHanded ==
  ASSUME DtlsInv, NEW ok \in BOOLEAN
  PROVE  LET s == IF k_state = "k_new" THEN StartSsl(Working, ok) ELSE Working
         IN  /\ Handed(s)
             /\ s.ssl = ssl \/ (ssl = "SSL_NONE" /\ s.ssl \in {"SSL_CONNECTING", "SSL_ERROR"})
             /\ ssl # "SSL_NONE" => s.ssl = ssl
  <1> DEFINE W == Working
  <1>1. /\ W \in WorkStates /\ W.ssl = ssl /\ W.reading = TRUE /\ W.out = {} /\ W.que = que
        /\ Len(que) <= Capacity
    BY DEF DtlsInv, TypeOK, Working, WorkStates, SslStates
  <1> HIDE DEF W
  <1>2. ssl # "SSL_NONE" => Handed(W)
    BY <1>1 DEF Handed, DtlsInv, Drained, Alive
  <1>3. CASE k_state # "k_new" \/ ssl # "SSL_NONE"
    <2>1. StartSsl(W, ok) = W \/ k_state # "k_new"
      BY <1>1, <1>3 DEF StartSsl
    <2>2. ssl # "SSL_NONE"
      BY <1>3 DEF DtlsInv, Started
    <2> QED BY <1>1, <1>2, <2>1, <2>2 DEF W
  <1>4. CASE k_state = "k_new" /\ ssl = "SSL_NONE"
    <2> DEFINE v == StartSsl(W, ok)
    <2>1. v = IF ok THEN [W EXCEPT !.k = "k_connecting", !.ssl = "SSL_CONNECTING"]
                    ELSE [W EXCEPT !.ssl = "SSL_ERROR"]
      BY <1>1, <1>4 DEF StartSsl
    <2>2. /\ v \in WorkStates /\ v.ssl \in {"SSL_CONNECTING", "SSL_ERROR"}
          /\ v.reading = W.reading /\ v.out = W.out /\ v.que = W.que
      <3>1. CASE ok
        <4>1. v = [W EXCEPT !.k = "k_connecting", !.ssl = "SSL_CONNECTING"]
          BY <2>1, <3>1
        <4> HIDE DEF v
        <4> QED BY <1>1, <4>1 DEF WorkStates, SslStates
      <3>2. CASE ~ok
        <4>1. v = [W EXCEPT !.ssl = "SSL_ERROR"]
          BY <2>1, <3>2
        <4> HIDE DEF v
        <4> QED BY <1>1, <4>1 DEF WorkStates, SslStates
      <3> QED BY <3>1, <3>2
    <2> HIDE DEF v
    <2>3. que = << >>
      BY <1>4 DEF DtlsInv, Drained
    <2>4. Handed(v)
      BY <1>1, <2>2, <2>3 DEF Handed
    <2> QED BY <1>4, <2>2, <2>4 DEF v, W
  <1> QED BY <1>3, <1>4

LEMMA DtlsHandled ==
  ASSUME DtlsInv, NEW p \in c2s, HandleDtls(p)
  PROVE  Handled(p)
  <1>1. PICK ok \in StartResults :
          LET s == IF k_state = "k_new" THEN StartSsl(Working, ok) ELSE Working
          IN  Become(HandleStarted(s, p))
    BY DEF HandleDtls
  <1> DEFINE s == IF k_state = "k_new" THEN StartSsl(Working, ok) ELSE Working
             t == HandleStarted(s, p)
  <1>2. /\ Handed(s)
        /\ s.ssl = ssl \/ (ssl = "SSL_NONE" /\ s.ssl \in {"SSL_CONNECTING", "SSL_ERROR"})
        /\ ssl # "SSL_NONE" => s.ssl = ssl
    BY DtlsConstants, StartHanded
  <1>3. Become(t)
    BY <1>1
  <1>4. p \in Datagrams
    BY DEF DtlsInv, TypeOK
  <1> HIDE DEF s
  <1>5. Outcome(s, p, t)
    BY <1>2, <1>4, StartedOutcome
  <1> HIDE DEF t
  <1> QED BY <1>2, <1>3, <1>5 DEF Handled

(* The stages of a connection are not left backwards. *)
LEMMA HandledStages ==
  ASSUME DtlsInv, NEW p, Handled(p)
  PROVE  /\ k_state' \in {"k_new", "k_connecting", "k_connected", "k_closed", "k_failed"}
         /\ ssl' \in SslStates \ {"SSL_NONE"} /\ hs' \in {"hello", "finish"}
         /\ que' \in Seq(Datagrams) /\ Len(que') <= Capacity
         /\ stream' \in {"open", "closed"} /\ expired' \in BOOLEAN
         /\ s2c' \subseteq ServerDatagrams
         /\ ssl' \in Alive => que' = << >>
         /\ ssl \notin {"SSL_NONE", "SSL_CONNECTING"} => ssl' # "SSL_CONNECTING"
         /\ <<"final">> \in s2c' /\ <<"final">> \notin s2c => ssl' # "SSL_CONNECTING"
  <1>1. PICK s, t :
          /\ Handed(s) /\ Outcome(s, p, t)
          /\ s.ssl = ssl \/ (ssl = "SSL_NONE" /\ s.ssl \in {"SSL_CONNECTING", "SSL_ERROR"})
          /\ ssl # "SSL_NONE" => s.ssl = ssl
          /\ Become(t)
    BY DEF Handled
  <1>2. /\ k_state' = t.k /\ ssl' = t.ssl /\ hs' = t.hs /\ que' = t.que /\ stream' = t.stream
        /\ expired' \in BOOLEAN /\ s2c' \subseteq s2c \union t.out
    BY <1>1 DEF Become, Written
  <1>3. /\ t \in WorkStates /\ Len(t.que) <= Capacity /\ t.ssl # "SSL_NONE"
        /\ t.ssl \in Alive => t.que = << >>
        /\ <<"final">> \in t.out => t.ssl # "SSL_CONNECTING"
        /\ s.ssl # "SSL_CONNECTING" => t.ssl # "SSL_CONNECTING"
    BY <1>1 DEF Outcome, Progress
  <1>4. s2c \subseteq ServerDatagrams
    BY DEF DtlsInv, TypeOK, ServerDatagrams
  <1> QED BY <1>1, <1>2, <1>3, <1>4 DEF WorkStates

LEMMA DtlsStep == DtlsInv /\ [Next]_vars => DtlsInv'
  <1> SUFFICES ASSUME DtlsInv, [Next]_vars
               PROVE  DtlsInv'
    OBVIOUS
  <1> USE DEF Alive
  <1>0. /\ TypeOK /\ c2s \subseteq Datagrams /\ s2c \subseteq ServerDatagrams
        /\ <<"hello">> \in Datagrams /\ <<"finish">> \in Datagrams
        /\ Faults \subseteq Datagrams /\ Traffic \subseteq Datagrams
        /\ <<"final">> # <<"close">> /\ <<"flight">> # <<"close">>
    BY DatagramsApart DEF DtlsInv, TypeOK, ServerDatagrams, Datagrams
  <1>1. CASE UNCHANGED vars
    BY <1>1 DEF vars, server, DtlsInv, TypeOK, Drained, Started, Answered, Leaving, SentInStage
  <1>2. ASSUME NEW p \in c2s, HandleDtls(p)
        PROVE  DtlsInv'
    <2>1. UNCHANGED <<is_stop, socket, member, client>> /\ c2s' \subseteq c2s
      BY <1>2 DEF HandleDtls
    <2>2. /\ k_state' \in {"k_new", "k_connecting", "k_connected", "k_closed", "k_failed"}
          /\ ssl' \in SslStates \ {"SSL_NONE"} /\ hs' \in {"hello", "finish"}
          /\ que' \in Seq(Datagrams) /\ Len(que') <= Capacity
          /\ stream' \in {"open", "closed"} /\ expired' \in BOOLEAN
          /\ s2c' \subseteq ServerDatagrams
          /\ ssl' \in Alive => que' = << >>
          /\ ssl \notin {"SSL_NONE", "SSL_CONNECTING"} => ssl' # "SSL_CONNECTING"
          /\ <<"final">> \in s2c' /\ <<"final">> \notin s2c => ssl' # "SSL_CONNECTING"
      BY <1>2, DtlsHandled, HandledStages
    <2>3. TypeOK'
      BY <1>0, <2>1, <2>2 DEF TypeOK, SslStates, ServerDatagrams, Datagrams
    <2>4. Drained' /\ Started' /\ Answered' /\ Leaving'
      BY <2>1, <2>2 DEF DtlsInv, Drained, Started, Answered, Leaving
    <2>5. \A q \in c2s' : SentInStage(q)'
      BY <2>1, <2>2 DEF DtlsInv, SentInStage
    <2> QED BY <2>3, <2>4, <2>5 DEF DtlsInv
  <1>3. CASE StopRecv \/ Destory \/ Erase \/ Deleter
    <2>1. /\ ssl' = ssl \/ ssl' \in {"SSL_CLOSED", "SSL_ERROR"}
          /\ s2c' = s2c \/ (Erase /\ s2c' = s2c \union Written(Goodbye))
          /\ UNCHANGED <<k_state, hs, que, stream, expired, client, c2s>>
      BY <1>3 DEF StopRecv, Destory, Erase, Deleter, Cleanup
    <2>2. s2c' = s2c
      BY <2>1 DEF Erase, Written, DtlsInv, Leaving
    <2>3. /\ Leaving' /\ is_stop' \in BOOLEAN
          /\ member' \in {"in", "closed", "stopped", "erased"}
          /\ socket' \in {"open", "closing", "deleted"}
      BY <1>0, <1>3 DEF StopRecv, Destory, Erase, Deleter, DtlsInv, Leaving, TypeOK
    <2>4. TypeOK'
      BY <1>0, <2>1, <2>2, <2>3 DEF TypeOK, Datagrams
    <2> QED BY <2>1, <2>2, <2>3, <2>4 DEF DtlsInv, Drained, Started, Answered, SentInStage
  <1>4. CASE Expire
    <2>1. expired' = TRUE
          /\ UNCHANGED <<k_state, ssl, hs, que, stream, is_stop, socket, member, client, c2s, s2c>>
      BY <1>4 DEF Expire
    <2>2. TypeOK'
      BY <1>0, <2>1 DEF TypeOK, Datagrams
    <2> QED BY <2>1, <2>2 DEF DtlsInv, Drained, Started, Answered, Leaving, SentInStage
  <1>5. ASSUME NEW p \in Datagrams, NEW next \in {"start", "hello", "finish", "up", "gone"},
               ClientSends(p, next), SentInStage(p),
               next \in {"finish", "up"} => client = next
        PROVE  DtlsInv'
    <2>1. c2s' = c2s \union {p} /\ client' = next /\ UNCHANGED <<server, s2c>>
      BY <1>5 DEF ClientSends
    <2>2. TypeOK'
      BY <1>0, <2>1 DEF TypeOK, server, Datagrams
    <2>3. Drained' /\ Started' /\ Answered' /\ Leaving'
      BY <1>5, <2>1 DEF DtlsInv, Drained, Started, Answered, Leaving, server
    <2>4. \A q \in c2s' : SentInStage(q)'
      BY <1>5, <2>1 DEF DtlsInv, SentInStage, server
    <2> QED BY <2>2, <2>3, <2>4 DEF DtlsInv
  <1>6. CASE ClientHello
    BY <1>0, <1>5, <1>6 DEF ClientHello, SentInStage
  <1>7. CASE ClientFinish
    BY <1>0, <1>5, <1>7 DEF ClientFinish, SentInStage, DtlsInv, Answered
  <1>8. CASE ClientTraffic
    BY <1>0, <1>5, <1>8 DEF ClientTraffic, SentInStage, DtlsInv, Answered
  <1>9. CASE ClientFault
    BY <1>0, <1>5, <1>9 DEF ClientFault, SentInStage, DtlsInv, Answered
  <1>10. CASE ClientReceives
    <2>1. /\ s2c' \subseteq s2c /\ UNCHANGED <<server, c2s>>
          /\ client' \in {"finish", "up"}
          /\ client' = "finish" => <<"flight">> \in s2c
          /\ client' = "up" => <<"final">> \in s2c
      BY <1>10 DEF ClientReceives
    <2>2. TypeOK'
      BY <1>0, <2>1 DEF TypeOK, server, Datagrams, ServerDatagrams
    <2> QED BY <2>1, <2>2 DEF DtlsInv, Drained, Started, Answered, Leaving, SentInStage, server
  <1>11. CASE Lose
    <2>1. s2c' \subseteq s2c /\ c2s' \subseteq c2s /\ UNCHANGED <<server, client>>
      BY <1>11 DEF Lose
    <2>2. TypeOK'
      BY <1>0, <2>1 DEF TypeOK, server, Datagrams, ServerDatagrams
    <2> QED BY <2>1, <2>2 DEF DtlsInv, Drained, Started, Answered, Leaving, SentInStage, server
  <1> QED BY <1>1, <1>2, <1>3, <1>4, <1>6, <1>7, <1>8, <1>9, <1>10, <1>11 DEF Next

-----------------------------------------------------------------------------
LEMMA DtlsAlways == Spec => []DtlsInv
  BY DtlsInit, DtlsStep, PTL DEF Spec

(***************************************************************************)
(* handle_dtls returns with an empty queue as long as the SSL object       *)
(* lives, whatever the datagrams hold and however often they are lost,     *)
(* repeated and reordered; and the queue stays within its capacity.        *)
(***************************************************************************)
THEOREM QueueIsDrained == Spec => [](QueueDrained /\ Len(que) <= Capacity)
  <1>1. DtlsInv => QueueDrained /\ Len(que) <= Capacity
    BY DEF DtlsInv, Drained, TypeOK, QueueDrained, Alive
  <1> QED BY <1>1, DtlsAlways, PTL

(***************************************************************************)
(* A peer that has completed its handshake meets a server that has passed  *)
(* its own: the last flight is written only when SSL_accept is done.       *)
(***************************************************************************)
THEOREM PeerUpHasKeys == Spec => []PeerUpMeansKeys
  <1>1. DtlsInv => PeerUpMeansKeys
    BY DEF DtlsInv, Answered, PeerUpMeansKeys
  <1> QED BY <1>1, DtlsAlways, PTL

LEMMA HandledSession ==
  ASSUME DtlsInv, NEW p \in c2s, Handled(p)
  PROVE  Session' \in DtlsAfter(Session)
  <1>1. PICK s, t :
          /\ Handed(s) /\ Outcome(s, p, t)
          /\ s.ssl = ssl \/ (ssl = "SSL_NONE" /\ s.ssl \in {"SSL_CONNECTING", "SSL_ERROR"})
          /\ ssl # "SSL_NONE" => s.ssl = ssl
          /\ Become(t)
    BY DEF Handled
  <1>2. /\ ssl' = t.ssl /\ t.ssl \in SslStates \ {"SSL_NONE"} /\ s.ssl # "SSL_NONE"
        /\ s.ssl \notin Alive => t.ssl = s.ssl
        /\ t.ssl = s.ssl \/ Progress(s.ssl, p, t)
    BY <1>1 DEF Become, Outcome, Handed, WorkStates
  <1>3. ToSet(<<"hello">>) = {"hello"}
    BY DEF ToSet
  <1>4. ssl \in SslStates
    BY DEF DtlsInv, TypeOK, SslStates
  <1>5. CASE ssl = "SSL_NONE"
    <2>1. p = <<"hello">> \/ Head(p) = "badhello"
      BY <1>5 DEF DtlsInv, SentInStage
    <2>2. "finish" \notin ToSet(p) \/ Head(p) = "badhello"
      BY <1>3, <2>1
    <2>3. t.ssl \in {"SSL_CONNECTING", "SSL_ERROR"}
      BY <1>1, <1>2, <1>5, <2>2 DEF Progress, Alive
    <2> QED BY <1>2, <1>5, <2>3 DEF Session, DtlsAfter
  <1>6. CASE ssl = "SSL_CONNECTING"
    BY <1>2, <1>6 DEF Session, DtlsAfter, SslStates
  <1>7. CASE ssl = "SSL_CONNECTED"
    <2>1. t.ssl # "SSL_CONNECTING"
      BY <1>1, <1>2, <1>7 DEF Progress
    <2> QED BY <1>2, <1>7, <2>1 DEF Session, DtlsAfter, SslStates
  <1>8. CASE ssl \in {"SSL_CLOSED", "SSL_ERROR"}
    <2>1. ssl' = ssl
      BY <1>1, <1>2, <1>8 DEF Alive
    <2> QED BY <1>8, <2>1 DEF Session, DtlsAfter
  <1> QED BY <1>4, <1>5, <1>6, <1>7, <1>8 DEF SslStates

(***************************************************************************)
(* The connection implements the session that RoomMember relies on: every  *)
(* call of handle_dtls is a step of DtlsAfter or changes nothing of it.    *)
(***************************************************************************)
THEOREM SessionsAdvance == Spec => SessionSteps
  <1>1. DtlsInv /\ [Next]_vars => [socket' = "open" => Session' \in DtlsAfter(Session)]_vars
    <2> SUFFICES ASSUME DtlsInv, [Next]_vars, socket' = "open"
                 PROVE  Session' \in DtlsAfter(Session)
      OBVIOUS
    <2>1. ssl' = ssl => Session' \in DtlsAfter(Session)
      <3>1. ssl \in SslStates
        BY DEF DtlsInv, TypeOK, SslStates
      <3> QED BY <3>1 DEF Session, DtlsAfter, SslStates
    <2>2. ASSUME NEW p \in c2s, HandleDtls(p)
          PROVE  Session' \in DtlsAfter(Session)
      BY <2>2, DtlsHandled, HandledSession
    <2>3. ~ (StopRecv \/ Destory \/ Erase \/ Deleter)
      BY DEF StopRecv, Destory, Erase, Deleter, DtlsInv, Leaving
    <2> QED BY <2>1, <2>2, <2>3 DEF Next, Expire, ClientHello, ClientFinish, ClientTraffic, ClientFault,
               ClientReceives, Lose, ClientSends, server, vars
  <1> QED BY <1>1, DtlsAlways, PTL DEF Spec, SessionSteps

(***************************************************************************)
(* From stop_recv on nothing is written to the socket.  No datagram comes  *)
(* in any more, so only the close_notify of the adapter's destructor could *)
(* be, and the destructor runs when destory has stopped the stream         *)
(* (Leaving): for every connection, whatever state it is in when the       *)
(* member goes.                                                            *)
(***************************************************************************)
THEOREM NothingWrittenAfterClose == Spec => NoWriteAfterClose
  <1>1. DtlsInv /\ [Next]_vars => [socket # "open" => s2c' \subseteq s2c]_vars
    <2> SUFFICES ASSUME DtlsInv, [Next]_vars, socket # "open"
                 PROVE  s2c' \subseteq s2c
      OBVIOUS
    <2>1. \A p \in c2s : ~ HandleDtls(p)
      BY DEF HandleDtls
    <2>2. StopRecv \/ Destory \/ Deleter => s2c' = s2c
      BY DEF StopRecv, Destory, Deleter
    <2>3. Erase => s2c' = s2c
      BY DEF Erase, Cleanup, Written, DtlsInv, Leaving
    <2> QED BY <2>1, <2>2, <2>3 DEF Next, Expire, ClientHello, ClientFinish, ClientTraffic, ClientFault,
               ClientReceives, Lose, ClientSends, vars
  <1> QED BY <1>1, DtlsAlways, PTL DEF Spec, NoWriteAfterClose

-----------------------------------------------------------------------------
(***************************************************************************)
(* The kinds of packets and the order of their sequence numbers.  Two      *)
(* indices less than half the modulus apart are in the same round of the   *)
(* counter or in neighbouring ones (NearIndices); each case says how their *)
(* remainders compare and what Unwrap adds.                                *)
(***************************************************************************)
Half == Modulus \div 2

LEMMA HalfIs == Half \in Nat /\ Half > 0 /\ Modulus = 2 * Half /\ (Modulus - 1) \div 2 = Half - 1
  <1>1. Modulus \in Nat /\ Modulus > 1 /\ Modulus % 2 = 0
    BY RtpConstants
  <1>2. Half \in Nat /\ Half > 0 /\ Modulus = 2 * Half
    BY <1>1 DEF Half
  <1> QED BY <1>1, <1>2

LEMMA DivMod ==
  ASSUME NEW m \in Nat, m > 0, NEW x \in Int
  PROVE  /\ x % m \in 0 .. m - 1 /\ x \div m \in Int
         /\ x = m * (x \div m) + (x % m)
  OBVIOUS

LEMMA ModIs ==
  ASSUME NEW m \in Nat, m > 0, NEW k \in Int, NEW b \in 0 .. m - 1
  PROVE  (m * k + b) % m = b
  OBVIOUS

(* Rounds of the counter: how many lie between two indices that are near. *)
LEMMA NearIndices ==
  ASSUME NEW i \in Nat, NEW n \in Nat, n - i \in 1 - Half .. Half - 1
  PROVE  /\ i % Modulus \in 0 .. Modulus - 1 /\ n % Modulus \in 0 .. Modulus - 1
         /\ \E e \in {-1, 0, 1} : n - i = (n % Modulus) - (i % Modulus) + e * Modulus
  <1> DEFINE m == Modulus
             a == i % m
             b == n % m
             q == i \div m
             r == n \div m
             e == r - q
  <1>1. m \in Nat /\ m > 0 /\ m = 2 * Half /\ Half \in Nat
    BY HalfIs
  <1> HIDE DEF m
  <1>2. a \in 0 .. m - 1 /\ q \in Int /\ i = m * q + a
    BY <1>1, DivMod
  <1>3. b \in 0 .. m - 1 /\ r \in Int /\ n = m * r + b
    BY <1>1, DivMod
  <1> HIDE DEF a, b, q, r
  <1>4. e \in Int /\ n - i = b - a + e * m
    BY <1>1, <1>2, <1>3
  <1> HIDE DEF e
  <1>5. e * m < 2 * m /\ e * m > (-2) * m
    <2> DEFINE p == e * m
    <2>1. p \in Int /\ n - i = b - a + p
      BY <1>1, <1>4
    <2> HIDE DEF p
    <2>2. p < 2 * m /\ p > (-2) * m
      BY <1>1, <1>2, <1>3, <2>1
    <2> QED BY <2>2 DEF p
  <1>6. e < 2 /\ e > -2
    BY <1>1, <1>4, <1>5
  <1>7. e \in {-1, 0, 1}
    BY <1>4, <1>6
  <1> QED BY <1>2, <1>3, <1>4, <1>7 DEF a, b, m

(* The comparisons of the true numbers of two near indices. *)
LEMMA Comparisons ==
  ASSUME NEW a \in 0 .. Modulus - 1, NEW b \in 0 .. Modulus - 1, NEW d \in 1 - Half .. Half - 1,
         NEW e \in {-1, 0, 1}, d = b - a + e * Modulus
  PROVE  /\ IsNewer(b, a) <=> d > 0
         /\ SeqLowerThan(a, b) <=> d > 0
         /\ SeqHigherThan(a, b) <=> d < 0
         /\ e = 1 => b < a
         /\ e = -1 => b > a
         /\ (d > 0 /\ b < a) => e = 1
         /\ (d > 0 /\ b >= a) => e = 0
         /\ (d <= 0 /\ b > a) => e = -1
         /\ (d <= 0 /\ b <= a) => e = 0
  <1> DEFINE m == Modulus
             h == Half
  <1>1. m \in Nat /\ h \in Nat /\ h > 0 /\ m = 2 * h /\ (m - 1) \div 2 = h - 1 /\ m \div 2 = h
    BY HalfIs DEF Half
  <1> HIDE DEF m, h
  <1>2. a \in 0 .. m - 1 /\ b \in 0 .. m - 1 /\ d \in 1 - h .. h - 1
    BY DEF m, h
  <1>3. \/ e = 0 /\ d = b - a
        \/ e = 1 /\ d = b - a + m
        \/ e = -1 /\ d = b - a - m
    BY <1>1 DEF m
  <1>4. b >= a => (b - a) % m = b - a
    <2> SUFFICES ASSUME b >= a
                 PROVE  (b - a) % m = b - a
      OBVIOUS
    <2>1. b - a \in 0 .. m - 1 /\ m * 0 + (b - a) = b - a
      BY <1>1, <1>2
    <2>2. (m * 0 + (b - a)) % m = b - a
      BY <1>1, <2>1, ModIs
    <2> QED BY <2>1, <2>2
  <1>5. b < a => (b - a) % m = b - a + m
    <2> SUFFICES ASSUME b < a
                 PROVE  (b - a) % m = b - a + m
      OBVIOUS
    <2>1. b - a + m \in 0 .. m - 1 /\ m * (-1) + (b - a + m) = b - a
      BY <1>1, <1>2
    <2>2. (m * (-1) + (b - a + m)) % m = b - a + m
      BY <1>1, <2>1, ModIs
    <2> QED BY <2>1, <2>2
  <1>6. IsNewer(b, a) <=> IF b - a = h THEN b > a ELSE b # a /\ (b - a) % m < h
    BY <1>1 DEF IsNewer, m
  <1>7. IsNewer(b, a) <=> d > 0
    <2>1. CASE b >= a
      <3>1. IsNewer(b, a) <=> IF b - a = h THEN b > a ELSE b # a /\ b - a < h
        BY <1>4, <1>6, <2>1
      <3> QED BY <1>1, <1>2, <1>3, <2>1, <3>1
    <2>2. CASE b < a
      <3>1. IsNewer(b, a) <=> IF b - a = h THEN b > a ELSE b # a /\ b - a + m < h
        BY <1>5, <1>6, <2>2
      <3> QED BY <1>1, <1>2, <1>3, <2>2, <3>1
    <2> QED BY <1>2, <2>1, <2>2
  <1>8. SeqLowerThan(a, b) <=> \/ a > b /\ a - b > h - 1
                               \/ a < b /\ b - a <= h - 1
    BY <1>1 DEF SeqLowerThan, m
  <1>9. SeqLowerThan(a, b) <=> d > 0
    BY <1>1, <1>2, <1>3, <1>8
  <1>10. SeqHigherThan(a, b) <=> d < 0
    BY <1>1, <1>2, <1>3, <1>9 DEF SeqHigherThan
  <1> QED BY <1>1, <1>2, <1>3, <1>7, <1>9, <1>10

(* A number that has the remainder b keeps it a round later or earlier. *)
LEMMA NextRound ==
  ASSUME NEW l \in Nat, NEW b \in 0 .. Modulus - 1, NEW e \in {-1, 0, 1}
  PROVE  (l + b - (l % Modulus) + e * Modulus) % Modulus = b
  <1> DEFINE m == Modulus
             a == l % m
             k == l \div m
  <1>1. m \in Nat /\ m > 0 /\ b \in 0 .. m - 1
    BY HalfIs
  <1> HIDE DEF m
  <1>2. a \in 0 .. m - 1 /\ k \in Int /\ l = m * k + a
    BY <1>1, DivMod
  <1> HIDE DEF a, k
  <1>3. l + b - a + e * m = m * (k + e) + b
    BY <1>1, <1>2
  <1>4. (m * (k + e) + b) % m = b
    BY <1>1, <1>2, ModIs
  <1>5. (l + b - a + e * m) % m = b
    BY <1>3, <1>4
  <1> QED BY <1>5 DEF a, m

LEMMA Unwraps ==
  ASSUME NEW l \in Nat, NEW a \in 0 .. Modulus - 1, a = l % Modulus, NEW b \in 0 .. Modulus - 1,
         NEW d \in 1 - Half .. Half - 1, NEW e \in {-1, 0, 1}, d = b - a + e * Modulus
  PROVE  /\ Unwrap(b, l) \in Nat /\ Unwrap(b, l) % Modulus = b
         /\ l + d >= 0 => Unwrap(b, l) = l + d
  <1> DEFINE m == Modulus
             u == Unwrap(b, l)
             new == IsNewer(b, a)
  <1>1. m \in Nat /\ m > 0 /\ a \in 0 .. m - 1 /\ b \in 0 .. m - 1 /\ a = l % m
    BY HalfIs
  <1>2. l >= a
    <2>1. l \div m \in Int /\ l = m * (l \div m) + (l % m)
      BY <1>1, DivMod
    <2> DEFINE k == l \div m
    <2>2. l \in Nat /\ k \in Int /\ l = m * k + a
      BY <1>1, <2>1
    <2> HIDE DEF k, m
    <2>3. k >= 0
      BY <1>1, <2>2
    <2>4. m * k >= 0
      BY <1>1, <2>2, <2>3
    <2> QED BY <1>1, <2>2, <2>4
  <1>3. u = l + (IF new THEN (IF b - a < 0 THEN b - a + m ELSE b - a)
                 ELSE (IF b - a > 0 /\ l + (b - a) - m >= 0 THEN b - a - m ELSE b - a))
    BY DEF Unwrap
  <1>4. (new <=> d > 0)
        /\ ((d > 0 /\ b < a) => e = 1) /\ ((d > 0 /\ b >= a) => e = 0)
        /\ ((d <= 0 /\ b > a) => e = -1) /\ ((d <= 0 /\ b <= a) => e = 0)
    BY Comparisons
  <1>5. d \in Int /\ (e = 0 => d = b - a) /\ (e = 1 => d = b - a + m) /\ (e = -1 => d = b - a - m)
    BY <1>1, HalfIs
  <1>6. \A c \in {-1, 0, 1} : (l + b - a + c * m) % m = b
    <2> SUFFICES ASSUME NEW c \in {-1, 0, 1}
                 PROVE  (l + b - a + c * m) % m = b
      OBVIOUS
    <2>1. (l + b - (l % Modulus) + c * Modulus) % Modulus = b
      BY NextRound
    <2> QED BY <2>1
  <1>7. \A c \in {-1, 0, 1} : u = l + b - a + c * m => u % m = b
    BY <1>6
  <1> HIDE DEF u, m, new
  <1>8. \/ u = l + b - a + 0 * m
        \/ u = l + b - a + 1 * m
        \/ u = l + b - a + (-1) * m
    BY <1>1, <1>3
  <1>9. u % m = b
    BY <1>7, <1>8
  <1>10. u \in Nat /\ (l + d >= 0 => u = l + d)
    BY <1>1, <1>2, <1>3, <1>4, <1>5
  <1> QED BY <1>9, <1>10 DEF u, m

RtpInv ==
  /\ last_value = -1 <=> index = -1
  /\ index # -1 => /\ index \in Nat /\ last_value \in Nat
                   /\ last_value % Modulus = index % Modulus

(* What UnwrapTracks says of a step. *)
Tracks ==
  index # -1 /\ index' # index =>
    LET d == index' - index
        a == index % Modulus
        b == index' % Modulus
    IN  /\ last_value' >= 0
        /\ last_value + d >= 0 => last_value' = last_value + d
        /\ IsNewer(b, a) <=> d > 0
        /\ SeqLowerThan(a, b) <=> d > 0
        /\ SeqHigherThan(a, b) <=> d < 0

LEMMA ArriveTracks ==
  ASSUME RtpInv, NEW n \in 0 .. MaxIndex, Arrive(n)
  PROVE  RtpInv' /\ Tracks
  <1>1. n \in Nat /\ n # -1
    BY RtpConstants
  <1>2. n % Modulus \in 0 .. Modulus - 1
    <2>1. Modulus \in Nat /\ Modulus > 0
      BY HalfIs
    <2> QED BY <1>1, <2>1, DivMod
  <1>3. index' = n /\ last_value' = Unwrap(n % Modulus, last_value)
    BY DEF Arrive
  <1>4. CASE index = -1
    <2>1. last_value' = n % Modulus
      BY <1>3, <1>4 DEF RtpInv, Unwrap
    <2>2. (n % Modulus) % Modulus = n % Modulus
      <3> DEFINE b == n % Modulus
      <3>1. b \in 0 .. Modulus - 1 /\ Modulus \in Nat /\ Modulus > 0
        BY <1>2, HalfIs
      <3> HIDE DEF b
      <3>2. (Modulus * 0 + b) % Modulus = b /\ Modulus * 0 + b = b
        BY <3>1, ModIs
      <3>3. b % Modulus = b
        BY <3>2
      <3> QED BY <3>3 DEF b
    <2>3. n % Modulus \in Nat
      BY <1>2, HalfIs
    <2>4. n % Modulus # -1
      BY <2>3
    <2> QED BY <1>1, <1>3, <1>4, <2>1, <2>2, <2>3, <2>4 DEF RtpInv, Tracks
  <1>5. CASE index # -1
    <2> DEFINE a == index % Modulus
               b == n % Modulus
               d == n - index
               l == last_value
    <2>1. index \in Nat /\ l \in Nat /\ l % Modulus = a
      BY <1>5 DEF RtpInv
    <2>2. d \in 1 - Half .. Half - 1
      BY <1>5 DEF Arrive, Half
    <2>3. a \in 0 .. Modulus - 1 /\ b \in 0 .. Modulus - 1
          /\ \E e \in {-1, 0, 1} : d = b - a + e * Modulus
      BY <1>1, <2>1, <2>2, NearIndices
    <2> HIDE DEF a, b, d, l
    <2>4. PICK e \in {-1, 0, 1} : d = b - a + e * Modulus
      BY <2>3
    <2>5. /\ IsNewer(b, a) <=> d > 0
          /\ SeqLowerThan(a, b) <=> d > 0
          /\ SeqHigherThan(a, b) <=> d < 0
      BY <2>2, <2>3, <2>4, Comparisons
    <2>6. /\ Unwrap(b, l) \in Nat /\ Unwrap(b, l) % Modulus = b
          /\ l + d >= 0 => Unwrap(b, l) = l + d
      BY <2>1, <2>2, <2>3, <2>4, Unwraps
    <2>7. last_value' = Unwrap(b, l) /\ last_value' # -1
      BY <1>3, <2>6 DEF b, l
    <2>8. RtpInv'
      BY <1>1, <1>3, <2>6, <2>7 DEF RtpInv, b
    <2>9. Tracks
      <3>1. last_value' >= 0 /\ (l + d >= 0 => last_value' = l + d)
        BY <2>6, <2>7
      <3> QED BY <1>3, <2>5, <3>1 DEF Tracks, a, b, d, l
    <2> QED BY <2>8, <2>9
  <1> QED BY <1>4, <1>5

(* The order of the tests, and what they look at. *)
LEMMA ReadersAreApart ==
  ASSUME NEW p \in PacketHeads, Classify(p)
  PROVE  DemuxExclusive'
  <1>1. pkt' = <<p>> /\ dispatched' = Dispatch(p)
    BY DEF Classify
  <1>2. p.b0 \in 0 .. 255 /\ p.b1 \in 0 .. 255 /\ p.len \in Nat
    BY RtpConstants
  <1>3. /\ Dispatch(p) = "stun" => ~ IsRtp(p) /\ ~ IsRtcp(p) /\ ~ IsDtls(p)
        /\ Dispatch(p) = "dtls" => ~ IsStun(p) /\ ~ IsRtp(p) /\ ~ IsRtcp(p)
        /\ (Dispatch(p) = "rtcp") <=> IsRtcp(p)
        /\ Dispatch(p) = "rtp" => p.b1 \notin 192 .. 223
        /\ Dispatch(p) = "unknown" => ~ IsStun(p) /\ ~ IsRtp(p) /\ ~ IsRtcp(p) /\ ~ IsDtls(p)
    BY <1>2 DEF Dispatch, IsStun, IsRtp, IsRtcp, IsDtls, MediaByte
  <1>5. <<p.b0, p.b1>> \in BindingTypes /\ p.cookie /\ p.len >= 20 => Dispatch(p) = "stun"
    <2>1. <<p.b0, p.b1>> \in BindingTypes => p.b0 \in 0 .. 1 /\ p.b1 \in 0 .. 17
      BY <1>2 DEF BindingTypes
    <2> QED BY <1>2, <2>1 DEF Dispatch, IsStun, Prefix
  <1>6. p.b0 \div 64 = 2 /\ p.len >= 12 => Dispatch(p) \in {"rtp", "rtcp"}
    BY <1>2 DEF Dispatch, IsStun, IsRtp, IsRtcp, MediaByte
  <1>4. \A i \in DOMAIN <<p>> : <<p>>[i] = p
    OBVIOUS
  <1> QED BY <1>1, <1>3, <1>4, <1>5, <1>6 DEF DemuxExclusive

LEMMA RtpSteps ==
  ASSUME RtpInv, DemuxExclusive, [RtpNext]_rtpVars
  PROVE  RtpInv' /\ DemuxExclusive' /\ [Tracks]_rtpVars
  <1>1. CASE UNCHANGED rtpVars
    BY <1>1 DEF rtpVars, RtpInv, DemuxExclusive
  <1>2. ASSUME NEW p \in PacketHeads, Classify(p)
        PROVE  RtpInv' /\ DemuxExclusive' /\ [Tracks]_rtpVars
    <2>1. index' = index /\ last_value' = last_value
      BY <1>2 DEF Classify
    <2> QED BY <1>2, <2>1, ReadersAreApart DEF RtpInv, Tracks
  <1>3. ASSUME NEW n \in 0 .. MaxIndex, Arrive(n)
        PROVE  RtpInv' /\ DemuxExclusive' /\ [Tracks]_rtpVars
    <2>1. UNCHANGED <<pkt, dispatched>>
      BY <1>3 DEF Arrive
    <2> QED BY <1>3, <2>1, ArriveTracks DEF DemuxExclusive
  <1> QED BY <1>1, <1>2, <1>3 DEF RtpNext

(* rtprtcp_pub.hpp, module_common_types_public.h: a datagram has one reader,      *)
(* whatever its bytes, and sequence numbers less than half their range apart are  *)
(* compared and unwrapped right across the wrap, for every even modulus and any   *)
(* number of packets.                                                             *)
THEOREM MediaAlwaysKeepsPlace == RtpSpec => MediaKeepsPlace
  <1>1. RtpInit => RtpInv /\ DemuxExclusive
    BY DEF RtpInit, RtpInv, DemuxExclusive
  <1>2. RtpInv /\ DemuxExclusive /\ [RtpNext]_rtpVars => RtpInv' /\ DemuxExclusive' /\ [Tracks]_rtpVars
    BY RtpSteps
  <1>3. RtpSpec => []DemuxExclusive /\ [][Tracks]_rtpVars
    BY <1>1, <1>2, PTL DEF RtpSpec
  <1>4. [][Tracks]_rtpVars <=> UnwrapTracks
    BY DEF Tracks, UnwrapTracks
  <1> QED BY <1>3, <1>4, PTL DEF MediaKeepsPlace
=============================================================================
