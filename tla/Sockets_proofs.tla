--------------------------- MODULE Sockets_proofs ---------------------------
(***************************************************************************)
(* The socket server and the resolver of names, for any number of sockets, *)
(* descriptors, keys and lookups, and however long they run; and the order *)
(* of socket addresses.                                                    *)
(***************************************************************************)
EXTENDS Resolver, Addresses, SequenceTheorems, FiniteSetTheorems, WellFoundedInduction,
        NaturalsInduction, TLAPS

Events == {DE_READ, DE_WRITE, DE_CONNECT, DE_CLOSE, DE_ACCEPT}

SockStates ==
  [alive : BOOLEAN, fd : Fds \union {NoFd}, udp : BOOLEAN,
   state : {"CLOSED", "CONNECTING", "CONNECTED"}, enabled : SUBSET Events,
   saved : SUBSET SUBSET Events, key : Int, resolving : BOOLEAN]

FdStates ==
  [gen : Nat, udp : BOOLEAN, phase : {"free", "new", "connecting", "up", "eof", "error", "listening"},
   data : BOOLEAN, room : BOOLEAN, interest : SUBSET {"in", "out"}, key : Int]

(* The events that epoll was told of last. *)
ToldOf(sock) == IF sock.saved = {} THEN sock.enabled ELSE CHOOSE e \in sock.saved : TRUE

(* A socket that has descriptor record k, with u: it has been told something
   and has not reacted; n is the next key. *)
Serves(b, n, sock, k, u) ==
  /\ sock.key > 0 /\ sock.key < n /\ k.gen = sock.key /\ k.phase # "free"
  /\ k.phase = "new" => sock.enabled = {}
  /\ k.phase = "listening" => sock.enabled \subseteq {DE_ACCEPT} /\ sock.state # "CONNECTED"
  /\ b = "epoll" => k.interest = EpollEvents(ToldOf(sock))
  /\ sock.state = "CONNECTED" \/ DE_CONNECT \in sock.enabled => DE_READ \in sock.enabled \/ u

SockOk(b, n, sock, kern, u) ==
  /\ sock \in SockStates
  /\ sock.saved = {} \/ \E e \in SUBSET Events : sock.saved = {e}
  /\ sock.fd = NoFd => sock.key = -1 /\ sock.state # "CONNECTED" /\ sock.saved \in {{}, {{}}}
  /\ sock.fd # NoFd => sock.alive /\ Serves(b, n, sock, kern[sock.fd], u)

(* The key that is still to be handled is that of the opening that was ready. *)
SameOpening(sock, keys, gen) == sock.key \in keys => gen[sock.fd] = sock.key

(* What epoll watches has the key of a dispatcher. *)
KeyOk(n, k) == k.interest # {} => k.key > 0 /\ k.key < n

Fine(b, n, sk, kern, un, keys, gen) ==
  /\ sk \in [Socks -> SockStates] /\ kern \in [Fds -> FdStates]
  /\ n \in Nat \ {0} /\ keys \subseteq 0 .. n - 1
  /\ \A s \in Socks : SockOk(b, n, sk[s], kern, s \in un)
  /\ \A s, t \in Socks : sk[s].fd # NoFd /\ sk[s].fd = sk[t].fd => s = t
  /\ \A s \in Socks : SameOpening(sk[s], keys, gen)
  /\ \A f \in Fds : KeyOk(n, kern[f])

(* Updates are batched for one socket, while its events are signaled. *)
Batched ==
  /\ \A s \in Socks : socks[s].saved # {} => loop \in {"signal", "handler"} /\ s = batch.sock
  /\ loop \in {"signal", "handler"} => batch.sock \in Socks
  /\ batch = [sock |-> batch.sock, ff |-> batch.ff]

ServerInv ==
  /\ Fine(backend, nextKey, socks, kernel, unread, todo, polled.gen)
  /\ Batched /\ ~stray

-----------------------------------------------------------------------------
(* What the update of epoll's interest comes to. *)
SameBut(k, m) ==
  /\ m.gen = k.gen /\ m.phase = k.phase /\ m.data = k.data /\ m.room = k.room /\ m.udp = k.udp

LEMMA EpollEventsTyped ==
  ASSUME NEW e
  PROVE  EpollEvents(e) \in SUBSET {"in", "out"}
  BY DEF EpollEvents

Updated(b, k, m, sock) ==
  /\ m \in [Fds -> FdStates]
  /\ \A f \in Fds : f # sock.fd => m[f] = k[f]
  /\ \A f \in Fds : SameBut(k[f], m[f])
  /\ b # "epoll" => m = k
  /\ \A f \in Fds : \/ m[f].interest = k[f].interest /\ m[f].key = k[f].key
                    \/ m[f].interest = {} \/ (f = sock.fd /\ m[f].key = sock.key)

LEMMA UpdateIs ==
  ASSUME NEW k \in [Fds -> FdStates], NEW sock \in SockStates
  PROVE  /\ Updated(backend, k, UpdateEpoll(k, sock), sock)
         /\ backend = "epoll" /\ sock.fd # NoFd /\ sock.key >= 0 =>
              UpdateEpoll(k, sock)[sock.fd].interest = EpollEvents(sock.enabled)
  <1> DEFINE m == UpdateEpoll(k, sock)
  <1>1. CASE backend # "epoll" \/ sock.fd = NoFd \/ sock.key < 0
    <2>1. m = k
      BY <1>1 DEF UpdateEpoll
    <2>2. ~ (backend = "epoll" /\ sock.fd # NoFd /\ sock.key >= 0)
      BY <1>1 DEF SockStates
    <2> HIDE DEF m
    <2>3. Updated(backend, k, m, sock)
      BY <2>1 DEF Updated, SameBut
    <2> QED BY <2>2, <2>3 DEF m
  <1>2. CASE ~(backend # "epoll" \/ sock.fd = NoFd \/ sock.key < 0)
    <2> DEFINE i == EpollEvents(sock.enabled)
               y == IF i = {} THEN -1 ELSE sock.key
               r == k[sock.fd]
               n == [gen |-> r.gen, udp |-> r.udp, phase |-> r.phase, data |-> r.data,
                     room |-> r.room, interest |-> i, key |-> y]
    <2>1. sock.fd \in Fds /\ sock.key \in Int
      BY <1>2 DEF SockStates
    <2>2. i \in SUBSET {"in", "out"} /\ y \in Int
      BY <2>1, EpollEventsTyped
    <2>3. m = [k EXCEPT ![sock.fd].interest = i, ![sock.fd].key = y]
      BY <1>2 DEF UpdateEpoll
    <2> HIDE DEF i, y, m
    <2>4. /\ m[sock.fd] = n /\ m = [f \in Fds |-> m[f]]
          /\ \A f \in Fds : f # sock.fd => m[f] = k[f]
      <3>1. m[sock.fd] = n
        <4> DEFINE t == [r EXCEPT !.interest = i]
        <4>1. m[sock.fd] = [t EXCEPT !.key = y]
          BY <2>1, <2>3
        <4>2. r \in FdStates
          BY <2>1
        <4> HIDE DEF r
        <4>3. t = [gen |-> r.gen, udp |-> r.udp, phase |-> r.phase, data |-> r.data,
                   room |-> r.room, interest |-> i, key |-> r.key]
          BY <4>2 DEF FdStates
        <4> HIDE DEF t
        <4>4. [t EXCEPT !.key = y] = n
          BY <4>3
        <4> QED BY <4>1, <4>4
      <3>2. m = [f \in Fds |-> m[f]]
        BY <2>1, <2>3
      <3>3. \A f \in Fds : f # sock.fd => m[f] = k[f]
        BY <2>1, <2>3
      <3> QED BY <3>1, <3>2, <3>3
    <2>5. n \in FdStates /\ SameBut(r, n) /\ n.interest = i
      BY <2>1, <2>2 DEF FdStates, SameBut
    <2> HIDE DEF n
    <2>6. m \in [Fds -> FdStates] /\ m[sock.fd] = n /\ \A f \in Fds : f # sock.fd => m[f] = k[f]
      <3>1. \A f \in Fds : m[f] \in FdStates
        BY <2>4, <2>5
      <3> QED BY <2>4, <3>1
    <2>7. \A f \in Fds : SameBut(k[f], m[f])
      BY <2>5, <2>6 DEF SameBut
    <2>8. \A f \in Fds : \/ m[f].interest = k[f].interest /\ m[f].key = k[f].key
                        \/ m[f].interest = {} \/ (f = sock.fd /\ m[f].key = sock.key)
      <3>1. n.interest = {} \/ n.key = sock.key
        BY DEF n, y
      <3> QED BY <2>6, <3>1
    <2>9. Updated(backend, k, m, sock)
      BY <1>2, <2>6, <2>7, <2>8 DEF Updated
    <2> QED BY <2>5, <2>6, <2>9 DEF m, i
  <1> QED BY <1>1, <1>2

(* Epoll follows the socket, from sock0 on. *)
LEMMA DispatcherIs ==
  ASSUME NEW k \in [Fds -> FdStates], NEW sock0, NEW sock \in SockStates,
         NEW m, m = MaybeUpdateDispatcher(k, sock0, sock)
  PROVE  /\ Updated(backend, k, m, sock)
         /\ sock.saved # {} => m = k
         /\ /\ backend = "epoll" /\ sock.fd # NoFd /\ sock.key > 0 /\ sock.saved = {}
            /\ k[sock.fd].interest = EpollEvents(sock0.enabled)
            => m[sock.fd].interest = EpollEvents(sock.enabled)
  <1>1. sock.key > 0 => sock.key >= 0
    BY DEF SockStates
  <1>2. CASE EpollEvents(sock.enabled) # EpollEvents(sock0.enabled) /\ sock.saved = {}
    <2>1. m = UpdateEpoll(k, sock)
      BY <1>2 DEF MaybeUpdateDispatcher
    <2> QED BY <1>1, <1>2, <2>1, UpdateIs
  <1>3. CASE ~(EpollEvents(sock.enabled) # EpollEvents(sock0.enabled) /\ sock.saved = {})
    <2>1. m = k
      BY <1>3 DEF MaybeUpdateDispatcher
    <2>2. Updated(backend, k, m, sock)
      BY <2>1 DEF Updated, SameBut
    <2> QED BY <1>3, <2>1, <2>2
  <1> QED BY <1>2, <1>3

LEMMA NoFdNotUsed == NoFd \notin Fds
  BY FdNumbers DEF NoFd

(* A socket is as well as it was when its descriptor is as it was. *)
LEMMA StaysOk ==
  ASSUME NEW b, NEW n \in Nat, NEW m \in Nat, n <= m, NEW sock, NEW kern, NEW kern2, NEW u, NEW v,
         u => v, SockOk(b, n, sock, kern, u), sock.fd # NoFd => kern2[sock.fd] = kern[sock.fd]
  PROVE  SockOk(b, m, sock, kern2, v)
  <1>1. sock.fd # NoFd => Serves(b, m, sock, kern2[sock.fd], v)
    <2> SUFFICES ASSUME sock.fd # NoFd
                 PROVE  Serves(b, m, sock, kern2[sock.fd], v)
      OBVIOUS
    <2>1. Serves(b, n, sock, kern[sock.fd], u) /\ sock.key \in Int /\ kern2[sock.fd] = kern[sock.fd]
      BY DEF SockOk, SockStates
    <2>2. sock.key < n => sock.key < m
      BY <2>1
    <2> QED BY <2>1, <2>2 DEF Serves
  <1> QED BY <1>1 DEF SockOk

(* One socket changes, with its descriptor or with one that was free. *)
Takes(sk, kern, un, s, new, kern2, un2) ==
  /\ kern2 \in [Fds -> FdStates]
  /\ \A f \in Fds : f # sk[s].fd /\ f # new.fd => kern2[f] = kern[f]
  /\ new.fd \in {NoFd, sk[s].fd} \/ kern[new.fd].phase = "free"
  /\ un \subseteq un2 \union {s}

LEMMA FineTakes ==
  ASSUME NEW b, NEW n, NEW sk, NEW kern, NEW un, NEW keys, NEW gen,
         Fine(b, n, sk, kern, un, keys, gen),
         NEW s \in Socks, NEW new, NEW m \in {n, n + 1}, NEW kern2, NEW un2,
         Takes(sk, kern, un, s, new, kern2, un2), SockOk(b, m, new, kern2, s \in un2),
         SameOpening(new, keys, gen), \A f \in Fds : KeyOk(m, kern2[f])
  PROVE  Fine(b, m, [sk EXCEPT ![s] = new], kern2, un2, keys, gen)
  <1> DEFINE sk2 == [sk EXCEPT ![s] = new]
  <1>1. /\ sk \in [Socks -> SockStates] /\ kern \in [Fds -> FdStates]
        /\ n \in Nat \ {0} /\ keys \subseteq 0 .. n - 1
        /\ \A t \in Socks : SockOk(b, n, sk[t], kern, t \in un)
        /\ \A t, v \in Socks : sk[t].fd # NoFd /\ sk[t].fd = sk[v].fd => t = v
        /\ \A t \in Socks : SameOpening(sk[t], keys, gen)
    BY DEF Fine
  <1>2. new \in SockStates
    BY DEF SockOk
  <1>3. sk2 \in [Socks -> SockStates] /\ sk2[s] = new /\ \A t \in Socks : t # s => sk2[t] = sk[t]
    BY <1>1, <1>2
  <1> HIDE DEF sk2
  <1>4. m \in Nat \ {0} /\ n \in Nat /\ n <= m /\ keys \subseteq 0 .. m - 1
    BY <1>1
  <1>5. kern2 \in [Fds -> FdStates]
    BY DEF Takes
  (* The descriptors of the others. *)
  <1>6. ASSUME NEW t \in Socks, t # s, sk[t].fd # NoFd
        PROVE  /\ sk[t].fd \in Fds /\ sk[t].fd # new.fd /\ sk[t].fd # sk[s].fd
               /\ kern2[sk[t].fd] = kern[sk[t].fd]
    <2>1. sk[t].fd \in Fds
      BY <1>1, <1>6 DEF SockStates
    <2>2. sk[t].fd # sk[s].fd
      BY <1>1, <1>6
    <2>3. kern[sk[t].fd].phase # "free"
      BY <1>1, <1>6 DEF SockOk, Serves
    <2>4. sk[t].fd # new.fd
      BY <1>6, <2>2, <2>3 DEF Takes
    <2> QED BY <2>1, <2>2, <2>4 DEF Takes
  <1>7. ASSUME NEW t \in Socks
        PROVE  SockOk(b, m, sk2[t], kern2, t \in un2)
    <2>1. CASE t = s
      BY <1>3, <2>1
    <2>2. CASE t # s
      <3>1. SockOk(b, n, sk[t], kern, t \in un) /\ sk2[t] = sk[t]
        BY <1>1, <1>3, <2>2
      <3>2. (t \in un) => (t \in un2)
        BY <2>2 DEF Takes
      <3>3. sk[t].fd # NoFd => kern2[sk[t].fd] = kern[sk[t].fd]
        BY <1>6, <2>2
      <3>4. SockOk(b, m, sk[t], kern2, t \in un2)
        BY <1>4, <3>1, <3>2, <3>3, StaysOk
      <3> QED BY <3>1, <3>4
    <2> QED BY <2>1, <2>2
  <1>8. ASSUME NEW t \in Socks, NEW v \in Socks, sk2[t].fd # NoFd, sk2[t].fd = sk2[v].fd
        PROVE  t = v
    <2>1. CASE t # s /\ v # s
      BY <1>1, <1>3, <1>8, <2>1
    <2>2. CASE t = s /\ v # s
      BY <1>3, <1>6, <1>8, <2>2
    <2>3. CASE t # s /\ v = s
      BY <1>3, <1>6, <1>8, <2>3
    <2> QED BY <2>1, <2>2, <2>3
  <1>9. \A t \in Socks : SameOpening(sk2[t], keys, gen)
    BY <1>1, <1>3
  <1> QED BY <1>3, <1>4, <1>5, <1>7, <1>8, <1>9 DEF Fine, sk2

(* Descriptors move by themselves, from k to m. *)
Moved(k, m) ==
  /\ m \in FdStates /\ m.gen = k.gen /\ m.interest = k.interest /\ m.key = k.key
  /\ k.phase # "free" => m.phase # "free"
  /\ m.phase \in {"new", "listening"} => m.phase = k.phase

LEMMA MovedServes ==
  ASSUME NEW b, NEW n, NEW sock, NEW k, NEW m, NEW u, Serves(b, n, sock, k, u), Moved(k, m)
  PROVE  Serves(b, n, sock, m, u)
  BY DEF Serves, Moved

LEMMA FineMoved ==
  ASSUME NEW b, NEW n, NEW sk, NEW kern, NEW un, NEW keys, NEW gen,
         Fine(b, n, sk, kern, un, keys, gen),
         NEW f \in Fds, NEW r, Moved(kern[f], r)
  PROVE  Fine(b, n, sk, [kern EXCEPT ![f] = r], un, keys, gen)
  <1> DEFINE kern2 == [kern EXCEPT ![f] = r]
  <1>1. sk \in [Socks -> SockStates] /\ kern \in [Fds -> FdStates]
    BY DEF Fine
  <1>2. r \in FdStates
    BY DEF Moved
  <1>3. kern2 \in [Fds -> FdStates] /\ kern2[f] = r /\ \A g \in Fds : g # f => kern2[g] = kern[g]
    BY <1>1, <1>2
  <1> HIDE DEF kern2
  <1>4. ASSUME NEW s \in Socks
        PROVE  SockOk(b, n, sk[s], kern2, s \in un)
    <2>1. SockOk(b, n, sk[s], kern, s \in un)
      BY DEF Fine
    <2>2. sk[s].fd # NoFd => Serves(b, n, sk[s], kern2[sk[s].fd], s \in un)
      <3>1. CASE sk[s].fd = f
        BY <1>3, <2>1, <3>1, MovedServes DEF SockOk
      <3>2. CASE sk[s].fd # f /\ sk[s].fd # NoFd
        <4>1. sk[s].fd \in Fds
          BY <1>1, <3>2 DEF SockStates
        <4> QED BY <1>3, <2>1, <3>2, <4>1 DEF SockOk
      <3> QED BY <3>1, <3>2
    <2> QED BY <2>1, <2>2 DEF SockOk
  <1>5. \A g \in Fds : KeyOk(n, kern2[g])
    <2>1. \A g \in Fds : KeyOk(n, kern[g])
      BY DEF Fine
    <2>2. KeyOk(n, r)
      BY <2>1 DEF Moved, KeyOk
    <2> QED BY <1>3, <2>1, <2>2
  <1> QED BY <1>3, <1>4, <1>5 DEF Fine, kern2

(* What a descriptor's phase allows a socket to wait for. *)
Allowed(sock, phase, u) ==
  /\ phase # "free" /\ (phase = "new" => sock.enabled = {})
  /\ phase = "listening" => sock.enabled \subseteq {DE_ACCEPT} /\ sock.state # "CONNECTED"
  /\ sock.state = "CONNECTED" \/ DE_CONNECT \in sock.enabled => DE_READ \in sock.enabled \/ u

SameFd(sock, new) ==
  /\ new.fd = sock.fd /\ new.key = sock.key /\ new.saved = sock.saved /\ new.alive = sock.alive

SameWatch(k, r) == r \in FdStates /\ r.gen = k.gen /\ r.interest = k.interest /\ r.key = k.key

(* Keys of descriptors stay in range, when one changes and epoll follows. *)
LEMMA KeysStay ==
  ASSUME NEW n \in Nat, NEW m \in Nat, n <= m, NEW k \in [Fds -> FdStates], NEW k2, NEW k3, NEW sock \in SockStates,
         \A f \in Fds : KeyOk(n, k[f]), Updated(backend, k2, k3, sock),
         \A f \in Fds : k2[f].interest = {} \/ (k2[f].interest = k[f].interest /\ k2[f].key = k[f].key),
         sock.key > 0, sock.key < m
  PROVE  \A f \in Fds : KeyOk(m, k3[f])
  <1> SUFFICES ASSUME NEW f \in Fds, k3[f].interest # {}
               PROVE  k3[f].key > 0 /\ k3[f].key < m
    BY DEF KeyOk
  <1>1. CASE k3[f].interest = k2[f].interest /\ k3[f].key = k2[f].key
    <2>1. k3[f].key = k[f].key /\ k[f].interest # {}
      BY <1>1
    <2>2. k[f].key > 0 /\ k[f].key < n
      BY <2>1 DEF KeyOk
    <2>3. k[f].key \in Int
      BY DEF FdStates
    <2> QED BY <2>1, <2>2, <2>3
  <1>2. CASE k3[f].key = sock.key
    BY <1>2
  <1> QED BY <1>1, <1>2 DEF Updated

(* A socket changes what it waits for, when its descriptor has become r. *)
LEMMA Adjusts ==
  ASSUME NEW n, NEW sk, NEW kern, NEW un, NEW keys, NEW gen,
         Fine(backend, n, sk, kern, un, keys, gen),
         NEW s \in Socks, sk[s].fd # NoFd, NEW new \in SockStates, SameFd(sk[s], new),
         NEW sock0, sock0.enabled = sk[s].enabled, NEW r, SameWatch(kern[sk[s].fd], r), NEW un2,
         Allowed(new, r.phase, s \in un2), un \subseteq un2 \union {s},
         NEW kern2, kern2 = MaybeUpdateDispatcher([kern EXCEPT ![sk[s].fd] = r], sock0, new)
  PROVE  Fine(backend, n, [sk EXCEPT ![s] = new], kern2, un2, keys, gen)
  <1> DEFINE f == sk[s].fd
             kern1 == [kern EXCEPT ![f] = r]
  <1>1. /\ sk \in [Socks -> SockStates] /\ kern \in [Fds -> FdStates] /\ n \in {n, n + 1}
        /\ SockOk(backend, n, sk[s], kern, s \in un) /\ SameOpening(sk[s], keys, gen)
    BY DEF Fine
  <1>2. f \in Fds /\ r \in FdStates
    BY <1>1 DEF SockStates, SameWatch
  <1>3. kern1 \in [Fds -> FdStates] /\ kern1[f] = r /\ \A g \in Fds : g # f => kern1[g] = kern[g]
    BY <1>1, <1>2
  <1>4. kern2 = MaybeUpdateDispatcher(kern1, sock0, new)
    OBVIOUS
  <1>5. Serves(backend, n, sk[s], kern[f], s \in un)
    BY <1>1 DEF SockOk
  <1> HIDE DEF f, kern1
  <1>6. new.fd = f /\ new.key = sk[s].key /\ new.saved = sk[s].saved /\ new.alive = sk[s].alive
    BY DEF SameFd, f
  <1>7. /\ Updated(backend, kern1, kern2, new)
        /\ new.saved # {} => kern2 = kern1
        /\ /\ backend = "epoll" /\ new.fd # NoFd /\ new.key > 0 /\ new.saved = {}
           /\ kern1[new.fd].interest = EpollEvents(sock0.enabled)
           => kern2[new.fd].interest = EpollEvents(new.enabled)
    BY <1>3, <1>4, DispatcherIs
  <1>8. /\ kern2 \in [Fds -> FdStates] /\ \A g \in Fds : g # f => kern2[g] = kern[g]
        /\ kern2[f].gen = r.gen /\ kern2[f].phase = r.phase
    <2>1. /\ kern2 \in [Fds -> FdStates]
          /\ \A g \in Fds : g # new.fd => kern2[g] = kern1[g]
          /\ \A g \in Fds : SameBut(kern1[g], kern2[g])
      BY ONLY <1>7 DEF Updated
    <2>2. SameBut(kern1[f], kern2[f])
      BY <1>2, <2>1
    <2>3. kern2[f].gen = r.gen /\ kern2[f].phase = r.phase
      BY <1>3, <2>2 DEF SameBut
    <2>4. \A g \in Fds : g # f => kern2[g] = kern[g]
      BY <1>3, <1>6, <2>1
    <2> QED BY <2>1, <2>3, <2>4
  <1>9. backend = "epoll" => kern2[f].interest = EpollEvents(ToldOf(new))
    <2> SUFFICES ASSUME backend = "epoll"
                 PROVE  kern2[f].interest = EpollEvents(ToldOf(new))
      OBVIOUS
    <2>1. r.interest = EpollEvents(ToldOf(sk[s]))
      BY <1>5 DEF Serves, SameWatch, f
    <2>2. CASE new.saved # {}
      <3>1. ToldOf(new) = ToldOf(sk[s])
        BY <1>6, <2>2 DEF ToldOf
      <3> QED BY <1>3, <1>7, <2>1, <2>2, <3>1
    <2>3. CASE new.saved = {}
      <3>1. ToldOf(sk[s]) = sk[s].enabled /\ ToldOf(new) = new.enabled
        BY <1>6, <2>3 DEF ToldOf
      <3>2. f # NoFd /\ new.key > 0
        BY <1>5, <1>6 DEF f, Serves
      <3> QED BY <1>3, <1>6, <1>7, <2>1, <2>3, <3>1, <3>2
    <2> QED BY <2>2, <2>3
  <1>10. Serves(backend, n, new, kern2[f], s \in un2)
    <2>1. r.gen = kern[f].gen
      BY DEF SameWatch, f
    <2>2. new.key > 0 /\ new.key < n /\ kern2[f].gen = new.key
      BY <1>5, <1>6, <1>8, <2>1 DEF Serves
    <2> QED BY <1>8, <1>9, <2>2 DEF Serves, Allowed
  <1>11. SockOk(backend, n, new, kern2, s \in un2)
    <2>1. new.alive /\ (new.saved = {} \/ \E e \in SUBSET Events : new.saved = {e})
      BY <1>1, <1>6 DEF SockOk, f
    <2> QED BY <1>6, <1>10, <2>1 DEF SockOk, f
  <1>12. SameOpening(new, keys, gen)
    BY <1>1, <1>6 DEF SameOpening, f
  <1>13. Takes(sk, kern, un, s, new, kern2, un2)
    BY <1>6, <1>8 DEF Takes, f
  <1>14. \A g \in Fds : KeyOk(n, kern2[g])
    <2>1. /\ n \in Nat /\ n <= n /\ \A g \in Fds : KeyOk(n, kern[g])
      BY DEF Fine
    <2>2. r.interest = kern[f].interest /\ r.key = kern[f].key
      BY DEF SameWatch, f
    <2>3. \A g \in Fds : kern1[g].interest = {} \/ (kern1[g].interest = kern[g].interest /\ kern1[g].key = kern[g].key)
      BY <1>3, <2>2
    <2>4. new.key > 0 /\ new.key < n
      BY <1>5, <1>6 DEF Serves
    <2> QED BY <1>1, <1>7, <2>1, <2>3, <2>4, KeysStay
  <1> QED BY <1>1, <1>11, <1>12, <1>13, <1>14, FineTakes

(* A socket changes but for its descriptor and its events. *)
LEMMA Relabels ==
  ASSUME NEW n, NEW sk, NEW kern, NEW un, NEW keys, NEW gen,
         Fine(backend, n, sk, kern, un, keys, gen),
         NEW s \in Socks, NEW new \in SockStates, SameFd(sk[s], new), new.enabled = sk[s].enabled,
         new.state \in {"CLOSED", "CONNECTING"} \/ new.state = sk[s].state
  PROVE  Fine(backend, n, [sk EXCEPT ![s] = new], kern, un, keys, gen)
  <1>1. /\ kern \in [Fds -> FdStates] /\ n \in {n, n + 1}
        /\ SockOk(backend, n, sk[s], kern, s \in un) /\ SameOpening(sk[s], keys, gen)
    BY DEF Fine
  <1>2. new.fd = sk[s].fd /\ new.key = sk[s].key /\ new.saved = sk[s].saved /\ new.alive = sk[s].alive
    BY DEF SameFd
  <1>3. ToldOf(new) = ToldOf(sk[s])
    BY <1>2 DEF ToldOf
  <1>4. new.state = "CONNECTED" => sk[s].state = "CONNECTED"
    OBVIOUS
  <1>5. new.fd # NoFd => Serves(backend, n, new, kern[new.fd], s \in un)
    BY <1>1, <1>2, <1>3, <1>4 DEF SockOk, Serves
  <1>6. SockOk(backend, n, new, kern, s \in un)
    BY <1>1, <1>2, <1>4, <1>5 DEF SockOk
  <1>7. SameOpening(new, keys, gen)
    BY <1>1, <1>2 DEF SameOpening
  <1>8. Takes(sk, kern, un, s, new, kern, un)
    BY <1>1, <1>2 DEF Takes
  <1>9. \A f \in Fds : KeyOk(n, kern[f])
    BY DEF Fine
  <1> QED BY <1>1, <1>6, <1>7, <1>8, <1>9, FineTakes

(* A socket gives its descriptor back. *)
LEMMA Frees ==
  ASSUME NEW n, NEW sk, NEW kern, NEW un, NEW keys, NEW gen,
         Fine(backend, n, sk, kern, un, keys, gen),
         NEW s \in Socks, sk[s].fd # NoFd, NEW new \in SockStates, new.fd = NoFd, new.key = -1,
         new.state = "CLOSED", new.saved \in {{}, {{}}}
  PROVE  Fine(backend, n, [sk EXCEPT ![s] = new], [kern EXCEPT ![sk[s].fd] = Free], un \ {s}, keys, gen)
  <1> DEFINE kern2 == [kern EXCEPT ![sk[s].fd] = Free]
  <1>1. /\ kern \in [Fds -> FdStates] /\ n \in {n, n + 1} /\ n \in Nat \ {0} /\ keys \subseteq 0 .. n - 1
        /\ sk \in [Socks -> SockStates]
    BY DEF Fine
  <1>2. Free \in FdStates
    BY DEF Free, FdStates
  <1>3. sk[s].fd \in Fds
    BY <1>1 DEF SockStates
  <1>4. kern2 \in [Fds -> FdStates] /\ \A f \in Fds : f # sk[s].fd => kern2[f] = kern[f]
    BY <1>1, <1>2, <1>3
  <1> HIDE DEF kern2
  <1>5. SockOk(backend, n, new, kern2, s \in un \ {s})
    BY DEF SockOk
  <1>6. SameOpening(new, keys, gen)
    <2>1. -1 \notin keys
      BY <1>1
    <2> QED BY <2>1 DEF SameOpening
  <1>7. Takes(sk, kern, un, s, new, kern2, un \ {s})
    BY <1>4 DEF Takes
  <1>8. \A f \in Fds : KeyOk(n, kern2[f])
    <2>1. \A f \in Fds : KeyOk(n, kern[f])
      BY DEF Fine
    <2>2. KeyOk(n, Free) /\ kern2[sk[s].fd] = Free
      BY <1>1, <1>3 DEF KeyOk, Free, kern2
    <2> QED BY <1>4, <2>1, <2>2
  <1>9. Fine(backend, n, [sk EXCEPT ![s] = new], kern2, un \ {s}, keys, gen)
    BY <1>1, <1>5, <1>6, <1>7, <1>8, FineTakes
  <1> QED BY <1>9 DEF kern2

LEMMA LeastNumber ==
  ASSUME NEW T, T \subseteq Nat, T # {}
  PROVE  \E n \in T : \A k \in T : n <= k
  <1>1. PICK n \in T : \A k \in T : ~ (<<k, n>> \in OpToRel(<, Nat))
    BY NatLessThanWellFounded, WFMin
  <1>2. \A k \in T : k \in Nat /\ n \in Nat /\ ~ (k < n)
    BY <1>1 DEF OpToRel
  <1>3. \A k \in T : n <= k
    BY <1>2
  <1> QED BY <1>3

LEMMA LowestIsFree ==
  ASSUME kernel \in [Fds -> FdStates], CanOpen
  PROVE  LowestFree \in Fds /\ kernel[LowestFree].phase = "free"
  <1> DEFINE T == { f \in Fds : kernel[f].phase = "free" }
  <1>1. T \subseteq Nat /\ T # {}
    BY FdNumbers DEF CanOpen
  <1>2. PICK f \in T : \A g \in T : f <= g
    BY <1>1, LeastNumber
  <1>3. \A g \in Fds : g < f => kernel[g].phase # "free"
    <2> SUFFICES ASSUME NEW g \in Fds, g < f, kernel[g].phase = "free"
                 PROVE  FALSE
      OBVIOUS
    <2>1. g \in T /\ f \in Nat /\ g \in Nat
      BY <1>1
    <2> QED BY <1>2, <2>1
  <1> QED BY <1>2, <1>3 DEF LowestFree

(* A descriptor is opened for a socket that had none. *)
OpenedAs(o, sock, udp, events, phase) ==
  /\ o.sock \in SockStates /\ o.sock.alive /\ o.sock.fd \in Fds /\ o.sock.key = nextKey /\ o.sock.enabled = events
  /\ o.sock.saved = sock.saved /\ o.sock.udp = udp
  /\ o.sock.state = IF phase = "up" /\ ~udp THEN "CONNECTED" ELSE sock.state
  /\ kernel[o.sock.fd].phase = "free" /\ o.kernel[o.sock.fd].phase = phase
  /\ o.kernel \in [Fds -> FdStates] /\ (\A f \in Fds : KeyOk(nextKey + 1, o.kernel[f]))
  /\ \A f \in Fds : f # o.sock.fd => o.kernel[f] = kernel[f]

MayOpen(sock, events, phase) ==
  /\ sock.saved \in {{}, {{}}} /\ (sock.saved # {} => events = {})
  /\ sock.state # "CONNECTED"
  /\ phase = "new" => events = {}
  /\ phase = "up" => DE_READ \in events /\ DE_CONNECT \notin events

Reopened(sock, udp, events, st, f, n) ==
  [sock EXCEPT !.alive = TRUE, !.fd = f, !.udp = udp, !.key = n, !.enabled = events, !.state = st]

IsReopened(new, sock, udp, events, st, f, n) ==
  /\ new \in SockStates /\ new.alive /\ new.fd = f /\ new.key = n /\ new.enabled = events
  /\ new.saved = sock.saved /\ new.udp = udp /\ new.state = st

LEMMA OpenedSock ==
  ASSUME NEW sock \in SockStates, NEW udp \in BOOLEAN, NEW events \in SUBSET Events,
         NEW st \in {"CLOSED", "CONNECTING", "CONNECTED"}, NEW f \in Fds, NEW n \in Int
  PROVE  IsReopened(Reopened(sock, udp, events, st, f, n), sock, udp, events, st, f, n)
  <1> DEFINE new == Reopened(sock, udp, events, st, f, n)
  <1> DEFINE t1 == [sock EXCEPT !.alive = TRUE]
             t2 == [t1 EXCEPT !.fd = f]
             t3 == [t2 EXCEPT !.udp = udp]
             t4 == [t3 EXCEPT !.key = n]
             t5 == [t4 EXCEPT !.enabled = events]
  <1>1. new = [t5 EXCEPT !.state = st]
    BY DEF Reopened
  <1>2. t1 \in SockStates /\ t1.alive /\ t1.saved = sock.saved
    BY DEF SockStates
  <1> HIDE DEF t1
  <1>3. t2 \in SockStates /\ t2.alive /\ t2.saved = sock.saved /\ t2.fd = f
    BY <1>2 DEF SockStates
  <1> HIDE DEF t2
  <1>4. t3 \in SockStates /\ t3.alive /\ t3.saved = sock.saved /\ t3.fd = f /\ t3.udp = udp
    BY <1>3 DEF SockStates
  <1> HIDE DEF t3
  <1>5. t4 \in SockStates /\ t4.alive /\ t4.saved = sock.saved /\ t4.fd = f /\ t4.udp = udp /\ t4.key = n
    BY <1>4 DEF SockStates
  <1> HIDE DEF t4
  <1>6. /\ t5 \in SockStates /\ t5.saved = sock.saved /\ t5.fd = f /\ t5.udp = udp /\ t5.key = n
        /\ t5.enabled = events /\ t5.alive
    BY <1>5 DEF SockStates
  <1> HIDE DEF t5, new
  <1> QED BY <1>1, <1>6 DEF SockStates, IsReopened, new

OpensAs(sk, un2, keys, gen, s, sock, udp, events, phase) ==
  LET o == Opened(sock, udp, events, phase)
  IN  /\ OpenedAs(o, sock, udp, events, phase)
      /\ Fine(backend, nextKey + 1, [sk EXCEPT ![s] = o.sock], o.kernel, un2, keys, gen)

LEMMA Opens ==
  ASSUME NEW sk, NEW un, NEW keys, NEW gen,
         Fine(backend, nextKey, sk, kernel, un, keys, gen), CanOpen,
         NEW s \in Socks, sk[s].fd = NoFd, NEW sock \in SockStates, NEW udp \in BOOLEAN,
         NEW events \in SUBSET Events, NEW phase \in {"new", "up"}, MayOpen(sock, events, phase),
         NEW un2, un \subseteq un2 \union {s}
  PROVE  OpensAs(sk, un2, keys, gen, s, sock, udp, events, phase)
  <1> DEFINE f == LowestFree
             st == IF phase = "up" /\ ~udp THEN "CONNECTED" ELSE sock.state
             new == [sock EXCEPT !.alive = TRUE, !.fd = f, !.udp = udp, !.key = nextKey,
                                 !.enabled = events, !.state = st]
             r == [Free EXCEPT !.gen = nextKey, !.udp = udp, !.phase = phase]
             kern1 == [kernel EXCEPT ![f] = r]
             kern2 == UpdateEpoll(kern1, new)
             o == Opened(sock, udp, events, phase)
  <1>1. /\ kernel \in [Fds -> FdStates] /\ nextKey \in Nat \ {0} /\ keys \subseteq 0 .. nextKey - 1
        /\ sk \in [Socks -> SockStates]
    BY DEF Fine
  <1>2. f \in Fds /\ kernel[f].phase = "free" /\ f # NoFd
    BY <1>1, LowestIsFree, NoFdNotUsed
  <1>3. o = [sock |-> new, kernel |-> kern2]
    BY DEF Opened
  <1> HIDE DEF o
  <1>4. o.sock = new /\ o.kernel = kern2
    BY <1>3
  <1>5. st \in {"CLOSED", "CONNECTING", "CONNECTED"} /\ nextKey \in Int
    BY <1>1 DEF SockStates
  <1>6. /\ new \in SockStates /\ new.alive /\ new.fd = f /\ new.key = nextKey /\ new.enabled = events
        /\ new.saved = sock.saved /\ new.udp = udp /\ new.state = st
    <2>1. new = Reopened(sock, udp, events, st, f, nextKey)
      BY DEF Reopened
    <2> HIDE DEF f, st, new
    <2>2. IsReopened(Reopened(sock, udp, events, st, f, nextKey), sock, udp, events, st, f, nextKey)
      BY <1>2, <1>5, OpenedSock
    <2> QED BY <2>1, <2>2 DEF IsReopened
  <1>7. r \in FdStates /\ r.gen = nextKey /\ r.phase = phase /\ r.interest = {}
    <2> DEFINE r1 == [Free EXCEPT !.gen = nextKey]
               r2 == [r1 EXCEPT !.udp = udp]
    <2>1. r = [r2 EXCEPT !.phase = phase]
      OBVIOUS
    <2>2. Free \in FdStates /\ Free.interest = {}
      BY DEF Free, FdStates
    <2>3. r1 \in FdStates /\ r1.gen = nextKey /\ r1.interest = {}
      BY <1>1, <2>2 DEF FdStates
    <2> HIDE DEF r1
    <2>4. r2 \in FdStates /\ r2.gen = nextKey /\ r2.interest = {}
      BY <2>3 DEF FdStates
    <2> HIDE DEF r2, r
    <2> QED BY <2>1, <2>4 DEF FdStates
  <1> HIDE DEF f, new, r
  <1>8. kern1 \in [Fds -> FdStates] /\ kern1[f] = r /\ \A g \in Fds : g # f => kern1[g] = kernel[g]
    BY <1>1, <1>2, <1>7
  <1> HIDE DEF kern1
  <1>9. /\ Updated(backend, kern1, kern2, new)
        /\ backend = "epoll" => kern2[f].interest = EpollEvents(new.enabled)
    <2>1. new.key >= 0
      BY <1>1, <1>6
    <2> QED BY <1>2, <1>6, <1>8, <2>1, UpdateIs
  <1> HIDE DEF kern2
  <1>10. /\ kern2 \in [Fds -> FdStates] /\ \A g \in Fds : g # f => kern2[g] = kernel[g]
         /\ kern2[f].gen = nextKey /\ kern2[f].phase = phase
    BY <1>2, <1>6, <1>7, <1>8, <1>9 DEF Updated, SameBut
  <1>11. \A g \in Fds : KeyOk(nextKey + 1, kern2[g])
    <2>1. /\ nextKey \in Nat /\ nextKey + 1 \in Nat /\ nextKey <= nextKey + 1
          /\ \A g \in Fds : KeyOk(nextKey, kernel[g])
      BY <1>1 DEF Fine
    <2>2. \A g \in Fds : kern1[g].interest = {} \/ (kern1[g].interest = kernel[g].interest /\ kern1[g].key = kernel[g].key)
      BY <1>7, <1>8
    <2>3. new.key > 0 /\ new.key < nextKey + 1
      BY <1>1, <1>6
    <2> QED BY <1>1, <1>6, <1>9, <2>1, <2>2, <2>3, KeysStay
  <1>11a. OpenedAs(o, sock, udp, events, phase)
    BY <1>2, <1>4, <1>6, <1>10, <1>11 DEF OpenedAs
  <1>12. backend = "epoll" => kern2[f].interest = EpollEvents(ToldOf(new))
    <2>1. CASE sock.saved = {}
      <3>1. ToldOf(new) = new.enabled
        BY <1>6, <2>1 DEF ToldOf
      <3> QED BY <1>9, <3>1
    <2>2. CASE sock.saved # {}
      <3>1. sock.saved = {{}} /\ events = {}
        BY <2>2 DEF MayOpen
      <3>2. ToldOf(new) = {} /\ new.enabled = {}
        BY <1>6, <3>1 DEF ToldOf
      <3> QED BY <1>9, <3>2
    <2> QED BY <2>1, <2>2
  <1>13. Serves(backend, nextKey + 1, new, kern2[f], s \in un2)
    <2>1. new.key > 0 /\ new.key < nextKey + 1 /\ kern2[f].gen = new.key
      BY <1>1, <1>6, <1>10
    <2>2. phase = "new" => new.enabled = {} /\ new.state # "CONNECTED"
      BY <1>6 DEF MayOpen
    <2>3. phase = "up" => DE_READ \in new.enabled
      BY <1>6 DEF MayOpen
    <2> QED BY <1>10, <1>12, <2>1, <2>2, <2>3 DEF Serves
  <1>14. SockOk(backend, nextKey + 1, new, kern2, s \in un2)
    <2>1. new.saved = {} \/ \E e \in SUBSET Events : new.saved = {e}
      BY <1>6 DEF MayOpen
    <2> QED BY <1>2, <1>6, <1>13, <2>1 DEF SockOk
  <1>15. SameOpening(new, keys, gen)
    <2>1. nextKey \notin keys
      BY <1>1
    <2> QED BY <1>6, <2>1 DEF SameOpening
  <1>16. Takes(sk, kernel, un, s, new, kern2, un2)
    BY <1>2, <1>6, <1>10 DEF Takes
  <1>17. Fine(backend, nextKey + 1, [sk EXCEPT ![s] = new], kern2, un2, keys, gen)
    BY <1>11, <1>14, <1>15, <1>16, FineTakes
  <1> QED BY <1>4, <1>11a, <1>17 DEF OpensAs, o

(* The state of the sockets, as the invariant has it. *)
LEMMA SocksFine ==
  ASSUME ServerInv, NEW s \in Socks
  PROVE  /\ Fine(backend, nextKey, socks, kernel, unread, todo, polled.gen)
         /\ socks \in [Socks -> SockStates] /\ kernel \in [Fds -> FdStates] /\ nextKey \in Nat \ {0}
         /\ socks[s] \in SockStates /\ SockOk(backend, nextKey, socks[s], kernel, s \in unread)
         /\ socks[s].fd # NoFd => /\ socks[s].fd \in Fds /\ kernel[socks[s].fd] \in FdStates
                                  /\ Serves(backend, nextKey, socks[s], kernel[socks[s].fd], s \in unread)
  <1>1. Fine(backend, nextKey, socks, kernel, unread, todo, polled.gen)
    BY DEF ServerInv
  <1>2. socks \in [Socks -> SockStates] /\ kernel \in [Fds -> FdStates] /\ nextKey \in Nat \ {0}
    BY <1>1 DEF Fine
  <1>3. SockOk(backend, nextKey, socks[s], kernel, s \in unread)
    BY <1>1 DEF Fine
  <1>4. socks[s].fd # NoFd => socks[s].fd \in Fds
    BY <1>2 DEF SockStates
  <1> QED BY <1>1, <1>2, <1>3, <1>4 DEF SockOk

(* Calls of the application keep the place of the loop. *)
LEMMA CallKeeps ==
  ASSUME ServerInv, UNCHANGED <<backend, loop, todo, polled, batch, stray>>,
         Fine(backend, nextKey', socks', kernel', unread', todo, polled.gen),
         \A s \in Socks : socks'[s].saved # {} => socks[s].saved # {}
  PROVE  ServerInv'
  BY DEF ServerInv, Batched

LEMMA OneSaved ==
  ASSUME socks \in [Socks -> SockStates], NEW s \in Socks, NEW new,
         new.saved # {} => socks[s].saved # {}
  PROVE  \A t \in Socks : [socks EXCEPT ![s] = new][t].saved # {} => socks[t].saved # {}
  OBVIOUS

LEMMA CreateSocketKeeps ==
  ASSUME ServerInv, NEW s \in Socks, NEW udp \in BOOLEAN, CreateSocket(s, udp)
  PROVE  ServerInv'
  <1> DEFINE events == IF udp THEN {DE_READ, DE_WRITE} ELSE {}
             phase == IF udp THEN "up" ELSE "new"
             o == Opened(NoSock, udp, events, phase)
  <1>1. /\ CanOpen /\ ~socks[s].alive
        /\ socks' = [socks EXCEPT ![s] = o.sock] /\ kernel' = o.kernel
        /\ nextKey' = nextKey + 1 /\ unread' = unread \ {s}
        /\ UNCHANGED <<backend, loop, todo, polled, batch, stray>>
    BY DEF CreateSocket, CallHere
  <1>2. /\ NoSock \in SockStates /\ NoSock.saved = {} /\ NoSock.state = "CLOSED"
    BY NoFdNotUsed DEF NoSock, SockStates
  <1>3. /\ events \in SUBSET Events /\ phase \in {"new", "up"} /\ (phase = "new" => events = {})
        /\ (phase = "up" => DE_READ \in events /\ DE_CONNECT \notin events)
    BY DEF Events, DE_READ, DE_WRITE, DE_CONNECT
  <1>4. socks[s].fd = NoFd
    BY <1>1, SocksFine DEF SockOk
  <1>5. MayOpen(NoSock, events, phase)
    BY <1>2, <1>3 DEF MayOpen
  <1>6. o = Opened(NoSock, udp, events, phase) /\ unread \subseteq (unread \ {s}) \union {s}
    OBVIOUS
  <1> HIDE DEF o, events, phase
  <1>7. /\ OpenedAs(o, NoSock, udp, events, phase)
        /\ Fine(backend, nextKey + 1, [socks EXCEPT ![s] = o.sock], o.kernel, unread \ {s}, todo, polled.gen)
    <2>1. Fine(backend, nextKey, socks, kernel, unread, todo, polled.gen)
      BY SocksFine
    <2>2. OpensAs(socks, unread \ {s}, todo, polled.gen, s, NoSock, udp, events, phase)
      BY <1>1, <1>2, <1>3, <1>4, <1>5, <1>6, <2>1, Opens
    <2> QED BY <2>2 DEF OpensAs, o
  <1>8. \A t \in Socks : socks'[t].saved # {} => socks[t].saved # {}
    BY <1>1, <1>2, <1>7, SocksFine, OneSaved DEF OpenedAs
  <1> QED BY <1>1, <1>7, <1>8, CallKeeps

(* A socket that was closed. *)
LEMMA ClosedIs ==
  ASSUME NEW sock \in SockStates
  PROVE  LET c == Closed(sock)
         IN  /\ c \in SockStates /\ c.fd = NoFd /\ c.key = -1 /\ c.state = "CLOSED"
             /\ c.saved \in {{}, {{}}} /\ (c.saved # {} => sock.saved # {}) /\ c.alive = sock.alive
  <1> DEFINE v == IF sock.saved = {} THEN {} ELSE {{}}
             t1 == [sock EXCEPT !.fd = NoFd]
             t2 == [t1 EXCEPT !.state = "CLOSED"]
             t3 == [t2 EXCEPT !.enabled = {}]
             t4 == [t3 EXCEPT !.key = -1]
             t5 == [t4 EXCEPT !.resolving = FALSE]
             c == Closed(sock)
  <1>1. c = [t5 EXCEPT !.saved = v]
    BY DEF Closed, SockStates
  <1>2. v \in SUBSET SUBSET Events
    OBVIOUS
  <1>3. t1 \in SockStates /\ t1.fd = NoFd /\ t1.alive = sock.alive
    BY DEF SockStates
  <1> HIDE DEF t1
  <1>4. t2 \in SockStates /\ t2.fd = NoFd /\ t2.alive = sock.alive /\ t2.state = "CLOSED"
    BY <1>3 DEF SockStates
  <1> HIDE DEF t2
  <1>5. t3 \in SockStates /\ t3.fd = NoFd /\ t3.alive = sock.alive /\ t3.state = "CLOSED"
    BY <1>4 DEF SockStates
  <1> HIDE DEF t3
  <1>6. t4 \in SockStates /\ t4.fd = NoFd /\ t4.alive = sock.alive /\ t4.state = "CLOSED" /\ t4.key = -1
    BY <1>5 DEF SockStates
  <1> HIDE DEF t4
  <1>7. t5 \in SockStates /\ t5.fd = NoFd /\ t5.alive = sock.alive /\ t5.state = "CLOSED" /\ t5.key = -1
    BY <1>6 DEF SockStates
  <1>8. v \in {{}, {{}}} /\ (v # {} => sock.saved # {})
    OBVIOUS
  <1> HIDE DEF t5, c, v
  <1>9. /\ c \in SockStates /\ c.fd = NoFd /\ c.key = -1 /\ c.state = "CLOSED" /\ c.saved = v
        /\ c.alive = sock.alive
    BY <1>1, <1>2, <1>7 DEF SockStates
  <1> QED BY <1>8, <1>9 DEF c

(* CloseWith, for a socket that stays and for one that is deleted. *)
LEMMA CloseKeeps ==
  ASSUME ServerInv, NEW s \in Socks, NEW after, after = socks[s] \/ (after = NoSock /\ socks[s].saved = {}),
         socks[s].alive, CloseWith(s, after), UNCHANGED nextKey,
         UNCHANGED <<backend, loop, todo, polled, batch, stray>>
  PROVE  ServerInv'
  <1>1. /\ NoSock \in SockStates /\ NoSock.saved = {} /\ NoSock.state = "CLOSED" /\ NoSock.fd = NoFd
        /\ NoSock.key = -1 /\ NoSock.alive = FALSE /\ NoSock.enabled = {}
    BY NoFdNotUsed DEF NoSock, SockStates
  <1>2. CASE socks[s].fd = NoFd /\ after = socks[s]
    <2>1. socks' = [socks EXCEPT ![s] = socks[s]] /\ UNCHANGED <<kernel, unread>>
      BY <1>2 DEF CloseWith
    <2>2. socks' = socks
      BY <2>1, SocksFine
    <2> QED BY <2>1, <2>2, CallKeeps, SocksFine
  <1>3. CASE socks[s].fd = NoFd /\ after = NoSock /\ socks[s].saved = {}
    <2>1. socks' = [socks EXCEPT ![s] = NoSock] /\ UNCHANGED <<kernel, unread>>
      BY <1>3 DEF CloseWith
    <2>2. nextKey \in {nextKey, nextKey + 1} /\ Takes(socks, kernel, unread, s, NoSock, kernel, unread)
      BY <1>1, SocksFine DEF Takes
    <2>3. SockOk(backend, nextKey, NoSock, kernel, s \in unread)
      BY <1>1 DEF SockOk
    <2>4. SameOpening(NoSock, todo, polled.gen)
      <3>1. todo \subseteq 0 .. nextKey - 1 /\ nextKey \in Nat
        BY SocksFine DEF Fine
      <3>2. -1 \notin todo
        BY <3>1
      <3> QED BY <1>1, <3>2 DEF SameOpening
    <2>5. Fine(backend, nextKey, [socks EXCEPT ![s] = NoSock], kernel, unread, todo, polled.gen)
      <3>1. \A f \in Fds : KeyOk(nextKey, kernel[f])
        BY SocksFine DEF Fine
      <3> QED BY <2>2, <2>3, <2>4, <3>1, SocksFine, FineTakes
    <2>6. \A t \in Socks : socks'[t].saved # {} => socks[t].saved # {}
      BY <1>1, <2>1, SocksFine, OneSaved
    <2> QED BY <2>1, <2>5, <2>6, CallKeeps
  <1>4. CASE socks[s].fd # NoFd
    <2> DEFINE new == IF after.alive THEN Closed(after) ELSE after
    <2>1. /\ socks' = [socks EXCEPT ![s] = new] /\ kernel' = [kernel EXCEPT ![socks[s].fd] = Free]
          /\ unread' = unread \ {s}
      BY <1>4 DEF CloseWith
    <2>2. /\ new \in SockStates /\ new.fd = NoFd /\ new.key = -1 /\ new.state = "CLOSED"
          /\ new.saved \in {{}, {{}}} /\ (new.saved # {} => socks[s].saved # {})
      <3>1. CASE after = socks[s]
        <4>1. new = Closed(socks[s])
          BY <3>1
        <4> QED BY <4>1, SocksFine, ClosedIs
      <3>2. CASE after = NoSock
        <4>1. new = NoSock
          BY <1>1, <3>2
        <4> QED BY <1>1, <4>1
      <3> QED BY <3>1, <3>2
    <2> HIDE DEF new
    <2>3. Fine(backend, nextKey, [socks EXCEPT ![s] = new], [kernel EXCEPT ![socks[s].fd] = Free],
               unread \ {s}, todo, polled.gen)
      BY <1>4, <2>2, SocksFine, Frees
    <2>4. \A t \in Socks : socks'[t].saved # {} => socks[t].saved # {}
      BY <2>1, <2>2, SocksFine, OneSaved
    <2> QED BY <2>1, <2>3, <2>4, CallKeeps
  <1> QED BY <1>2, <1>3, <1>4

LEMMA ClosingKeeps ==
  ASSUME ServerInv, NEW s \in Socks, Close(s) \/ Delete(s)
  PROVE  ServerInv'
  <1>1. CASE Close(s)
    <2>1. /\ socks[s].alive /\ CloseWith(s, socks[s]) /\ UNCHANGED nextKey
          /\ UNCHANGED <<backend, loop, todo, polled, batch, stray>>
      BY <1>1 DEF Close, MayCall, CallHere
    <2> QED BY <2>1, CloseKeeps
  <1>2. CASE Delete(s)
    <2>1. /\ socks[s].alive /\ CloseWith(s, NoSock) /\ socks[s].saved = {} /\ UNCHANGED nextKey
          /\ UNCHANGED <<backend, loop, todo, polled, batch, stray>>
      BY <1>2 DEF Delete, MayCall, CallHere
    <2> QED BY <2>1, CloseKeeps
  <1> QED BY <1>1, <1>2

(* One member of a socket is set. *)
LEMMA SetEnabled ==
  ASSUME NEW sock \in SockStates, NEW e \in SUBSET Events
  PROVE  LET t == [sock EXCEPT !.enabled = e]
         IN  /\ t \in SockStates /\ SameFd(sock, t) /\ t.enabled = e /\ t.state = sock.state
             /\ t.udp = sock.udp
  BY DEF SockStates, SameFd

LEMMA SetState ==
  ASSUME NEW sock \in SockStates, NEW st \in {"CLOSED", "CONNECTING", "CONNECTED"}
  PROVE  LET t == [sock EXCEPT !.state = st]
         IN  /\ t \in SockStates /\ SameFd(sock, t) /\ t.enabled = sock.enabled /\ t.state = st
             /\ t.udp = sock.udp
  BY DEF SockStates, SameFd

LEMMA SetResolving ==
  ASSUME NEW sock \in SockStates, NEW b \in BOOLEAN
  PROVE  LET t == [sock EXCEPT !.resolving = b]
         IN  /\ t \in SockStates /\ SameFd(sock, t) /\ t.enabled = sock.enabled
             /\ t.state = sock.state /\ t.udp = sock.udp
  BY DEF SockStates, SameFd

LEMMA SameFdAgain ==
  ASSUME NEW a, NEW b, NEW c, SameFd(a, b), SameFd(b, c)
  PROVE  SameFd(a, c)
  BY DEF SameFd

AdjustsTo(n, sk, kern, un2, keys, gen, s, new, sock0, r) ==
  Fine(backend, n, [sk EXCEPT ![s] = new],
       MaybeUpdateDispatcher([kern EXCEPT ![sk[s].fd] = r], sock0, new), un2, keys, gen)

LEMMA Adjusted ==
  ASSUME NEW n, NEW sk, NEW kern, NEW un, NEW keys, NEW gen,
         Fine(backend, n, sk, kern, un, keys, gen),
         NEW s \in Socks, sk[s].fd # NoFd, NEW new \in SockStates, SameFd(sk[s], new),
         NEW sock0, sock0.enabled = sk[s].enabled, NEW r, SameWatch(kern[sk[s].fd], r), NEW un2,
         Allowed(new, r.phase, s \in un2), un \subseteq un2 \union {s}
  PROVE  AdjustsTo(n, sk, kern, un2, keys, gen, s, new, sock0, r)
  BY Adjusts DEF AdjustsTo

(* The descriptor of a socket, and what is known of both. *)
LEMMA FineSock ==
  ASSUME NEW n, NEW sk, NEW kern, NEW un, NEW keys, NEW gen,
         Fine(backend, n, sk, kern, un, keys, gen), NEW s \in Socks, sk[s].fd # NoFd
  PROVE  /\ sk[s] \in SockStates /\ sk[s].fd \in Fds /\ kern[sk[s].fd] \in FdStates
         /\ Allowed(sk[s], kern[sk[s].fd].phase, s \in un)
         /\ sk \in [Socks -> SockStates] /\ kern \in [Fds -> FdStates]
  <1>1. /\ sk \in [Socks -> SockStates] /\ kern \in [Fds -> FdStates]
        /\ SockOk(backend, n, sk[s], kern, s \in un)
    BY DEF Fine
  <1>2. sk[s].fd \in Fds
    BY <1>1 DEF SockStates
  <1> QED BY <1>1, <1>2 DEF SockOk, Serves, Allowed

(* connect, on a descriptor that is there. *)
ConnDone(sock, outcome) ==
  [sock EXCEPT !.state = IF outcome = "up" THEN "CONNECTED"
                         ELSE IF outcome = "connecting" THEN "CONNECTING" ELSE @]

ConnNew(sock, outcome) ==
  [ConnDone(sock, outcome) EXCEPT !.enabled =
     IF outcome = "refused" THEN @
     ELSE @ \union {DE_READ, DE_WRITE} \union (IF outcome = "connecting" THEN {DE_CONNECT} ELSE {})]

ConnKernel(sock, kern, outcome) ==
  MaybeUpdateDispatcher([kern EXCEPT ![sock.fd].phase = IF outcome = "refused" THEN @ ELSE outcome],
                        ConnDone(sock, outcome), ConnNew(sock, outcome))

ConnectsTo(n, sk, kern, un, keys, gen, s, outcome) ==
  /\ Fine(backend, n, [sk EXCEPT ![s] = ConnNew(sk[s], outcome)],
          ConnKernel(sk[s], kern, outcome), un, keys, gen)
  /\ ConnNew(sk[s], outcome).saved = sk[s].saved

LEMMA Connects ==
  ASSUME NEW n, NEW sk, NEW kern, NEW un, NEW keys, NEW gen,
         Fine(backend, n, sk, kern, un, keys, gen), NEW s \in Socks, sk[s].fd # NoFd,
         NEW outcome \in {"up", "connecting", "refused"}, kern[sk[s].fd].phase \in {"new", "up"}
  PROVE  ConnectsTo(n, sk, kern, un, keys, gen, s, outcome)
  <1> DEFINE os == sk[s]
             f == os.fd
             p == IF outcome = "refused" THEN kern[f].phase ELSE outcome
             r == [kern[f] EXCEPT !.phase = p]
             done == ConnDone(os, outcome)
             new == ConnNew(os, outcome)
             st == IF outcome = "up" THEN "CONNECTED" ELSE IF outcome = "connecting" THEN "CONNECTING" ELSE os.state
             e == IF outcome = "refused" THEN done.enabled
                  ELSE done.enabled \union {DE_READ, DE_WRITE}
                         \union (IF outcome = "connecting" THEN {DE_CONNECT} ELSE {})
  <1>1. /\ os \in SockStates /\ f \in Fds /\ kern[f] \in FdStates
        /\ Allowed(os, kern[f].phase, s \in un)
        /\ sk \in [Socks -> SockStates] /\ kern \in [Fds -> FdStates]
    BY FineSock
  <1>2. st \in {"CLOSED", "CONNECTING", "CONNECTED"}
    BY <1>1 DEF SockStates
  <1>3. done = [os EXCEPT !.state = st]
    BY DEF ConnDone
  <1>4. new = [done EXCEPT !.enabled = e]
    BY DEF ConnNew
  <1> HIDE DEF st, done
  <1>5. /\ done \in SockStates /\ SameFd(os, done) /\ done.enabled = os.enabled /\ done.state = st
        /\ done.udp = os.udp
    BY <1>1, <1>2, <1>3, SetState
  <1>6. e \in SUBSET Events
    BY <1>5 DEF SockStates, Events
  <1> HIDE DEF e, new
  <1>7. new \in SockStates /\ SameFd(done, new) /\ new.enabled = e /\ new.state = done.state
    BY <1>4, <1>5, <1>6, SetEnabled
  <1>8. SameFd(os, new)
    BY <1>5, <1>7 DEF SameFd
  <1>9. p \in {"new", "up", "connecting"} /\ (p = "new" => outcome = "refused") /\ p # "free"
    OBVIOUS
  <1>10. SameWatch(kern[f], r) /\ r.phase = p
    BY <1>1, <1>9 DEF SameWatch, FdStates
  <1>11. Allowed(new, p, s \in un)
    <2>1. CASE outcome = "refused"
      <3>1. new.enabled = os.enabled /\ new.state = os.state /\ p = kern[f].phase
        BY <1>5, <1>7, <2>1 DEF e, st
      <3> QED BY <1>1, <3>1 DEF Allowed
    <2>2. CASE outcome # "refused"
      <3>1. DE_READ \in new.enabled /\ p \notin {"new", "listening", "free"}
        BY <1>7, <1>9, <2>2 DEF e
      <3> QED BY <3>1 DEF Allowed
    <2> QED BY <2>1, <2>2
  <1> HIDE DEF r, p
  <1>12. AdjustsTo(n, sk, kern, un, keys, gen, s, new, done, r)
    <2>1. sk[s].fd # NoFd /\ done.enabled = sk[s].enabled /\ SameFd(sk[s], new)
          /\ SameWatch(kern[sk[s].fd], r) /\ Allowed(new, r.phase, s \in un) /\ un \subseteq un \union {s}
      BY <1>5, <1>8, <1>10, <1>11
    <2> HIDE DEF f, os
    <2> QED BY <1>7, <2>1, Adjusted
  <1>13. [kern EXCEPT ![f].phase = IF outcome = "refused" THEN @ ELSE outcome] = [kern EXCEPT ![f] = r]
    BY DEF r, p
  <1>14. ConnKernel(os, kern, outcome) = MaybeUpdateDispatcher([kern EXCEPT ![f] = r], done, new)
    BY <1>13 DEF ConnKernel, done, new
  <1> QED BY <1>8, <1>12, <1>14 DEF ConnectsTo, AdjustsTo, SameFd, new

(* DoConnect, for a socket that is sock: only resolving may have changed. *)
LEMMA DoConnectKeeps ==
  ASSUME ServerInv, NEW s \in Socks, NEW sock \in SockStates, SameFd(socks[s], sock),
         sock.enabled = socks[s].enabled, sock.state = socks[s].state, sock.udp = socks[s].udp,
         DoConnect(s, sock), UNCHANGED <<backend, loop, todo, polled, batch, stray>>
  PROVE  ServerInv'
  <1> DEFINE gen == polled.gen
  <1>1. /\ Fine(backend, nextKey, socks, kernel, unread, todo, gen)
        /\ socks \in [Socks -> SockStates] /\ SockOk(backend, nextKey, socks[s], kernel, s \in unread)
    BY SocksFine
  <1> DEFINE o == IF sock.fd # NoFd THEN [sock |-> sock, kernel |-> kernel]
                  ELSE Opened(sock, FALSE, {}, "new")
             n == IF sock.fd = NoFd THEN nextKey + 1 ELSE nextKey
  <1>2. PICK outcome \in {"up", "connecting", "refused"} :
          /\ o.kernel[o.sock.fd].phase \in {"new", "up"}
          /\ socks' = [socks EXCEPT ![s] = ConnNew(o.sock, outcome)]
          /\ kernel' = ConnKernel(o.sock, o.kernel, outcome)
    BY DEF DoConnect, ConnNew, ConnKernel, ConnDone
  <1>3. (sock.fd # NoFd \/ CanOpen) /\ nextKey' = n /\ unread' = unread
    BY DEF DoConnect
  <1> DEFINE sk == [socks EXCEPT ![s] = o.sock]
  <1>4. /\ Fine(backend, n, sk, o.kernel, unread, todo, gen) /\ o.sock.fd # NoFd
        /\ o.sock.saved = socks[s].saved
    <2>1. CASE sock.fd # NoFd
      <3>1. o.sock = sock /\ o.kernel = kernel /\ n = nextKey
        BY <2>1
      <3>2. Fine(backend, nextKey, [socks EXCEPT ![s] = sock], kernel, unread, todo, gen)
        BY <1>1, Relabels
      <3>3. sock.saved = socks[s].saved
        BY DEF SameFd
      <3> HIDE DEF o, n, gen
      <3> QED BY <2>1, <3>1, <3>2, <3>3
    <2>2. CASE sock.fd = NoFd
      <3>1. o = Opened(sock, FALSE, {}, "new") /\ n = nextKey + 1
        BY <2>2
      <3>2. socks[s].fd = NoFd /\ sock.saved = socks[s].saved
        BY <2>2 DEF SameFd
      <3>3. MayOpen(sock, {}, "new")
        BY <1>1, <3>2 DEF SockOk, MayOpen
      <3>4. unread \subseteq unread \union {s} /\ {} \in SUBSET Events
        OBVIOUS
      <3>5. CanOpen
        BY <1>3, <2>2
      <3> HIDE DEF gen, o, n
      <3>6. OpensAs(socks, unread, todo, gen, s, sock, FALSE, {}, "new")
        BY <1>1, <3>2, <3>3, <3>4, <3>5, Opens
      <3>7. /\ OpenedAs(o, sock, FALSE, {}, "new")
            /\ Fine(backend, nextKey + 1, [socks EXCEPT ![s] = o.sock], o.kernel, unread, todo, gen)
        BY <3>1, <3>6 DEF OpensAs
      <3> QED BY <3>1, <3>2, <3>7, NoFdNotUsed DEF OpenedAs
    <2> QED BY <2>1, <2>2
  <1> HIDE DEF o, n, gen
  <1>5. sk[s] = o.sock /\ [sk EXCEPT ![s] = ConnNew(o.sock, outcome)] = [socks EXCEPT ![s] = ConnNew(o.sock, outcome)]
    <2> HIDE DEF ConnNew
    <2> QED BY <1>1
  <1> HIDE DEF sk
  <1>6. ConnectsTo(n, sk, o.kernel, unread, todo, gen, s, outcome)
    <2>1. sk[s].fd # NoFd /\ o.kernel[sk[s].fd].phase \in {"new", "up"}
      BY <1>2, <1>4, <1>5
    <2> QED BY <1>4, <2>1, Connects
  <1>7. /\ Fine(backend, n, socks', kernel', unread, todo, gen)
        /\ ConnNew(o.sock, outcome).saved = socks[s].saved
    BY <1>2, <1>4, <1>5, <1>6 DEF ConnectsTo
  <1>8. \A t \in Socks : socks'[t].saved # {} => socks[t].saved # {}
    BY <1>1, <1>2, <1>7, OneSaved
  <1> QED BY <1>3, <1>7, <1>8, CallKeeps DEF gen

LEMMA ConnectKeeps ==
  ASSUME ServerInv, NEW s \in Socks, NEW name \in BOOLEAN, Connect(s, name)
  PROVE  ServerInv'
  <1>1. socks \in [Socks -> SockStates] /\ socks[s] \in SockStates
        /\ Fine(backend, nextKey, socks, kernel, unread, todo, polled.gen)
    BY SocksFine
  <1>2. UNCHANGED <<backend, loop, todo, polled, batch, stray>>
    BY DEF Connect, CallHere
  <1>3. CASE name
    <2> DEFINE t1 == [socks[s] EXCEPT !.resolving = TRUE]
               t2 == [t1 EXCEPT !.state = "CONNECTING"]
    <2>1. /\ socks' = [socks EXCEPT ![s].resolving = TRUE, ![s].state = "CONNECTING"]
          /\ UNCHANGED <<kernel, nextKey, unread>>
      BY <1>3 DEF Connect
    <2>2. socks' = [socks EXCEPT ![s] = t2]
      BY <1>1, <2>1
    <2>3. t1 \in SockStates /\ SameFd(socks[s], t1) /\ t1.enabled = socks[s].enabled
      BY <1>1, SetResolving
    <2> HIDE DEF t1
    <2>4. t2 \in SockStates /\ SameFd(t1, t2) /\ t2.enabled = t1.enabled /\ t2.state = "CONNECTING"
      BY <2>3, SetState
    <2> HIDE DEF t2
    <2>5. SameFd(socks[s], t2) /\ t2.enabled = socks[s].enabled /\ t2.saved = socks[s].saved
      BY <2>3, <2>4 DEF SameFd
    <2>6. Fine(backend, nextKey, [socks EXCEPT ![s] = t2], kernel, unread, todo, polled.gen)
      BY <1>1, <2>4, <2>5, Relabels
    <2>7. \A t \in Socks : socks'[t].saved # {} => socks[t].saved # {}
      BY <1>1, <2>2, <2>5, OneSaved
    <2> QED BY <1>2, <2>1, <2>2, <2>6, <2>7, CallKeeps
  <1>4. CASE ~name
    <2>1. DoConnect(s, socks[s]) /\ SameFd(socks[s], socks[s])
      BY <1>4 DEF Connect, SameFd
    <2> QED BY <1>1, <1>2, <2>1, DoConnectKeeps
  <1> QED BY <1>3, <1>4

LEMMA OnResolveResultKeeps ==
  ASSUME ServerInv, NEW s \in Socks, NEW ok \in BOOLEAN, OnResolveResult(s, ok)
  PROVE  ServerInv'
  <1>1. UNCHANGED <<backend, loop, todo, polled, batch, stray>> /\ socks[s] \in SockStates
    BY SocksFine DEF OnResolveResult, CallHere
  <1>2. CASE ok
    <2> DEFINE sock == [socks[s] EXCEPT !.resolving = FALSE]
    <2>1. DoConnect(s, sock)
      BY <1>2 DEF OnResolveResult
    <2>2. /\ sock \in SockStates /\ SameFd(socks[s], sock) /\ sock.enabled = socks[s].enabled
          /\ sock.state = socks[s].state /\ sock.udp = socks[s].udp
      BY <1>1, SetResolving
    <2> HIDE DEF sock
    <2> QED BY <1>1, <2>1, <2>2, DoConnectKeeps
  <1>3. CASE ~ok
    <2>1. CloseWith(s, socks[s]) /\ UNCHANGED nextKey
      BY <1>3 DEF OnResolveResult
    <2>2. CASE socks[s].alive
      BY <1>1, <2>1, <2>2, CloseKeeps
    <2>3. CASE ~socks[s].alive
      <3>1. socks[s].fd = NoFd
        BY <2>3, SocksFine DEF SockOk
      <3>2. socks' = [socks EXCEPT ![s] = socks[s]] /\ UNCHANGED <<kernel, unread>>
        BY <2>1, <3>1 DEF CloseWith
      <3>3. socks' = socks
        BY <3>2, SocksFine
      <3> QED BY <1>1, <2>1, <3>2, <3>3, CallKeeps, SocksFine
    <2> QED BY <2>2, <2>3
  <1> QED BY <1>2, <1>3

LEMMA ListenKeeps ==
  ASSUME ServerInv, NEW s \in Socks, Listen(s)
  PROVE  ServerInv'
  <1> DEFINE f == socks[s].fd
             sock == [socks[s] EXCEPT !.state = "CONNECTING"]
             new == [sock EXCEPT !.enabled = @ \union {DE_ACCEPT}]
             r == [kernel[f] EXCEPT !.phase = "listening"]
  <1>1. /\ f # NoFd /\ kernel[f].phase = "new" /\ UNCHANGED <<nextKey, unread>>
        /\ UNCHANGED <<backend, loop, todo, polled, batch, stray>>
        /\ socks' = [socks EXCEPT ![s] = new]
        /\ kernel' = MaybeUpdateDispatcher([kernel EXCEPT ![sock.fd].phase = "listening"], sock, new)
    BY DEF Listen, CallHere
  <1>2. /\ Fine(backend, nextKey, socks, kernel, unread, todo, polled.gen) /\ socks[s] \in SockStates
        /\ socks \in [Socks -> SockStates] /\ kernel[f] \in FdStates /\ f \in Fds
        /\ Serves(backend, nextKey, socks[s], kernel[f], s \in unread)
    BY <1>1, SocksFine
  <1>3. /\ sock \in SockStates /\ SameFd(socks[s], sock) /\ sock.enabled = socks[s].enabled
        /\ sock.state = "CONNECTING"
    BY <1>2, SetState
  <1>4. sock.enabled = {} /\ {DE_ACCEPT} \in SUBSET Events
    BY <1>1, <1>2, <1>3 DEF Serves, Events
  <1> HIDE DEF sock
  <1>5. new = [sock EXCEPT !.enabled = {DE_ACCEPT}]
    BY <1>4
  <1> HIDE DEF new
  <1>6. new \in SockStates /\ SameFd(sock, new) /\ new.enabled = {DE_ACCEPT} /\ new.state = "CONNECTING"
    BY <1>3, <1>4, <1>5, SetEnabled
  <1>7. SameFd(socks[s], new) /\ new.saved = socks[s].saved /\ sock.fd = f
    BY <1>3, <1>6 DEF SameFd
  <1>8. SameWatch(kernel[f], r) /\ r.phase = "listening"
    BY <1>2 DEF SameWatch, FdStates
  <1>9. [kernel EXCEPT ![sock.fd].phase = "listening"] = [kernel EXCEPT ![f] = r]
    BY <1>7
  <1> HIDE DEF r
  <1>10. Allowed(new, r.phase, s \in unread)
    BY <1>6, <1>8 DEF Allowed, DE_ACCEPT, DE_CONNECT
  <1>11. AdjustsTo(nextKey, socks, kernel, unread, todo, polled.gen, s, new, sock, r)
    <2>1. unread \subseteq unread \union {s}
      OBVIOUS
    <2> QED BY <1>1, <1>2, <1>3, <1>6, <1>7, <1>8, <1>10, <2>1, Adjusted
  <1>12. Fine(backend, nextKey, socks', kernel', unread, todo, polled.gen)
    BY <1>1, <1>9, <1>11 DEF AdjustsTo
  <1>13. \A t \in Socks : socks'[t].saved # {} => socks[t].saved # {}
    BY <1>1, <1>2, <1>7, OneSaved
  <1> QED BY <1>1, <1>12, <1>13, CallKeeps

(* A call that sets the events of a socket, when its descriptor has become r. *)
Sets(s, e, r, un2) ==
  LET new == [socks[s] EXCEPT !.enabled = e]
  IN  /\ socks' = [socks EXCEPT ![s] = new]
      /\ kernel' = MaybeUpdateDispatcher([kernel EXCEPT ![socks[s].fd] = r], socks[s], new)
      /\ unread' = un2 /\ unread \subseteq un2 \union {s}
      /\ SameWatch(kernel[socks[s].fd], r) /\ Allowed(new, r.phase, s \in un2)

LEMMA SetsKeeps ==
  ASSUME ServerInv, NEW s \in Socks, socks[s].fd # NoFd, NEW e \in SUBSET Events, NEW r, NEW un2,
         Sets(s, e, r, un2)
  PROVE  /\ Fine(backend, nextKey, socks', kernel', unread', todo, polled.gen)
         /\ \A t \in Socks : socks'[t].saved = socks[t].saved
  <1> DEFINE new == [socks[s] EXCEPT !.enabled = e]
  <1>1. /\ socks' = [socks EXCEPT ![s] = new]
        /\ kernel' = MaybeUpdateDispatcher([kernel EXCEPT ![socks[s].fd] = r], socks[s], new)
        /\ unread' = un2 /\ unread \subseteq un2 \union {s}
        /\ SameWatch(kernel[socks[s].fd], r) /\ Allowed(new, r.phase, s \in un2)
    BY DEF Sets
  <1>2. /\ Fine(backend, nextKey, socks, kernel, unread, todo, polled.gen) /\ socks[s] \in SockStates
        /\ socks \in [Socks -> SockStates]
    BY SocksFine
  <1>3. new \in SockStates /\ SameFd(socks[s], new)
    BY <1>2, SetEnabled
  <1> HIDE DEF new
  <1>4. AdjustsTo(nextKey, socks, kernel, un2, todo, polled.gen, s, new, socks[s], r)
    BY <1>1, <1>2, <1>3, Adjusted
  <1>5. new.saved = socks[s].saved
    BY <1>3 DEF SameFd
  <1>6. \A t \in Socks : socks'[t].saved = socks[t].saved
    BY <1>1, <1>2, <1>5
  <1> QED BY <1>1, <1>4, <1>6 DEF AdjustsTo

LEMMA AllowedSet ==
  ASSUME NEW sock \in SockStates, NEW e \in SUBSET Events, NEW p, NEW u,
         p \notin {"free", "new", "listening"}, NEW v, Allowed(sock, v, u),
         sock.enabled \subseteq e, NEW w, DE_READ \in e \/ w \/ (e = sock.enabled \union {DE_WRITE} /\ w = u)
  PROVE  Allowed([sock EXCEPT !.enabled = e], p, w)
  <1> DEFINE new == [sock EXCEPT !.enabled = e]
  <1>1. new.enabled = e /\ new.state = sock.state
    BY SetEnabled
  <1> HIDE DEF new
  <1>2. DE_CONNECT # DE_WRITE
    BY DEF DE_CONNECT, DE_WRITE
  <1>3. new.state = "CONNECTED" \/ DE_CONNECT \in new.enabled => DE_READ \in new.enabled \/ w
    BY <1>1, <1>2 DEF Allowed
  <1>4. Allowed(new, p, w)
    BY <1>3 DEF Allowed
  <1> QED BY <1>4 DEF new

LEMMA SendKeeps ==
  ASSUME ServerInv, NEW s \in Socks, NEW all \in BOOLEAN, Send(s, all)
  PROVE  ServerInv'
  <1> DEFINE f == socks[s].fd
             e == socks[s].enabled \union {DE_WRITE}
             r == [kernel[f] EXCEPT !.room = FALSE]
  <1>1. /\ f # NoFd /\ kernel[f].phase = "up" /\ UNCHANGED <<nextKey, unread>>
        /\ UNCHANGED <<backend, loop, todo, polled, batch, stray>>
    BY DEF Send, CallHere
  <1>2. /\ Fine(backend, nextKey, socks, kernel, unread, todo, polled.gen) /\ socks[s] \in SockStates
        /\ kernel[f] \in FdStates /\ f \in Fds /\ Allowed(socks[s], kernel[f].phase, s \in unread)
    BY <1>1, SocksFine, FineSock
  <1>3. CASE all
    <2>1. UNCHANGED <<socks, kernel>>
      BY <1>3 DEF Send
    <2> QED BY <1>1, <1>2, <2>1, CallKeeps
  <1>4. CASE ~all
    <2> DEFINE new == [socks[s] EXCEPT !.enabled = e]
    <2>1. /\ socks' = [socks EXCEPT ![s] = new]
          /\ kernel' = MaybeUpdateDispatcher([kernel EXCEPT ![new.fd].room = FALSE], socks[s], new)
      BY <1>4 DEF Send
    <2>2. e \in SUBSET Events
      BY <1>2 DEF SockStates, Events
    <2>3. new.fd = f
      BY <1>2, <2>2, SetEnabled DEF SameFd
    <2>4. [kernel EXCEPT ![f].room = FALSE] = [kernel EXCEPT ![f] = r]
      OBVIOUS
    <2>5. SameWatch(kernel[f], r) /\ r.phase = "up"
      BY <1>1, <1>2 DEF SameWatch, FdStates
    <2>6. Allowed(new, "up", s \in unread)
      <3>1. socks[s].enabled \subseteq e /\ "up" \notin {"free", "new", "listening"}
        OBVIOUS
      <3> QED BY <1>2, <2>2, <3>1, AllowedSet
    <2>7. Sets(s, e, r, unread)
      <3>1. unread \subseteq unread \union {s}
        OBVIOUS
      <3> HIDE DEF r
      <3> QED BY <1>1, <2>1, <2>3, <2>4, <2>5, <2>6, <3>1 DEF Sets
    <2> HIDE DEF e, r, new
    <2>8. /\ Fine(backend, nextKey, socks', kernel', unread', todo, polled.gen)
          /\ \A t \in Socks : socks'[t].saved = socks[t].saved
      BY <1>1, <2>2, <2>7, SetsKeeps
    <2> QED BY <1>1, <2>8, CallKeeps
  <1> QED BY <1>3, <1>4

LEMMA RecvKeeps ==
  ASSUME ServerInv, NEW s \in Socks, Recv(s)
  PROVE  ServerInv'
  <1> DEFINE f == socks[s].fd
             failed == kernel[f].phase = "error" /\ ~kernel[f].data
             on == RecvEnables(s, failed)
             e == IF on THEN socks[s].enabled \union {DE_READ} ELSE socks[s].enabled
             un2 == IF on THEN unread \ {s} ELSE unread \union {s}
             p == IF failed THEN "eof" ELSE kernel[f].phase
             r0 == [kernel[f] EXCEPT !.data = FALSE]
             r == [r0 EXCEPT !.phase = p]
             new == [socks[s] EXCEPT !.enabled = e]
  <1>1. /\ f # NoFd /\ kernel[f].phase \in {"up", "eof", "error"} /\ UNCHANGED <<nextKey>>
        /\ UNCHANGED <<backend, loop, todo, polled, batch, stray>>
    BY DEF Recv, CallHere
  <1>2. /\ Fine(backend, nextKey, socks, kernel, unread, todo, polled.gen) /\ socks[s] \in SockStates
        /\ kernel[f] \in FdStates /\ f \in Fds /\ Allowed(socks[s], kernel[f].phase, s \in unread)
        /\ kernel \in [Fds -> FdStates]
    BY <1>1, SocksFine, FineSock
  <1>3. /\ socks' = [socks EXCEPT ![s] = new]
        /\ kernel' = MaybeUpdateDispatcher([kernel EXCEPT ![f].data = FALSE, ![f].phase = IF failed THEN "eof" ELSE @], socks[s], new)
        /\ unread' = un2
    BY DEF Recv
  <1>4. e \in SUBSET Events /\ socks[s].enabled \subseteq e /\ (DE_READ \in e \/ s \in un2)
    BY <1>2 DEF SockStates, Events
  <1>5. p \in {"up", "eof", "error"} /\ unread \subseteq un2 \union {s}
    BY <1>1
  <1>6. [kernel EXCEPT ![f].data = FALSE, ![f].phase = IF failed THEN "eof" ELSE @] = [kernel EXCEPT ![f] = r]
    <2> DEFINE a == [kernel EXCEPT ![f].data = FALSE, ![f].phase = IF failed THEN "eof" ELSE @]
               b == [kernel EXCEPT ![f] = r]
    <2>0. r0.phase = kernel[f].phase
      BY <1>2 DEF FdStates
    <2>1. a[f] = [r0 EXCEPT !.phase = IF failed THEN "eof" ELSE @]
      BY <1>2
    <2>2. a[f] = r
      BY <2>0, <2>1
    <2>3. a = [g \in Fds |-> a[g]] /\ \A g \in Fds : g # f => a[g] = kernel[g]
      BY <1>2
    <2>4. b = [g \in Fds |-> b[g]] /\ b[f] = r /\ \A g \in Fds : g # f => b[g] = kernel[g]
      BY <1>2
    <2> HIDE DEF a, b, r
    <2>5. \A g \in Fds : a[g] = b[g]
      BY <2>2, <2>3, <2>4
    <2>6. a = b
      BY <2>3, <2>4, <2>5
    <2> QED BY <2>6 DEF a, b
  <1> HIDE DEF e, un2, p
  <1>7. r0 \in FdStates /\ r0.gen = kernel[f].gen /\ r0.interest = kernel[f].interest /\ r0.key = kernel[f].key
    BY <1>2 DEF FdStates
  <1> HIDE DEF r0
  <1>8. SameWatch(kernel[f], r) /\ r.phase = p
    BY <1>5, <1>7 DEF SameWatch, FdStates
  <1>9. Allowed(new, p, s \in un2)
    <2>1. p \notin {"free", "new", "listening"}
      BY <1>5
    <2> QED BY <1>2, <1>4, <2>1, AllowedSet
  <1> HIDE DEF r
  <1>10. Sets(s, e, r, un2)
    BY <1>3, <1>5, <1>6, <1>8, <1>9 DEF Sets
  <1>11. /\ Fine(backend, nextKey, socks', kernel', unread', todo, polled.gen)
         /\ \A t \in Socks : socks'[t].saved = socks[t].saved
    BY <1>1, <1>4, <1>10, SetsKeeps
  <1> QED BY <1>1, <1>11, CallKeeps

(* The listening socket, when somebody was accepted or nobody was there. *)
Mine(s) == [socks[s] EXCEPT !.enabled = @ \union {DE_ACCEPT}]

Follows(k, sock0, sock, m) ==
  /\ Updated(backend, k, m, sock)
  /\ sock.saved # {} => m = k
  /\ /\ backend = "epoll" /\ sock.fd # NoFd /\ sock.key > 0 /\ sock.saved = {}
     /\ k[sock.fd].interest = EpollEvents(sock0.enabled)
     => m[sock.fd].interest = EpollEvents(sock.enabled)

LEMMA DispatcherFollows ==
  ASSUME NEW k \in [Fds -> FdStates], NEW sock0, NEW sock \in SockStates
  PROVE  Follows(k, sock0, sock, MaybeUpdateDispatcher(k, sock0, sock))
  BY DispatcherIs DEF Follows

LEMMA ListenerIs ==
  ASSUME ServerInv, NEW s \in Socks, socks[s].fd # NoFd, kernel[socks[s].fd].phase = "listening"
  PROVE  /\ Mine(s) \in SockStates /\ SameFd(socks[s], Mine(s))
         /\ Mine(s).enabled = socks[s].enabled \union {DE_ACCEPT}
         /\ socks[s].enabled \union {DE_ACCEPT} \in SUBSET Events
         /\ \A u : Allowed(Mine(s), "listening", u)
  <1>1. socks[s] \in SockStates /\ Serves(backend, nextKey, socks[s], kernel[socks[s].fd], s \in unread)
    BY SocksFine
  <1> DEFINE e == socks[s].enabled \union {DE_ACCEPT}
  <1>2. e \in SUBSET Events /\ e \subseteq {DE_ACCEPT} /\ socks[s].state # "CONNECTED"
    BY <1>1 DEF SockStates, Events, Serves
  <1>3. Mine(s) = [socks[s] EXCEPT !.enabled = e]
    BY DEF Mine
  <1> HIDE DEF e
  <1>4. Mine(s) \in SockStates /\ SameFd(socks[s], Mine(s)) /\ Mine(s).enabled = e
        /\ Mine(s).state = socks[s].state
    BY <1>1, <1>2, <1>3, SetEnabled
  <1>5. \A u : Allowed(Mine(s), "listening", u)
    BY <1>2, <1>4 DEF Allowed, DE_ACCEPT, DE_CONNECT
  <1> QED BY <1>2, <1>4, <1>5 DEF e

LEMMA NobodyKeeps ==
  ASSUME ServerInv, NEW s \in Socks, socks[s].fd # NoFd, kernel[socks[s].fd].phase = "listening",
         socks' = [socks EXCEPT ![s] = Mine(s)],
         kernel' = MaybeUpdateDispatcher(kernel, socks[s], Mine(s)), UNCHANGED nextKey,
         unread' = unread \ {s}, UNCHANGED <<backend, loop, todo, polled, batch, stray>>
  PROVE  ServerInv'
  <1> DEFINE f == socks[s].fd
             e == socks[s].enabled \union {DE_ACCEPT}
             r == kernel[f]
  <1>1. /\ Mine(s) \in SockStates /\ SameFd(socks[s], Mine(s)) /\ e \in SUBSET Events
        /\ Allowed(Mine(s), "listening", s \in unread \ {s})
    BY ListenerIs
  <1>2. kernel \in [Fds -> FdStates] /\ f \in Fds /\ r \in FdStates
    BY SocksFine
  <1>3. Mine(s) = [socks[s] EXCEPT !.enabled = e]
    BY DEF Mine
  <1>4. kernel = [kernel EXCEPT ![f] = r]
    BY <1>2
  <1>5. SameWatch(kernel[f], r) /\ r.phase = "listening" /\ unread \subseteq (unread \ {s}) \union {s}
    BY <1>2 DEF SameWatch
  <1> HIDE DEF e, r
  <1>6. Sets(s, e, r, unread \ {s})
    BY <1>1, <1>3, <1>4, <1>5 DEF Sets
  <1>7. /\ Fine(backend, nextKey, socks', kernel', unread', todo, polled.gen)
        /\ \A t \in Socks : socks'[t].saved = socks[t].saved
    BY <1>1, <1>6, SetsKeeps
  <1> QED BY <1>7, CallKeeps

LEMMA SomebodyKeeps ==
  ASSUME ServerInv, NEW s \in Socks, socks[s].fd # NoFd, kernel[socks[s].fd].phase = "listening",
         NEW c \in Socks, ~socks[c].alive, CanOpen,
         LET o == Opened(NoSock, FALSE, {DE_READ, DE_WRITE}, "up")
             k == MaybeUpdateDispatcher(kernel, socks[s], Mine(s))
         IN  /\ socks' = [socks EXCEPT ![s] = Mine(s), ![c] = o.sock]
             /\ kernel' = [o.kernel EXCEPT ![socks[s].fd] = [k[socks[s].fd] EXCEPT !.data = FALSE]],
         nextKey' = nextKey + 1, unread' = unread \ {s},
         UNCHANGED <<backend, loop, todo, polled, batch, stray>>
  PROVE  ServerInv'
  <1> DEFINE f == socks[s].fd
             ev == {DE_READ, DE_WRITE}
             o == Opened(NoSock, FALSE, ev, "up")
             k == MaybeUpdateDispatcher(kernel, socks[s], Mine(s))
             r == [k[f] EXCEPT !.data = FALSE]
             sk == [socks EXCEPT ![c] = o.sock]
             kern2 == [o.kernel EXCEPT ![f] = r]
             n == nextKey + 1
             mine == Mine(s)
             un2 == unread \ {s}
  <1>1. socks' = [socks EXCEPT ![s] = mine, ![c] = o.sock] /\ kernel' = kern2
    OBVIOUS
  <1>2. /\ socks[c].fd = NoFd /\ c # s /\ Fine(backend, nextKey, socks, kernel, unread, todo, polled.gen)
        /\ socks \in [Socks -> SockStates] /\ kernel \in [Fds -> FdStates] /\ f \in Fds /\ f # NoFd
        /\ nextKey \in Nat \ {0} /\ kernel[f] \in FdStates
        /\ Serves(backend, nextKey, socks[s], kernel[f], s \in unread)
        /\ SockOk(backend, nextKey, socks[s], kernel, s \in unread)
    <2>1. socks[c].fd = NoFd
      BY SocksFine DEF SockOk
    <2> QED BY <2>1, SocksFine
  <1>3. /\ NoSock \in SockStates /\ NoSock.saved = {} /\ NoSock.state = "CLOSED"
    BY NoFdNotUsed DEF NoSock, SockStates
  <1>4. ev \in SUBSET Events /\ DE_READ \in ev /\ DE_CONNECT \notin ev
    BY DEF Events, DE_READ, DE_WRITE, DE_CONNECT
  <1>5. MayOpen(NoSock, ev, "up") /\ unread \subseteq unread \union {c}
    BY <1>3, <1>4 DEF MayOpen
  <1> HIDE DEF ev, o
  <1>6. /\ OpenedAs(o, NoSock, FALSE, ev, "up")
        /\ Fine(backend, n, sk, o.kernel, unread, todo, polled.gen)
    <2>1. OpensAs(socks, unread, todo, polled.gen, c, NoSock, FALSE, ev, "up")
      BY <1>2, <1>3, <1>4, <1>5, Opens
    <2> QED BY <2>1 DEF OpensAs, o
  <1>7. /\ sk[s] = socks[s] /\ f # o.sock.fd /\ o.kernel[f] = kernel[f] /\ o.sock.saved = {}
        /\ o.kernel \in [Fds -> FdStates]
    BY <1>2, <1>3, <1>6 DEF OpenedAs
  <1>8. [sk EXCEPT ![s] = mine] = socks'
    BY <1>1, <1>2
  <1>9. /\ mine \in SockStates /\ SameFd(socks[s], mine) /\ Allowed(mine, "listening", s \in un2)
        /\ mine.enabled = socks[s].enabled \union {DE_ACCEPT}
    BY ListenerIs
  <1>10. mine.fd = f /\ mine.key = socks[s].key /\ mine.saved = socks[s].saved /\ mine.alive = socks[s].alive
    BY <1>9 DEF SameFd
  <1> HIDE DEF f, mine
  <1>11. /\ Updated(backend, kernel, k, mine)
         /\ mine.saved # {} => k = kernel
         /\ /\ backend = "epoll" /\ mine.fd # NoFd /\ mine.key > 0 /\ mine.saved = {}
            /\ kernel[mine.fd].interest = EpollEvents(socks[s].enabled)
            => k[mine.fd].interest = EpollEvents(mine.enabled)
    <2>1. k = MaybeUpdateDispatcher(kernel, socks[s], mine)
      BY DEF mine
    <2> HIDE DEF k
    <2>2. Follows(kernel, socks[s], mine, MaybeUpdateDispatcher(kernel, socks[s], mine))
      BY <1>2, <1>9, DispatcherFollows
    <2> QED BY <2>1, <2>2 DEF Follows
  <1> HIDE DEF k
  <1>12. k[f] \in FdStates /\ SameBut(kernel[f], k[f])
    BY <1>2, <1>11 DEF Updated
  <1>13. r \in FdStates /\ r.gen = kernel[f].gen /\ r.phase = "listening" /\ r.interest = k[f].interest
    <2>1. k[f].gen = kernel[f].gen /\ k[f].phase = "listening"
      BY <1>12 DEF SameBut, f
    <2> QED BY <1>12, <2>1 DEF FdStates
  <1>14. kern2 \in [Fds -> FdStates] /\ kern2[f] = r /\ \A g \in Fds : g # f => kern2[g] = o.kernel[g]
    BY <1>2, <1>7, <1>13
  <1> HIDE DEF r, kern2, sk, un2, n
  <1>15. backend = "epoll" => r.interest = EpollEvents(ToldOf(mine))
    <2> SUFFICES ASSUME backend = "epoll"
                 PROVE  r.interest = EpollEvents(ToldOf(mine))
      OBVIOUS
    <2>1. kernel[f].interest = EpollEvents(ToldOf(socks[s])) /\ socks[s].key > 0
      BY <1>2 DEF Serves
    <2>2. CASE mine.saved # {}
      <3>1. ToldOf(mine) = ToldOf(socks[s])
        BY <1>10, <2>2 DEF ToldOf
      <3> QED BY <1>11, <1>13, <2>1, <2>2, <3>1
    <2>3. CASE mine.saved = {}
      <3>1. ToldOf(socks[s]) = socks[s].enabled /\ ToldOf(mine) = mine.enabled
        BY <1>10, <2>3 DEF ToldOf
      <3> QED BY <1>2, <1>10, <1>11, <1>13, <2>1, <2>3, <3>1
    <2> QED BY <2>2, <2>3
  <1>16. Serves(backend, n, mine, kern2[f], s \in un2)
    <2>1. mine.key > 0 /\ mine.key < nextKey /\ mine.key \in Int /\ r.gen = mine.key
      BY <1>2, <1>9, <1>10, <1>13 DEF Serves, SockStates
    <2>2. mine.key < n
      BY <1>2, <2>1 DEF n
    <2> QED BY <1>9, <1>13, <1>14, <1>15, <2>1, <2>2 DEF Serves, Allowed
  <1>17. SockOk(backend, n, mine, kern2, s \in un2)
    <2>1. mine.alive /\ (mine.saved = {} \/ \E e \in SUBSET Events : mine.saved = {e})
      BY <1>2, <1>10 DEF SockOk, f
    <2> QED BY <1>2, <1>9, <1>10, <1>16, <2>1 DEF SockOk
  <1>18. SameOpening(mine, todo, polled.gen)
    <2>1. SameOpening(socks[s], todo, polled.gen)
      BY <1>2 DEF Fine
    <2> QED BY <1>10, <2>1 DEF SameOpening, f
  <1>19. Takes(sk, o.kernel, unread, s, mine, kern2, un2)
    <2>1. sk[s].fd = f /\ mine.fd = f /\ unread \subseteq un2 \union {s}
      BY <1>7, <1>10 DEF f, un2
    <2> QED BY <1>14, <2>1 DEF Takes
  <1>20. Fine(backend, n, [sk EXCEPT ![s] = mine], kern2, un2, todo, polled.gen)
    <2>1. n \in {n, n + 1} /\ n \in Nat /\ n <= n
      BY <1>2 DEF n
    <2>2. \A g \in Fds : KeyOk(n, o.kernel[g])
      BY <1>6 DEF Fine
    <2>3. r.interest = {} \/ KeyOk(n, r)
      <3>1. KeyOk(n, kernel[f])
        BY <1>2, <1>7, <2>2
      <3>2. r.key = k[f].key
        BY <1>12 DEF FdStates, r
      <3>3. mine.key > 0 /\ mine.key < n
        BY <1>16 DEF Serves
      <3> QED BY <1>2, <1>11, <1>13, <3>1, <3>2, <3>3 DEF Updated, KeyOk
    <2>4. \A g \in Fds : KeyOk(n, kern2[g])
      BY <1>14, <2>2, <2>3 DEF KeyOk
    <2> QED BY <1>6, <1>17, <1>18, <1>19, <2>1, <2>4, FineTakes
  <1>21. Fine(backend, nextKey', socks', kernel', unread', todo, polled.gen)
    BY <1>1, <1>8, <1>20 DEF n, un2
  <1>22. \A t \in Socks : socks'[t].saved # {} => socks[t].saved # {}
    BY <1>1, <1>2, <1>7, <1>10
  <1> QED BY <1>21, <1>22, CallKeeps

LEMMA AcceptKeeps ==
  ASSUME ServerInv, NEW s \in Socks, Accept(s)
  PROVE  ServerInv'
  <1> DEFINE f == socks[s].fd
             k == MaybeUpdateDispatcher(kernel, socks[s], Mine(s))
  <1>1. /\ f # NoFd /\ kernel[f].phase = "listening" /\ unread' = unread \ {s}
        /\ UNCHANGED <<backend, loop, todo, polled, batch, stray>>
    BY DEF Accept, CallHere
  <1>2. \/ /\ socks' = [socks EXCEPT ![s] = Mine(s)] /\ kernel' = k /\ UNCHANGED nextKey
        \/ \E c \in Socks :
             /\ ~socks[c].alive /\ CanOpen
             /\ LET o == Opened(NoSock, FALSE, {DE_READ, DE_WRITE}, "up")
                IN  /\ socks' = [socks EXCEPT ![s] = Mine(s), ![c] = o.sock]
                    /\ kernel' = [o.kernel EXCEPT ![f] = [k[f] EXCEPT !.data = FALSE]]
             /\ nextKey' = nextKey + 1
    BY DEF Accept, Mine
  <1>3. CASE socks' = [socks EXCEPT ![s] = Mine(s)] /\ kernel' = k /\ UNCHANGED nextKey
    BY <1>1, <1>3, NobodyKeeps
  <1>4. ASSUME NEW c \in Socks, ~socks[c].alive, CanOpen,
               LET o == Opened(NoSock, FALSE, {DE_READ, DE_WRITE}, "up")
               IN  /\ socks' = [socks EXCEPT ![s] = Mine(s), ![c] = o.sock]
                   /\ kernel' = [o.kernel EXCEPT ![f] = [k[f] EXCEPT !.data = FALSE]],
               nextKey' = nextKey + 1
        PROVE  ServerInv'
    BY <1>1, <1>4, SomebodyKeeps
  <1> QED BY <1>2, <1>3, <1>4

(* What comes from outside moves a descriptor only. *)
LEMMA OutsideKeeps ==
  ASSUME ServerInv, NEW f \in Fds, NEW r, Moved(kernel[f], r),
         kernel' = [kernel EXCEPT ![f] = r],
         UNCHANGED <<backend, socks, nextKey, loop, todo, polled, batch, unread, stray>>
  PROVE  ServerInv'
  <1>1. Fine(backend, nextKey, socks, kernel, unread, todo, polled.gen)
    BY DEF ServerInv
  <1>2. Fine(backend, nextKey, socks, [kernel EXCEPT ![f] = r], unread, todo, polled.gen)
    BY <1>1, FineMoved
  <1> QED BY <1>2 DEF ServerInv, Batched

LEMMA KernelTyped ==
  ASSUME ServerInv, NEW f \in Fds
  PROVE  kernel[f] \in FdStates
  BY DEF ServerInv, Fine

LEMMA ArrivesKeeps ==
  ASSUME ServerInv, NEW f \in Fds, Arrives(f) \/ Drains(f)
  PROVE  ServerInv'
  <1>0. kernel[f] \in FdStates
    BY KernelTyped
  <1>1. CASE Arrives(f)
    <2> DEFINE r == [kernel[f] EXCEPT !.data = TRUE]
    <2>1. kernel' = [kernel EXCEPT ![f] = r]
          /\ UNCHANGED <<backend, socks, nextKey, loop, todo, polled, batch, unread, stray>>
      BY <1>1 DEF Arrives, OutsideOnly
    <2>2. Moved(kernel[f], r)
      BY <1>0 DEF Moved, FdStates
    <2> HIDE DEF r
    <2> QED BY <2>1, <2>2, OutsideKeeps
  <1>2. CASE Drains(f)
    <2> DEFINE r == [kernel[f] EXCEPT !.room = TRUE]
    <2>1. kernel' = [kernel EXCEPT ![f] = r]
          /\ UNCHANGED <<backend, socks, nextKey, loop, todo, polled, batch, unread, stray>>
      BY <1>2 DEF Drains, OutsideOnly
    <2>2. Moved(kernel[f], r)
      BY <1>0 DEF Moved, FdStates
    <2> HIDE DEF r
    <2> QED BY <2>1, <2>2, OutsideKeeps
  <1> QED BY <1>1, <1>2

LEMMA PeerKeeps ==
  ASSUME ServerInv, NEW f \in Fds, NEW p \in {"up", "eof", "error"}, Peer(f, p)
  PROVE  ServerInv'
  <1> DEFINE r == [kernel[f] EXCEPT !.phase = p]
  <1>1. kernel' = [kernel EXCEPT ![f] = r]
        /\ UNCHANGED <<backend, socks, nextKey, loop, todo, polled, batch, unread, stray>>
    BY DEF Peer, OutsideOnly
  <1>2. Moved(kernel[f], r)
    BY KernelTyped DEF Moved, FdStates
  <1> HIDE DEF r
  <1> QED BY <1>1, <1>2, OutsideKeeps

(* The steps of the loop that change no socket and no descriptor. *)
LEMMA LoopKeeps ==
  ASSUME ServerInv, WakeUpServer \/ ServerWait \/ GiveUp \/ WakeupEvent \/ HandlerReturns \/ EventsDone
  PROVE  ServerInv'
  <1>1. /\ Fine(backend, nextKey, socks, kernel, unread, todo, polled.gen) /\ Batched /\ ~stray
    BY DEF ServerInv
  <1>2. UNCHANGED <<backend, nextKey, socks, kernel, unread, batch, stray>>
    BY DEF WakeUpServer, ServerWait, GiveUp, WakeupEvent, HandlerReturns, EventsDone, AppStill, OutsideOnly
  <1>3. Batched'
    BY <1>1, <1>2 DEF Batched, WakeUpServer, ServerWait, GiveUp, WakeupEvent, HandlerReturns, EventsDone, OutsideOnly
  <1>4. todo' \subseteq todo /\ (todo' = {} \/ polled' = polled)
    BY DEF WakeUpServer, ServerWait, GiveUp, WakeupEvent, HandlerReturns, EventsDone, OutsideOnly
  <1>5. \A s \in Socks : SameOpening(socks[s], todo', polled'.gen)
    BY <1>1, <1>4 DEF Fine, SameOpening
  <1>6. Fine(backend, nextKey, socks, kernel, unread, todo', polled'.gen)
    BY <1>1, <1>4, <1>5 DEF Fine
  <1> QED BY <1>1, <1>2, <1>3, <1>6 DEF ServerInv

LEMMA SelectedKeeps ==
  ASSUME ServerInv, NEW io \in BOOLEAN, Selected(io)
  PROVE  ServerInv'
  <1> DEFINE in == { f \in Watched("in") : Readable(f) }
             out == { f \in Watched("out") : Writable(f) }
             err == IF backend = "epoll" THEN { f \in Fds : kernel[f].interest # {} /\ kernel[f].phase = "error" }
                    ELSE {}
             keys == IF backend = "select" THEN { socks[s].key : s \in { d \in Socks : Registered(d) } }
                     ELSE { kernel[f].key : f \in in \union out \union err }
             gens == [f \in Fds |-> kernel[f].gen]
  <1>1. /\ Fine(backend, nextKey, socks, kernel, unread, todo, polled.gen) /\ Batched /\ ~stray
    BY DEF ServerInv
  <1>2. /\ UNCHANGED <<backend, nextKey, socks, kernel, unread, batch, stray>>
        /\ polled' = IF io THEN [in |-> in, out |-> out, err |-> err, gen |-> gens] ELSE NothingReady
        /\ todo' = (IF io THEN keys ELSE {}) \union (IF signaled THEN {Wakeup} ELSE {})
        /\ loop = "wait" /\ loop' = "events"
    BY DEF Selected, AppStill
  <1>3. Batched'
    BY <1>1, <1>2 DEF Batched
  <1>4. /\ socks \in [Socks -> SockStates] /\ kernel \in [Fds -> FdStates] /\ nextKey \in Nat \ {0}
        /\ \A f \in Fds : KeyOk(nextKey, kernel[f])
    BY <1>1 DEF Fine
  <1>5. ASSUME NEW s \in Socks
        PROVE  /\ socks[s].key \in Int
               /\ socks[s].fd = NoFd => socks[s].key = -1
               /\ socks[s].fd # NoFd => /\ socks[s].fd \in Fds /\ socks[s].key > 0 /\ socks[s].key < nextKey
                                        /\ kernel[socks[s].fd].gen = socks[s].key
    <2>1. socks[s].fd = NoFd => socks[s].key = -1
      BY SocksFine DEF SockOk
    <2> QED BY <2>1, SocksFine DEF Serves, SockStates
  <1>6. keys \subseteq 1 .. nextKey - 1
    <2>1. CASE backend = "select"
      <3> SUFFICES ASSUME NEW s \in Socks, Registered(s)
                   PROVE  socks[s].key \in 1 .. nextKey - 1
        BY <2>1
      <3>1. socks[s].key >= 0
        BY DEF Registered
      <3> QED BY <1>4, <1>5, <3>1
    <2>2. CASE backend # "select"
      <3>1. in \union out \union err \subseteq { f \in Fds : kernel[f].interest # {} }
        BY <2>2 DEF Watched
      <3> HIDE DEF in, out, err
      <3> SUFFICES ASSUME NEW f \in Fds, kernel[f].interest # {}
                   PROVE  kernel[f].key \in 1 .. nextKey - 1
        BY <2>2, <3>1
      <3>2. kernel[f].key > 0 /\ kernel[f].key < nextKey /\ kernel[f].key \in Int
        BY <1>4 DEF KeyOk, FdStates
      <3> QED BY <1>4, <3>2
    <2> QED BY <2>1, <2>2
  <1> HIDE DEF in, out, err, keys
  <1>7. todo' \subseteq 0 .. nextKey - 1
    BY <1>2, <1>4, <1>6 DEF Wakeup
  <1>8. \A s \in Socks : SameOpening(socks[s], todo', polled'.gen)
    <2> SUFFICES ASSUME NEW s \in Socks, socks[s].key \in todo'
                 PROVE  polled'.gen[socks[s].fd] = socks[s].key
      BY DEF SameOpening
    <2>1. socks[s].fd # NoFd
      BY <1>4, <1>5, <1>7
    <2>2. socks[s].key # Wakeup
      BY <1>5, <2>1 DEF Wakeup
    <2>3. io
      BY <1>2, <2>2
    <2>4. polled'.gen = gens
      BY <1>2, <2>3
    <2> QED BY <1>5, <2>1, <2>4
  <1>9. Fine(backend, nextKey, socks, kernel, unread, todo', polled'.gen)
    BY <1>1, <1>7, <1>8 DEF Fine
  <1> QED BY <1>1, <1>2, <1>3, <1>9 DEF ServerInv

(* A socket is about to be signaled its events, or has been. *)
Marked(sock, v, st) == [[sock EXCEPT !.saved = v] EXCEPT !.state = st]

LEMMA MarkedIs ==
  ASSUME NEW sock \in SockStates, NEW v \in SUBSET SUBSET Events, NEW st \in {"CLOSED", "CONNECTING", "CONNECTED"}
  PROVE  LET new == Marked(sock, v, st)
         IN  /\ new \in SockStates /\ new.fd = sock.fd /\ new.key = sock.key /\ new.alive = sock.alive
             /\ new.enabled = sock.enabled /\ new.saved = v /\ new.state = st
  <1> DEFINE t == [sock EXCEPT !.saved = v]
  <1>1. /\ t \in SockStates /\ t.fd = sock.fd /\ t.key = sock.key /\ t.alive = sock.alive
        /\ t.enabled = sock.enabled /\ t.saved = v
    BY DEF SockStates
  <1> HIDE DEF t
  <1>2. LET new == [t EXCEPT !.state = st]
        IN  /\ new \in SockStates /\ new.fd = t.fd /\ new.key = t.key /\ new.alive = t.alive
            /\ new.enabled = t.enabled /\ new.saved = t.saved /\ new.state = st
    BY <1>1 DEF SockStates
  <1> QED BY <1>1, <1>2 DEF Marked, t

(* The events of s are signaled next: updates are batched with epoll. *)
LEMMA BatchStarts ==
  ASSUME NEW b, NEW n, NEW sk, NEW kern, NEW un, NEW keys, NEW gen, Fine(b, n, sk, kern, un, keys, gen),
         NEW s \in Socks, sk[s].fd # NoFd, sk[s].saved = {}, NEW v \in {{}, {sk[s].enabled}},
         NEW st \in {"CLOSED", "CONNECTING", "CONNECTED"},
         st = "CONNECTED" => sk[s].state = "CONNECTED" \/ DE_CONNECT \in sk[s].enabled
  PROVE  Fine(b, n, [sk EXCEPT ![s] = Marked(sk[s], v, st)], kern, un, keys, gen)
  <1> DEFINE new == Marked(sk[s], v, st)
             f == sk[s].fd
  <1>1. /\ sk \in [Socks -> SockStates] /\ kern \in [Fds -> FdStates] /\ n \in {n, n + 1}
        /\ SockOk(b, n, sk[s], kern, s \in un) /\ SameOpening(sk[s], keys, gen)
        /\ \A g \in Fds : KeyOk(n, kern[g])
    BY DEF Fine
  <1>2. sk[s] \in SockStates /\ v \in SUBSET SUBSET Events
    BY <1>1 DEF SockStates
  <1>3. /\ new \in SockStates /\ new.fd = f /\ new.key = sk[s].key /\ new.alive = sk[s].alive
        /\ new.enabled = sk[s].enabled /\ new.saved = v /\ new.state = st
    BY <1>2, MarkedIs
  <1> HIDE DEF new
  <1>4. ToldOf(new) = ToldOf(sk[s])
    BY <1>3 DEF ToldOf
  <1>5. Serves(b, n, sk[s], kern[f], s \in un)
    BY <1>1 DEF SockOk
  <1>6. kern[f].phase = "listening" => st # "CONNECTED"
    BY <1>5 DEF Serves, DE_ACCEPT, DE_CONNECT
  <1>7. Serves(b, n, new, kern[f], s \in un)
    BY <1>3, <1>4, <1>5, <1>6 DEF Serves
  <1>8. SockOk(b, n, new, kern, s \in un)
    <2>1. new.saved = {} \/ \E e \in SUBSET Events : new.saved = {e}
      BY <1>2, <1>3 DEF SockStates
    <2> QED BY <1>1, <1>3, <1>7, <2>1 DEF SockOk
  <1>9. SameOpening(new, keys, gen) /\ Takes(sk, kern, un, s, new, kern, un)
    BY <1>1, <1>3 DEF SameOpening, Takes
  <1>10. Fine(b, n, [sk EXCEPT ![s] = new], kern, un, keys, gen)
    BY <1>1, <1>8, <1>9, FineTakes
  <1> QED BY <1>10 DEF new

LEMMA FewerKeys ==
  ASSUME NEW b, NEW n, NEW sk, NEW kern, NEW un, NEW keys, NEW keys2, NEW gen,
         Fine(b, n, sk, kern, un, keys, gen), keys2 \subseteq keys
  PROVE  Fine(b, n, sk, kern, un, keys2, gen)
  BY DEF Fine, SameOpening

LEMMA ProcessEventsKeeps ==
  ASSUME ServerInv, NEW key \in 1 .. MaxKeys, ProcessEvents(key)
  PROVE  ServerInv'
  <1>1. /\ Fine(backend, nextKey, socks, kernel, unread, todo, polled.gen) /\ Batched /\ ~stray
    BY DEF ServerInv
  <1>2. /\ loop = "events" /\ key \in todo \ {Wakeup} /\ todo' = todo \ {key}
        /\ UNCHANGED <<backend, nextKey, polled, unread>>
    BY DEF ProcessEvents
  <1>3. \A t \in Socks : socks[t].saved = {}
    BY <1>1, <1>2 DEF Batched
  <1>4. CASE UNCHANGED <<socks, kernel, loop, batch, stray>>
    <2>1. Fine(backend, nextKey, socks, kernel, unread, todo', polled.gen)
      BY <1>1, <1>2, FewerKeys
    <2> QED BY <1>1, <1>2, <1>4, <2>1 DEF ServerInv, Batched
  <1>5. ASSUME NEW s \in Find(key),
               LET f == socks[s].fd
                   readable == f \in polled.in
                   writable == f \in polled.out
                   check == IF backend = "select" THEN readable \/ writable ELSE f \in polled.err
                   ff == Meaning(socks[s], readable, writable, check)
                   k == IF check /\ kernel[f].phase = "error"
                        THEN [kernel EXCEPT ![f].phase = "eof"] ELSE kernel
               IN  IF ff = {} THEN kernel' = k /\ UNCHANGED <<socks, loop, batch, stray>>
                   ELSE /\ batch' = [sock |-> s, ff |-> ff] /\ loop' = "signal"
                        /\ socks' = [socks EXCEPT ![s].saved = IF backend = "epoll" THEN {socks[s].enabled} ELSE {},
                                                  ![s].state = IF DE_CLOSE \in ff THEN "CLOSED"
                                                               ELSE IF DE_CONNECT \in ff THEN "CONNECTED" ELSE @]
                        /\ kernel' = k
                        /\ stray' = (stray \/ kernel[f].gen # polled.gen[f])
        PROVE  ServerInv'
    <2> DEFINE f == socks[s].fd
               readable == f \in polled.in
               writable == f \in polled.out
               check == IF backend = "select" THEN readable \/ writable ELSE f \in polled.err
               ff == Meaning(socks[s], readable, writable, check)
               k == IF check /\ kernel[f].phase = "error"
                    THEN [kernel EXCEPT ![f].phase = "eof"] ELSE kernel
               v == IF backend = "epoll" THEN {socks[s].enabled} ELSE {}
               st == IF DE_CLOSE \in ff THEN "CLOSED" ELSE IF DE_CONNECT \in ff THEN "CONNECTED" ELSE socks[s].state
    <2>1. s \in Socks /\ socks[s].key = key
      BY DEF Find
    <2>2. /\ socks[s] \in SockStates /\ socks \in [Socks -> SockStates] /\ kernel \in [Fds -> FdStates]
          /\ SockOk(backend, nextKey, socks[s], kernel, s \in unread)
      BY <2>1, SocksFine
    <2>3. f # NoFd
      <3>1. f = NoFd => socks[s].key = -1
        BY <2>2 DEF SockOk
      <3> QED BY <2>1, <3>1
    <2>4. f \in Fds /\ kernel[f] \in FdStates /\ Serves(backend, nextKey, socks[s], kernel[f], s \in unread)
      BY <2>1, <2>3, SocksFine
    <2>5. Fine(backend, nextKey, socks, k, unread, todo', polled.gen)
      <3> DEFINE r == [kernel[f] EXCEPT !.phase = "eof"]
      <3>1. Moved(kernel[f], r)
        BY <2>4 DEF Moved, FdStates
      <3>2. Fine(backend, nextKey, socks, kernel, unread, todo', polled.gen)
        BY <1>1, <1>2, FewerKeys
      <3>3. [kernel EXCEPT ![f].phase = "eof"] = [kernel EXCEPT ![f] = r]
        OBVIOUS
      <3> HIDE DEF r
      <3>4. Fine(backend, nextKey, socks, [kernel EXCEPT ![f] = r], unread, todo', polled.gen)
        BY <2>4, <3>1, <3>2, FineMoved
      <3>5. k = kernel \/ k = [kernel EXCEPT ![f] = r]
        BY <3>3
      <3> HIDE DEF k
      <3> QED BY <3>2, <3>4, <3>5
    <2>6. CASE ff = {}
      <3>1. kernel' = k /\ UNCHANGED <<socks, loop, batch, stray>>
        BY <1>5, <2>6
      <3> HIDE DEF k
      <3> QED BY <1>1, <1>2, <2>5, <3>1 DEF ServerInv, Batched
    <2>7. CASE ff # {}
      <3>1. /\ batch' = [sock |-> s, ff |-> ff] /\ loop' = "signal"
            /\ socks' = [socks EXCEPT ![s].saved = IF backend = "epoll" THEN {socks[s].enabled} ELSE {},
                                      ![s].state = IF DE_CLOSE \in ff THEN "CLOSED"
                                                   ELSE IF DE_CONNECT \in ff THEN "CONNECTED" ELSE @]
            /\ kernel' = k
            /\ stray' = (stray \/ kernel[f].gen # polled.gen[f])
        BY <1>5, <2>7
      <3>2. DE_CONNECT \in ff => DE_CONNECT \in socks[s].enabled
        BY DEF Meaning, DE_CONNECT, DE_CLOSE, DE_ACCEPT, DE_READ, DE_WRITE
      <3> HIDE DEF ff, k
      <3>3. st \in {"CLOSED", "CONNECTING", "CONNECTED"} /\ v \in {{}, {socks[s].enabled}}
            /\ (st = "CONNECTED" => socks[s].state = "CONNECTED" \/ DE_CONNECT \in socks[s].enabled)
        BY <2>2, <3>2 DEF SockStates
      <3>4. socks' = [socks EXCEPT ![s] = Marked(socks[s], v, st)]
        <4> DEFINE t == [socks[s] EXCEPT !.saved = v]
        <4>1. t.state = socks[s].state
          BY <2>2 DEF SockStates
        <4>2. Marked(socks[s], v, st) = [t EXCEPT !.state = IF DE_CLOSE \in ff THEN "CLOSED"
                                                   ELSE IF DE_CONNECT \in ff THEN "CONNECTED" ELSE @]
          BY <4>1 DEF Marked
        <4>3. /\ socks' = [g \in Socks |-> socks'[g]] /\ \A g \in Socks : g # s => socks'[g] = socks[g]
              /\ socks'[s] = [t EXCEPT !.state = IF DE_CLOSE \in ff THEN "CLOSED"
                                                   ELSE IF DE_CONNECT \in ff THEN "CONNECTED" ELSE @]
          BY <2>1, <2>2, <3>1
        <4> HIDE DEF t, v, st
        <4>4. /\ socks'[s] = Marked(socks[s], v, st) /\ socks' = [g \in Socks |-> socks'[g]]
              /\ \A g \in Socks : g # s => socks'[g] = socks[g]
          BY <4>2, <4>3
        <4> QED BY <2>1, <2>2, <4>4
      <3> HIDE DEF v, st
      <3>5. Fine(backend, nextKey, [socks EXCEPT ![s] = Marked(socks[s], v, st)], k, unread, todo', polled.gen)
        BY <1>3, <2>1, <2>3, <2>5, <3>3, BatchStarts
      <3>6. ~stray'
        <4>1. polled.gen[f] = key
          BY <1>1, <1>2, <2>1 DEF Fine, SameOpening
        <4>2. kernel[f].gen = key
          BY <2>1, <2>4 DEF Serves
        <4> QED BY <1>1, <3>1, <4>1, <4>2
      <3>7. Batched'
        <4>1. \A t \in Socks : t # s => socks'[t].saved = {}
          BY <1>3, <2>2, <3>4
        <4>2. batch'.sock = s /\ batch'.ff = ff
          BY <3>1
        <4> QED BY <2>1, <3>1, <4>1, <4>2 DEF Batched
      <3> QED BY <1>2, <3>1, <3>4, <3>5, <3>6, <3>7 DEF ServerInv
    <2> QED BY <2>6, <2>7
  <1>6. \/ UNCHANGED <<socks, kernel, loop, batch, stray>>
        \/ \E s \in Find(key) :
               LET f == socks[s].fd
                   readable == f \in polled.in
                   writable == f \in polled.out
                   check == IF backend = "select" THEN readable \/ writable ELSE f \in polled.err
                   ff == Meaning(socks[s], readable, writable, check)
                   k == IF check /\ kernel[f].phase = "error"
                        THEN [kernel EXCEPT ![f].phase = "eof"] ELSE kernel
               IN  IF ff = {} THEN kernel' = k /\ UNCHANGED <<socks, loop, batch, stray>>
                   ELSE /\ batch' = [sock |-> s, ff |-> ff] /\ loop' = "signal"
                        /\ socks' = [socks EXCEPT ![s].saved = IF backend = "epoll" THEN {socks[s].enabled} ELSE {},
                                                  ![s].state = IF DE_CLOSE \in ff THEN "CLOSED"
                                                               ELSE IF DE_CONNECT \in ff THEN "CONNECTED" ELSE @]
                        /\ kernel' = k
                        /\ stray' = (stray \/ kernel[f].gen # polled.gen[f])
    BY DEF ProcessEvents
  <1> HIDE DEF Meaning
  <1> QED BY <1>4, <1>5, <1>6

(* One socket without a descriptor changes. *)
LEMMA IdleChanges ==
  ASSUME ServerInv, NEW s \in Socks, socks[s].fd = NoFd, NEW new \in SockStates, new.fd = NoFd,
         new.key = -1, new.state # "CONNECTED", new.saved \in {{}, {{}}}, NEW un2, unread \subseteq un2 \union {s}
  PROVE  Fine(backend, nextKey, [socks EXCEPT ![s] = new], kernel, un2, todo, polled.gen)
  <1>1. /\ Fine(backend, nextKey, socks, kernel, unread, todo, polled.gen) /\ nextKey \in {nextKey, nextKey + 1}
        /\ kernel \in [Fds -> FdStates] /\ nextKey \in Nat
    BY SocksFine
  <1>2. todo \subseteq 0 .. nextKey - 1 /\ \A f \in Fds : KeyOk(nextKey, kernel[f])
    BY <1>1 DEF Fine
  <1>3. -1 \notin todo
    BY <1>1, <1>2
  <1>4. SameOpening(new, todo, polled.gen) /\ Takes(socks, kernel, unread, s, new, kernel, un2)
    BY <1>1, <1>3 DEF SameOpening, Takes
  <1>5. SockOk(backend, nextKey, new, kernel, s \in un2)
    BY DEF SockOk
  <1> QED BY <1>1, <1>2, <1>4, <1>5, FineTakes

LEMMA OnEventKeeps ==
  ASSUME ServerInv, OnEvent
  PROVE  ServerInv'
  <1> DEFINE s == batch.sock
             e == CHOOSE x \in batch.ff : \A y \in batch.ff : Order[x] <= Order[y]
             w == IF e = DE_CLOSE THEN {} ELSE socks[s].enabled \ {e}
             un2 == IF e \in {DE_READ, DE_ACCEPT, DE_CLOSE} THEN unread \union {s} ELSE unread
             new == [socks[s] EXCEPT !.enabled = w]
             f == socks[s].fd
  <1>1. /\ loop = "signal" /\ loop' = "handler" /\ batch' = [batch EXCEPT !.ff = @ \ {e}]
        /\ socks' = [socks EXCEPT ![s] = new] /\ kernel' = MaybeUpdateDispatcher(kernel, socks[s], new)
        /\ unread' = un2 /\ UNCHANGED <<backend, nextKey, todo, polled, stray>>
    BY DEF OnEvent, SetEvents
  <1>2. s \in Socks /\ Batched
    BY <1>1 DEF ServerInv, Batched
  <1>3. /\ socks \in [Socks -> SockStates] /\ kernel \in [Fds -> FdStates] /\ socks[s] \in SockStates
        /\ SockOk(backend, nextKey, socks[s], kernel, s \in unread)
    BY <1>2, SocksFine
  <1>4. batch'.sock = s /\ batch' = [sock |-> batch'.sock, ff |-> batch'.ff]
    <2> HIDE DEF e
    <2>1. batch = [sock |-> batch.sock, ff |-> batch.ff]
      BY <1>2 DEF Batched
    <2>2. batch' = [sock |-> batch.sock, ff |-> batch.ff \ {e}]
      BY <1>1, <2>1
    <2> QED BY <2>2
  <1> HIDE DEF e, s
  <1>5. w \in SUBSET Events /\ unread \subseteq un2 \union {s}
    BY <1>3 DEF SockStates
  <1>6. /\ new \in SockStates /\ SameFd(socks[s], new) /\ new.enabled = w /\ new.state = socks[s].state
    BY <1>3, <1>5, SetEnabled
  <1>7. Fine(backend, nextKey, socks', kernel', unread', todo, polled.gen)
    <2>1. CASE f = NoFd
      <3> HIDE DEF new, w, un2
      <3>1. new.fd = NoFd /\ new.key = -1 /\ new.state # "CONNECTED" /\ new.saved \in {{}, {{}}}
        BY <1>3, <1>6, <2>1 DEF SockOk, SameFd
      <3>2. kernel' = kernel
        BY <1>1, <3>1 DEF MaybeUpdateDispatcher, UpdateEpoll
      <3>3. Fine(backend, nextKey, [socks EXCEPT ![s] = new], kernel, un2, todo, polled.gen)
        BY <1>2, <1>5, <1>6, <2>1, <3>1, IdleChanges
      <3> QED BY <1>1, <3>2, <3>3
    <2>2. CASE f # NoFd
      <3> DEFINE r == kernel[f]
      <3>1. f \in Fds /\ r \in FdStates /\ Allowed(socks[s], r.phase, s \in unread)
        BY <1>2, <2>2, SocksFine, FineSock
      <3>2. kernel = [kernel EXCEPT ![f] = r] /\ SameWatch(kernel[f], r)
        BY <1>3, <3>1 DEF SameWatch
      <3>3. Allowed(new, r.phase, s \in un2)
        <4>1. w \subseteq socks[s].enabled /\ (s \in unread => s \in un2)
          OBVIOUS
        <4>2. DE_READ \in socks[s].enabled => DE_READ \in w \/ s \in un2
          BY DEF DE_READ, DE_ACCEPT, DE_CLOSE
        <4> HIDE DEF new, w, un2, r
        <4> QED BY <1>6, <3>1, <4>1, <4>2 DEF Allowed
      <3> HIDE DEF w, un2, r
      <3>4. Sets(s, w, r, un2)
        BY <1>1, <1>5, <3>2, <3>3 DEF Sets
      <3> QED BY <1>2, <1>5, <2>2, <3>4, SetsKeeps
    <2> QED BY <2>1, <2>2
  <1>8. \A t \in Socks : socks'[t].saved = socks[t].saved
    <2> HIDE DEF new
    <2> QED BY <1>1, <1>3, <1>6 DEF SameFd
  <1>9. Batched'
    <2>1. \A t \in Socks : socks'[t].saved # {} => t = s
      BY <1>2, <1>8 DEF Batched, s
    <2> QED BY <1>1, <1>2, <1>4, <2>1 DEF Batched
  <1>10. ~stray'
    BY <1>1 DEF ServerInv
  <1> QED BY <1>1, <1>7, <1>9, <1>10 DEF ServerInv

LEMMA OnEventEndsKeeps ==
  ASSUME ServerInv, OnEventEnds
  PROVE  ServerInv'
  <1> DEFINE s == batch.sock
             new == [socks[s] EXCEPT !.saved = {}]
             g == IF socks[s].saved = {} THEN new.enabled ELSE CHOOSE x \in socks[s].saved : TRUE
             old == [new EXCEPT !.enabled = g]
             f == socks[s].fd
  <1>1. /\ loop = "signal" /\ loop' = "events" /\ socks' = [socks EXCEPT ![s] = new]
        /\ kernel' = MaybeUpdateDispatcher(kernel, old, new)
        /\ UNCHANGED <<backend, nextKey, todo, polled, batch, unread, stray>>
    BY DEF OnEventEnds
  <1>2. s \in Socks /\ Batched
    BY <1>1 DEF ServerInv, Batched
  <1>3. /\ socks \in [Socks -> SockStates] /\ kernel \in [Fds -> FdStates] /\ socks[s] \in SockStates
        /\ SockOk(backend, nextKey, socks[s], kernel, s \in unread)
        /\ Fine(backend, nextKey, socks, kernel, unread, todo, polled.gen)
    BY <1>2, SocksFine
  <1> HIDE DEF s
  <1>4. /\ new \in SockStates /\ new.fd = f /\ new.key = socks[s].key /\ new.alive = socks[s].alive
        /\ new.enabled = socks[s].enabled /\ new.state = socks[s].state /\ new.saved = {}
    BY <1>3 DEF SockStates
  <1> HIDE DEF new
  <1>5. old.enabled = ToldOf(socks[s])
    <2>1. g = ToldOf(socks[s])
      BY <1>4 DEF ToldOf
    <2>2. old.enabled = g
      <3> HIDE DEF g
      <3> QED BY <1>4 DEF SockStates
    <2> QED BY <2>1, <2>2
  <1> HIDE DEF old
  <1>6. Fine(backend, nextKey, socks', kernel', unread, todo, polled.gen)
    <2>1. CASE f = NoFd
      <3>1. new.fd = NoFd /\ new.key = -1 /\ new.state # "CONNECTED" /\ new.saved \in {{}, {{}}}
        BY <1>3, <1>4, <2>1 DEF SockOk
      <3>2. kernel' = kernel
        BY <1>1, <3>1 DEF MaybeUpdateDispatcher, UpdateEpoll
      <3>3. unread \subseteq unread \union {s}
        OBVIOUS
      <3>4. Fine(backend, nextKey, [socks EXCEPT ![s] = new], kernel, unread, todo, polled.gen)
        BY <1>2, <1>4, <2>1, <3>1, <3>3, IdleChanges
      <3> QED BY <1>1, <3>2, <3>4
    <2>2. CASE f # NoFd
      <3>1. Serves(backend, nextKey, socks[s], kernel[f], s \in unread) /\ f \in Fds /\ nextKey \in Nat
        BY <1>2, <2>2, SocksFine
      <3>2. Follows(kernel, old, new, kernel')
        <4>1. Follows(kernel, old, new, MaybeUpdateDispatcher(kernel, old, new))
          BY <1>3, <1>4, DispatcherFollows
        <4> QED BY <1>1, <4>1
      <3>3. Updated(backend, kernel, kernel', new)
        BY <3>2 DEF Follows
      <3>4. backend = "epoll" => kernel'[f].interest = EpollEvents(ToldOf(new))
        <4>1. ToldOf(new) = new.enabled
          BY <1>4 DEF ToldOf
        <4>2. new.key > 0 /\ (backend = "epoll" => kernel[f].interest = EpollEvents(old.enabled))
          BY <1>4, <1>5, <3>1 DEF Serves
        <4> QED BY <1>4, <2>2, <3>2, <4>1, <4>2 DEF Follows
      <3>5. SameBut(kernel[f], kernel'[f]) /\ \A h \in Fds : h # f => kernel'[h] = kernel[h]
        BY <1>4, <3>1, <3>3 DEF Updated
      <3>6. Serves(backend, nextKey, new, kernel'[f], s \in unread)
        BY <1>4, <3>1, <3>4, <3>5 DEF Serves, SameBut
      <3>7. SockOk(backend, nextKey, new, kernel', s \in unread)
        BY <1>3, <1>4, <2>2, <3>6 DEF SockOk
      <3>8. SameOpening(new, todo, polled.gen)
        BY <1>2, <1>3, <1>4 DEF Fine, SameOpening
      <3>9. Takes(socks, kernel, unread, s, new, kernel', unread)
        BY <1>4, <3>3, <3>5 DEF Takes, Updated
      <3>10. \A h \in Fds : KeyOk(nextKey, kernel'[h])
        <4>1. \A h \in Fds : KeyOk(nextKey, kernel[h])
          BY <1>3 DEF Fine
        <4>2. nextKey <= nextKey /\ new.key > 0 /\ new.key < nextKey
          BY <1>4, <3>1 DEF Serves
        <4>3. \A h \in Fds : kernel[h].interest = {} \/ (kernel[h].interest = kernel[h].interest /\ kernel[h].key = kernel[h].key)
          OBVIOUS
        <4> QED BY <1>3, <1>4, <3>1, <3>3, <4>1, <4>2, <4>3, KeysStay
      <3>11. Fine(backend, nextKey, [socks EXCEPT ![s] = new], kernel', unread, todo, polled.gen)
        <4>1. nextKey \in {nextKey, nextKey + 1}
          OBVIOUS
        <4> QED BY <1>2, <1>3, <3>7, <3>8, <3>9, <3>10, <4>1, FineTakes
      <3> QED BY <1>1, <3>11
    <2> QED BY <2>1, <2>2
  <1>7. \A t \in Socks : socks'[t].saved = {}
    BY <1>1, <1>2, <1>3, <1>4 DEF Batched, s
  <1>8. Batched'
    BY <1>1, <1>2, <1>7 DEF Batched
  <1>9. ~stray'
    BY <1>1 DEF ServerInv
  <1> QED BY <1>1, <1>6, <1>8, <1>9 DEF ServerInv

LEMMA ServerStarts ==
  ASSUME ServerInit
  PROVE  ServerInv
  <1>1. /\ NoSock \in SockStates /\ NoSock.saved = {} /\ NoSock.state = "CLOSED" /\ NoSock.fd = NoFd
        /\ NoSock.key = -1
    BY NoFdNotUsed DEF NoSock, SockStates
  <1>2. Free \in FdStates /\ Free.interest = {}
    BY DEF Free, FdStates
  <1>3. /\ socks = [s \in Socks |-> NoSock] /\ kernel = [f \in Fds |-> Free] /\ nextKey = 1 /\ todo = {}
        /\ loop = "idle" /\ ~stray
    BY DEF ServerInit
  <1>4. SockOk(backend, 1, NoSock, kernel, FALSE) /\ SockOk(backend, 1, NoSock, kernel, TRUE)
    BY <1>1 DEF SockOk
  <1>5. \A s \in Socks : SockOk(backend, 1, NoSock, kernel, s \in unread)
    BY <1>1 DEF SockOk
  <1>6. Fine(backend, nextKey, socks, kernel, unread, todo, polled.gen)
    BY <1>1, <1>2, <1>3, <1>5 DEF Fine, SameOpening, KeyOk
  <1>7. Batched
    <2>1. batch = [sock |-> batch.sock, ff |-> batch.ff]
      BY DEF ServerInit
    <2> QED BY <1>1, <1>3, <2>1 DEF Batched
  <1> QED BY <1>3, <1>6, <1>7 DEF ServerInv

LEMMA ServerSteps ==
  ASSUME ServerInv, [ServerNext]_serverVars
  PROVE  ServerInv'
  <1>1. CASE UNCHANGED serverVars
    BY <1>1 DEF serverVars, ServerInv, Batched
  <1>2. ASSUME NEW s \in Socks, Close(s) \/ Delete(s) \/ Listen(s) \/ Accept(s) \/ Recv(s)
        PROVE  ServerInv'
    BY <1>2, ClosingKeeps, ListenKeeps, AcceptKeeps, RecvKeeps
  <1>3. ASSUME NEW s \in Socks, NEW b \in BOOLEAN,
               CreateSocket(s, b) \/ Connect(s, b) \/ OnResolveResult(s, b) \/ Send(s, b)
        PROVE  ServerInv'
    BY <1>3, CreateSocketKeeps, ConnectKeeps, OnResolveResultKeeps, SendKeeps
  <1>4. ASSUME NEW f \in Fds, Arrives(f) \/ Drains(f) \/ \E p \in {"up", "eof", "error"} : Peer(f, p)
        PROVE  ServerInv'
    BY <1>4, ArrivesKeeps, PeerKeeps
  <1>5. CASE WakeUpServer \/ ServerWait \/ GiveUp \/ WakeupEvent \/ HandlerReturns \/ EventsDone
    BY <1>5, LoopKeeps
  <1>6. CASE OnEvent \/ OnEventEnds
    BY <1>6, OnEventKeeps, OnEventEndsKeeps
  <1>7. ASSUME NEW io \in BOOLEAN, Selected(io)
        PROVE  ServerInv'
    BY <1>7, SelectedKeeps
  <1>8. ASSUME NEW key \in 1 .. MaxKeys, ProcessEvents(key)
        PROVE  ServerInv'
    BY <1>8, ProcessEventsKeeps
  <1> QED BY <1>1, <1>2, <1>3, <1>4, <1>5, <1>6, <1>7, <1>8 DEF ServerNext

LEMMA ServerIsSafe ==
  ASSUME ServerInv
  PROVE  EventsFollowSockets
  <1>1. InterestUpToDate
    <2> SUFFICES ASSUME backend = "epoll", NEW s \in Socks, Registered(s), socks[s].saved = {}
                 PROVE  kernel[socks[s].fd].interest = EpollEvents(socks[s].enabled)
      BY DEF InterestUpToDate
    <2>1. socks[s].fd # NoFd
      BY SocksFine DEF SockOk, Registered
    <2>2. kernel[socks[s].fd].interest = EpollEvents(ToldOf(socks[s]))
      BY <2>1, SocksFine DEF Serves
    <2> QED BY <2>2 DEF ToldOf
  <1>2. InputWatched
    <2> SUFFICES ASSUME NEW s \in Socks, socks[s].fd # NoFd, socks[s].state = "CONNECTED"
                 PROVE  DE_READ \in socks[s].enabled \/ s \in unread
      BY DEF InputWatched
    <2> QED BY SocksFine DEF Serves
  <1> QED BY <1>1, <1>2 DEF EventsFollowSockets, ServerInv

-----------------------------------------------------------------------------
(* The answers that threads have given. *)
Reported == { lookup[l].answer : l \in Ended }

ResolverRec(r) ==
  r = [made |-> r.made, name |-> r.name, answer |-> r.answer,
       recursion_check |-> r.recursion_check, destroy_called |-> r.destroy_called]
LookupRec(t) == t = [at |-> t.at, family |-> t.family, answer |-> t.answer]
SharedRec(h) == h = [status |-> h.status, refs |-> h.refs]
CalleeRec(c) == c = [at |-> c.at, live |-> c.live, answer |-> c.answer]
AnswerRec(a) == a = [name |-> a.name, error |-> a.error, list |-> a.list]

ResolverType ==
  /\ ResolverRec(resolver)
  /\ resolver.made \in BOOLEAN /\ resolver.recursion_check \in BOOLEAN /\ resolver.destroy_called \in BOOLEAN
  /\ SharedRec(shared) /\ shared.refs \in Int
  /\ lookup = [l \in Lookups |-> lookup[l]]
  /\ \A l \in Lookups : LookupRec(lookup[l]) /\ AnswerRec(lookup[l].answer)
  /\ answers \in Seq(Reported) /\ signals \in Nat /\ callerQueue \in BOOLEAN
  /\ CalleeRec(callee)
  /\ callee.at \in {"idle", "looked", "signal"} /\ callee.live \in BOOLEAN

(* Who may be in the middle of what. *)
Phases ==
  /\ callerQueue \/ (answers = << >> /\ ~resolver.made)
  /\ resolver.made <=> shared.status = "kLive"
  /\ callee.at = "idle" => ~callee.live
  /\ callee.at = "looked" => (callee.live <=> resolver.made)
  /\ callee.at = "signal" => resolver.made
  /\ resolver.recursion_check => callee.at = "signal"
  /\ callee.at = "signal" /\ ~resolver.destroy_called => resolver.recursion_check

References ==
  shared.refs = Cardinality(InFlight) + Len(answers)
       + (IF resolver.made THEN 1 ELSE 0) + (IF callee.at = "idle" THEN 0 ELSE 1)

Reports ==
  resolver.made => Cardinality(Ended) = signals + Len(answers) + (IF callee.at = "looked" THEN 1 ELSE 0)

Told ==
  /\ callee.answer \in Reported \union {NotResolved}
  /\ resolver.answer \in Reported \union {NotResolved}
  /\ \A l \in Lookups : InFlight \union Ended = {l} => resolver.name = lookup[l].answer.name

ResolverInv == ResolverType /\ Phases /\ References /\ Reports /\ Told

LEMMA SetsFinite ==
  /\ IsFiniteSet(InFlight) /\ IsFiniteSet(Ended)
  /\ Cardinality(InFlight) \in Nat /\ Cardinality(Ended) \in Nat
  <1>1. InFlight \subseteq Lookups /\ Ended \subseteq Lookups
    BY DEF InFlight, Ended
  <1>2. IsFiniteSet(InFlight) /\ IsFiniteSet(Ended)
    BY <1>1, LookupsFinite, FS_Subset
  <1> QED BY <1>2, FS_CardinalityType

LEMMA ResolverStarts ==
  ASSUME ResolverInit
  PROVE  ResolverInv
  <1>1. \A l \in Lookups : lookup[l] = [at |-> "idle", family |-> "unspec", answer |-> NotResolved]
    BY DEF ResolverInit
  <1>2. InFlight = {} /\ Ended = {}
    BY <1>1 DEF InFlight, Ended
  <1>3. Cardinality({}) = 0
    BY FS_EmptySet
  <1>4. AnswerRec(NotResolved)
    BY DEF AnswerRec, NotResolved
  <1>5. \A l \in Lookups : LookupRec(lookup[l]) /\ AnswerRec(lookup[l].answer)
    BY <1>1, <1>4 DEF LookupRec
  <1>6. ResolverType
    <2>1. ResolverRec(resolver) /\ resolver.made = TRUE /\ resolver.recursion_check = FALSE
          /\ resolver.destroy_called = FALSE
      BY DEF ResolverRec, ResolverInit
    <2>2. SharedRec(shared) /\ shared.refs = 1
      BY DEF ResolverInit, SharedRec
    <2>3. CalleeRec(callee) /\ callee.at = "idle" /\ callee.live = FALSE
      BY DEF ResolverInit, NoTask, CalleeRec
    <2>4. lookup = [l \in Lookups |-> lookup[l]]
      BY DEF ResolverInit
    <2>5. answers \in Seq(Reported) /\ signals \in Nat /\ callerQueue \in BOOLEAN
      BY DEF ResolverInit
    <2>6. resolver.made \in BOOLEAN /\ resolver.recursion_check \in BOOLEAN /\ resolver.destroy_called \in BOOLEAN
      BY <2>1
    <2>7. callee.at \in {"idle", "looked", "signal"} /\ callee.live \in BOOLEAN /\ shared.refs \in Int
      BY DEF ResolverInit, NoTask
    <2> QED BY <1>5, <2>1, <2>2, <2>3, <2>4, <2>5, <2>6, <2>7, Zenon DEF ResolverType
  <1>7. Phases
    BY DEF ResolverInit, NoTask, Phases
  <1>8. References /\ Reports
    BY <1>2, <1>3 DEF References, Reports, ResolverInit, NoTask
  <1>9. Told
    BY <1>2 DEF Told, ResolverInit, NoTask
  <1> QED BY <1>6, <1>7, <1>8, <1>9 DEF ResolverInv

LEMMA ResolverIsSafe ==
  ASSUME ResolverInv
  PROVE  ResolverSafe
  <1>1. ASSUME NEW l \in Lookups, NEW f \in {"v4", "v6"}, InFlight \union Ended = {l},
               GetResolvedAddress(resolver, f) # << >>
        PROVE  resolver.name = lookup[l].answer.name /\ f \in ToSet(lookup[l].answer.list)
    <2>1. resolver.name = lookup[l].answer.name
      BY <1>1 DEF ResolverInv, Told
    <2>2. resolver.answer.error = 0 /\ f \in ToSet(resolver.answer.list)
      BY <1>1 DEF GetResolvedAddress
    <2>3. resolver.answer # NotResolved
      BY <2>2 DEF NotResolved
    <2>4. resolver.answer \in Reported
      BY <2>3 DEF ResolverInv, Told
    <2>5. resolver.answer = lookup[l].answer
      BY <1>1, <2>4 DEF Reported
    <2> QED BY <2>1, <2>2, <2>5
  <1>2. callee.live => resolver.made
    BY DEF ResolverInv, Phases, ResolverType
  <1> QED BY <1>1, <1>2 DEF ResolverSafe, ResolverInv, Phases, References, Reports

(* The parts of the records. *)
ResolverIs(r, made, name, answer, check, called) ==
  /\ ResolverRec(r) /\ r.made = made /\ r.name = name /\ r.answer = answer
  /\ r.recursion_check = check /\ r.destroy_called = called

LEMMA ResolverOf ==
  ASSUME NEW made, NEW name, NEW answer, NEW check, NEW called
  PROVE  ResolverIs([made |-> made, name |-> name, answer |-> answer, recursion_check |-> check,
                     destroy_called |-> called], made, name, answer, check, called)
  BY DEF ResolverIs, ResolverRec

LEMMA ResolverSets ==
  ASSUME NEW r, ResolverRec(r), NEW v
  PROVE  /\ ResolverIs([r EXCEPT !.name = v], r.made, v, r.answer, r.recursion_check, r.destroy_called)
         /\ ResolverIs([r EXCEPT !.answer = v], r.made, r.name, v, r.recursion_check, r.destroy_called)
         /\ ResolverIs([r EXCEPT !.recursion_check = v], r.made, r.name, r.answer, v, r.destroy_called)
         /\ ResolverIs([r EXCEPT !.made = v], v, r.name, r.answer, r.recursion_check, r.destroy_called)
         /\ ResolverIs([r EXCEPT !.destroy_called = v], r.made, r.name, r.answer, r.recursion_check, v)
  <1>1. [r EXCEPT !.name = v] = [made |-> r.made, name |-> v, answer |-> r.answer,
           recursion_check |-> r.recursion_check, destroy_called |-> r.destroy_called]
    BY DEF ResolverRec
  <1>2. [r EXCEPT !.answer = v] = [made |-> r.made, name |-> r.name, answer |-> v,
           recursion_check |-> r.recursion_check, destroy_called |-> r.destroy_called]
    BY DEF ResolverRec
  <1>3. [r EXCEPT !.recursion_check = v] = [made |-> r.made, name |-> r.name, answer |-> r.answer,
           recursion_check |-> v, destroy_called |-> r.destroy_called]
    BY DEF ResolverRec
  <1>4. [r EXCEPT !.made = v] = [made |-> v, name |-> r.name, answer |-> r.answer,
           recursion_check |-> r.recursion_check, destroy_called |-> r.destroy_called]
    BY DEF ResolverRec
  <1>5. [r EXCEPT !.destroy_called = v] = [made |-> r.made, name |-> r.name, answer |-> r.answer,
           recursion_check |-> r.recursion_check, destroy_called |-> v]
    BY DEF ResolverRec
  <1> QED BY <1>1, <1>2, <1>3, <1>4, <1>5, ResolverOf

SharedIs(h, status, refs) == SharedRec(h) /\ h.status = status /\ h.refs = refs

LEMMA SharedSets ==
  ASSUME NEW h, SharedRec(h), NEW v
  PROVE  SharedIs([h EXCEPT !.refs = v], h.status, v)
  BY DEF SharedIs, SharedRec

LEMMA LookupsSame ==
  ASSUME UNCHANGED lookup
  PROVE  InFlight' = InFlight /\ Ended' = Ended /\ Reported' = Reported
  BY DEF InFlight, Ended, Reported

LEMMA StartLookupKeeps ==
  ASSUME ResolverInv, NEW l \in Lookups, NEW name, NEW family, StartLookup(l, name, family)
  PROVE  ResolverInv'
  <1>1. /\ callerQueue /\ callee.at \in {"idle", "signal"} /\ resolver.made /\ ~resolver.destroy_called
        /\ lookup[l].at = "idle" /\ UNCHANGED <<answers, callee, callerQueue, signals>>
    BY DEF StartLookup, CallerRuns
  <1>2. ResolverType /\ Phases /\ References /\ Reports /\ Told
    BY DEF ResolverInv
  <1>3. ResolverIs(resolver', resolver.made, name, resolver.answer, resolver.recursion_check, resolver.destroy_called)
    BY <1>2, ResolverSets DEF StartLookup, ResolverType
  <1>4. SharedIs(shared', shared.status, shared.refs + 1)
    BY <1>2, SharedSets DEF StartLookup, ResolverType
  <1> DEFINE a == [NotResolved EXCEPT !.name = name]
             t == [at |-> "resolving", family |-> family, answer |-> a]
  <1>5. AnswerRec(a) /\ a.name = name /\ LookupRec(t) /\ t.at = "resolving" /\ t.answer = a
    BY DEF AnswerRec, LookupRec, NotResolved
  <1>6. lookup' = [lookup EXCEPT ![l] = t]
    BY DEF StartLookup
  <1> HIDE DEF t, a
  <1>7. /\ lookup' = [k \in Lookups |-> lookup'[k]] /\ lookup'[l] = t
        /\ \A k \in Lookups : k # l => lookup'[k] = lookup[k]
    BY <1>2, <1>6 DEF ResolverType
  <1>8. InFlight' = InFlight \union {l} /\ l \notin InFlight /\ Ended' = Ended /\ l \notin Ended
    BY <1>1, <1>5, <1>7 DEF InFlight, Ended
  <1>9. Reported' = Reported
    <2>1. \A k \in Ended : lookup'[k].answer = lookup[k].answer
      BY <1>7, <1>8 DEF Ended
    <2> QED BY <1>8, <2>1 DEF Reported
  <1>10. Cardinality(InFlight') = Cardinality(InFlight) + 1 /\ Cardinality(InFlight) \in Nat
    BY <1>8, SetsFinite, FS_AddElement
  <1>11. ResolverType'
    <2>1. \A k \in Lookups : LookupRec(lookup'[k]) /\ AnswerRec(lookup'[k].answer)
      BY <1>2, <1>5, <1>7 DEF ResolverType
    <2>2. shared'.refs \in Int
      BY <1>2, <1>4 DEF ResolverType, SharedIs
    <2>3. answers' \in Seq(Reported') /\ signals' \in Nat /\ callerQueue' \in BOOLEAN
      BY <1>1, <1>2, <1>9 DEF ResolverType
    <2>4. /\ CalleeRec(callee') /\ callee'.at \in {"idle", "looked", "signal"} /\ callee'.live \in BOOLEAN
      BY <1>1, <1>2, Zenon DEF ResolverType
    <2>5. resolver'.made \in BOOLEAN /\ resolver'.recursion_check \in BOOLEAN /\ resolver'.destroy_called \in BOOLEAN
      BY <1>2, <1>3 DEF ResolverType, ResolverIs
    <2> QED BY <1>3, <1>4, <1>7, <2>1, <2>2, <2>3, <2>4, <2>5, Zenon DEF ResolverType, ResolverIs, SharedIs
  <1>12. Phases'
    BY <1>1, <1>2, <1>3, <1>4 DEF Phases, ResolverIs, SharedIs
  <1>13. References'
    BY <1>1, <1>2, <1>3, <1>4, <1>10 DEF References, ResolverIs, SharedIs, ResolverType
  <1>14. Reports'
    BY <1>1, <1>2, <1>3, <1>8 DEF Reports, ResolverIs
  <1>15. Told'
    <2>1. ASSUME NEW k \in Lookups, InFlight' \union Ended' = {k}
          PROVE  resolver'.name = lookup'[k].answer.name
      <3>1. k = l
        BY <1>8, <2>1
      <3> QED BY <1>3, <1>5, <1>7, <3>1 DEF ResolverIs
    <2> QED BY <1>1, <1>2, <1>3, <1>9, <2>1 DEF Told, ResolverIs
  <1> QED BY <1>11, <1>12, <1>13, <1>14, <1>15 DEF ResolverInv

LEMMA LookupEndsKeeps ==
  ASSUME ResolverInv, NEW l \in Lookups, NEW error, NEW found, LookupEnds(l, error, found)
  PROVE  ResolverInv'
  <1> DEFINE ls == IF error = 0 THEN ResolveHostname(lookup[l].family, found) ELSE << >>
             a1 == [lookup[l].answer EXCEPT !.error = error]
             a2 == [a1 EXCEPT !.list = ls]
             t == [at |-> "answered", family |-> lookup[l].family, answer |-> a2]
  <1>1. /\ lookup[l].at = "resolving" /\ UNCHANGED <<resolver, shared, answers, callee, callerQueue, signals>>
        /\ lookup' = [lookup EXCEPT ![l].at = "answered", ![l].answer.error = error, ![l].answer.list = ls]
    BY DEF LookupEnds
  <1>2. ResolverType /\ Phases /\ References /\ Reports /\ Told
    BY DEF ResolverInv
  <1> HIDE DEF ls
  <1>3. AnswerRec(lookup[l].answer) /\ LookupRec(lookup[l]) /\ lookup = [k \in Lookups |-> lookup[k]]
    BY <1>2 DEF ResolverType
  <1>4. AnswerRec(a1) /\ a1.name = lookup[l].answer.name
    BY <1>3 DEF AnswerRec
  <1>5. AnswerRec(a2) /\ a2.name = lookup[l].answer.name
    <2> HIDE DEF a1
    <2> QED BY <1>4 DEF AnswerRec
  <1>6. lookup'[l] = t
    <2> DEFINE t1 == [lookup[l] EXCEPT !.at = "answered"]
               t2 == [t1 EXCEPT !.answer = a1]
               t3 == [t2 EXCEPT !.answer = a2]
    <2>1. t1 = [at |-> "answered", family |-> lookup[l].family, answer |-> lookup[l].answer]
      BY <1>3 DEF LookupRec
    <2>2. lookup'[l] = [[t1 EXCEPT !.answer.error = error] EXCEPT !.answer.list = ls]
      BY <1>1, <1>3
    <2> HIDE DEF t1
    <2>3. [t1 EXCEPT !.answer.error = error] = t2
      BY <2>1
    <2>4. t2 = [at |-> "answered", family |-> lookup[l].family, answer |-> a1]
      <3> HIDE DEF a1
      <3> QED BY <2>1
    <2> HIDE DEF t2, a1
    <2>5. [t2 EXCEPT !.answer.list = ls] = t3
      BY <2>4
    <2>6. t3 = t
      <3> HIDE DEF a2
      <3> QED BY <2>4
    <2> QED BY <2>2, <2>3, <2>5, <2>6
  <1> HIDE DEF a2
  <1>7. LookupRec(t) /\ t.at = "answered" /\ t.answer = a2
    BY DEF LookupRec
  <1> HIDE DEF t
  <1>8. lookup' = [k \in Lookups |-> lookup'[k]] /\ \A k \in Lookups : k # l => lookup'[k] = lookup[k]
    BY <1>1, <1>3
  <1>9. InFlight' = InFlight /\ Ended' = Ended /\ l \notin Ended
    <2>1. lookup'[l].at = "answered" /\ lookup[l].at = "resolving"
      BY <1>1, <1>6, <1>7
    <2>2. \A k \in Lookups : /\ lookup'[k].at \in {"resolving", "answered"} <=> lookup[k].at \in {"resolving", "answered"}
                             /\ lookup'[k].at = "done" <=> lookup[k].at = "done"
      BY <1>8, <2>1
    <2> QED BY <2>1, <2>2 DEF InFlight, Ended
  <1>10. Reported' = Reported
    <2>1. \A k \in Ended : lookup'[k].answer = lookup[k].answer
      BY <1>8, <1>9 DEF Ended
    <2> QED BY <1>9, <2>1 DEF Reported
  <1>11. ResolverType'
    <2>1. \A k \in Lookups : LookupRec(lookup'[k]) /\ AnswerRec(lookup'[k].answer)
      BY <1>2, <1>5, <1>6, <1>7, <1>8 DEF ResolverType
    <2>2. answers' \in Seq(Reported')
      BY <1>1, <1>2, <1>10 DEF ResolverType
    <2> QED BY <1>1, <1>2, <1>8, <2>1, <2>2, Zenon DEF ResolverType
  <1>12. Phases' /\ References' /\ Reports'
    BY <1>1, <1>2, <1>9 DEF Phases, References, Reports
  <1>13. Told'
    <2>1. \A k \in Lookups : lookup'[k].answer.name = lookup[k].answer.name
      BY <1>5, <1>6, <1>7, <1>8
    <2> QED BY <1>1, <1>2, <1>9, <1>10, <2>1 DEF Told
  <1> QED BY <1>11, <1>12, <1>13 DEF ResolverInv

LEMMA PostAnswerKeeps ==
  ASSUME ResolverInv, NEW l \in Lookups, PostAnswer(l)
  PROVE  ResolverInv'
  <1>1. /\ lookup[l].at = "answered" /\ UNCHANGED <<resolver, callee, callerQueue, signals>>
        /\ lookup' = [lookup EXCEPT ![l].at = "done"]
    BY DEF PostAnswer
  <1>2. ResolverType /\ Phases /\ References /\ Reports /\ Told
    BY DEF ResolverInv
  <1>3. LookupRec(lookup[l]) /\ lookup = [k \in Lookups |-> lookup[k]]
    BY <1>2 DEF ResolverType
  <1> DEFINE t == [lookup[l] EXCEPT !.at = "done"]
  <1>4. t.at = "done" /\ t.answer = lookup[l].answer /\ LookupRec(t)
    BY <1>3 DEF LookupRec
  <1>5. /\ lookup' = [k \in Lookups |-> lookup'[k]] /\ lookup'[l] = t
        /\ \A k \in Lookups : k # l => lookup'[k] = lookup[k]
    BY <1>1, <1>3
  <1> HIDE DEF t
  <1>6. /\ InFlight' = InFlight \ {l} /\ Ended' = Ended \union {l}
        /\ l \in InFlight /\ l \notin Ended
    <2>1. lookup'[l].at = "done" /\ lookup[l].at = "answered"
      BY <1>1, <1>4, <1>5
    <2>2. \A k \in Lookups : k # l => lookup'[k].at = lookup[k].at
      BY <1>5
    <2> QED BY <2>1, <2>2 DEF InFlight, Ended
  <1>7. \A k \in Lookups : lookup'[k].answer = lookup[k].answer
    BY <1>4, <1>5
  <1>8. Reported \subseteq Reported' /\ lookup[l].answer \in Reported'
    BY <1>6, <1>7 DEF Reported, Ended
  <1>9. /\ Cardinality(InFlight') = Cardinality(InFlight) - 1 /\ Cardinality(InFlight) \in Nat
        /\ Cardinality(Ended') = Cardinality(Ended) + 1 /\ Cardinality(Ended) \in Nat
    BY <1>6, SetsFinite, FS_AddElement, FS_RemoveElement
  <1>10. /\ answers' \in Seq(Reported')
         /\ SharedRec(shared') /\ shared'.status = shared.status
         /\ shared'.refs \in Int /\ shared'.refs - Len(answers') = shared.refs - Len(answers) - 1
         /\ ~callerQueue => answers' = << >>
         /\ resolver.made => Len(answers') = Len(answers) + 1
         /\ Len(answers) \in Nat /\ Len(answers') \in Nat
    <2>1. answers \in Seq(Reported) /\ shared.refs \in Int /\ SharedRec(shared)
      BY <1>2 DEF ResolverType
    <2>2. answers \in Seq(Reported') /\ Len(answers) \in Nat
      BY <1>8, <2>1
    <2>3. CASE shared.status = "kLive"
      <3>1. answers' = Append(answers, lookup[l].answer) /\ UNCHANGED shared
        BY <2>3 DEF PostAnswer
      <3>2. answers' \in Seq(Reported') /\ Len(answers') = Len(answers) + 1
        BY <1>8, <2>2, <3>1
      <3>3. callerQueue
        BY <1>2, <2>3 DEF Phases
      <3>4. SharedRec(shared') /\ shared'.status = shared.status /\ shared'.refs = shared.refs
        BY <2>1, <3>1
      <3> DEFINE n == Len(answers)
                 n2 == Len(answers')
                 x == shared.refs
      <3>5. n \in Nat /\ n2 = n + 1 /\ x \in Int
        BY <2>1, <2>2, <3>2
      <3> HIDE DEF n, n2, x
      <3>6. n2 \in Nat /\ x - n2 = x - n - 1
        BY <3>5
      <3>7. Len(answers') \in Nat /\ shared'.refs \in Int /\ shared'.refs - Len(answers') = shared.refs - Len(answers) - 1
        BY <3>4, <3>5, <3>6 DEF n, n2, x
      <3> QED BY <2>2, <3>2, <3>3, <3>4, <3>7
    <2>4. CASE shared.status # "kLive"
      <3>1. shared' = [shared EXCEPT !.refs = @ - 1] /\ UNCHANGED answers
        BY <2>4 DEF PostAnswer
      <3>2. SharedIs(shared', shared.status, shared.refs - 1)
        BY <2>1, <3>1, SharedSets
      <3>3. ~resolver.made /\ (~callerQueue => answers = << >>)
        BY <1>2, <2>4 DEF Phases
      <3> QED BY <2>1, <2>2, <3>1, <3>2, <3>3 DEF SharedIs
    <2> QED BY <2>3, <2>4
  <1>11. ResolverType'
    <2>1. \A k \in Lookups : LookupRec(lookup'[k]) /\ AnswerRec(lookup'[k].answer)
      BY <1>2, <1>4, <1>5 DEF ResolverType
    <2> QED BY <1>1, <1>2, <1>5, <1>10, <2>1, Zenon DEF ResolverType
  <1>12. Phases'
    BY <1>1, <1>2, <1>10 DEF Phases
  <1>13. References'
    <2>1. shared.refs \in Int /\ resolver' = resolver /\ callee' = callee
      BY <1>1, <1>2 DEF ResolverType
    <2>2. shared'.refs \in Int /\ shared'.refs - Len(answers') = shared.refs - Len(answers) - 1
          /\ Len(answers) \in Nat /\ Len(answers') \in Nat
      BY <1>10
    <2>3. References
      BY <1>2
    <2> DEFINE c == Cardinality(InFlight)
               m == IF resolver.made THEN 1 ELSE 0
               q == IF callee.at = "idle" THEN 0 ELSE 1
               n == Len(answers)
               n2 == Len(answers')
               x == shared.refs
               x2 == shared'.refs
    <2>4. m \in Int /\ q \in Int /\ x = c + n + m + q
      BY <2>3 DEF References
    <2>5. c \in Nat /\ Cardinality(InFlight') = c - 1
      BY <1>9
    <2>6. n \in Nat /\ n2 \in Nat /\ x2 \in Int /\ x \in Int /\ x2 - n2 = x - n - 1
      BY <2>1, <2>2
    <2>7. m = (IF resolver'.made THEN 1 ELSE 0) /\ q = (IF callee'.at = "idle" THEN 0 ELSE 1)
      BY <2>1
    <2> HIDE DEF c, m, q, n, n2, x, x2
    <2>8. x2 = (c - 1) + n2 + m + q
      BY <2>4, <2>5, <2>6
    <2> QED BY <2>5, <2>7, <2>8 DEF References, n2, x2
  <1>14. Reports'
    <2>1. signals \in Nat /\ signals' = signals /\ resolver' = resolver /\ callee' = callee /\ Reports
      BY <1>1, <1>2 DEF ResolverType
    <2>2. resolver.made => Len(answers') = Len(answers) + 1
      BY <1>10
    <2>3. Len(answers) \in Nat
      BY <1>10
    <2> QED BY <1>9, <2>1, <2>2, <2>3 DEF Reports
  <1>15. Told'
    <2>1. InFlight' \union Ended' = InFlight \union Ended
      BY <1>6
    <2> QED BY <1>1, <1>2, <1>7, <1>8, <2>1 DEF Told
  <1> QED BY <1>11, <1>12, <1>13, <1>14, <1>15 DEF ResolverInv

LEMMA RunAnswerKeeps ==
  ASSUME ResolverInv, RunAnswer
  PROVE  ResolverInv'
  <1>1. /\ callerQueue /\ callee.at = "idle" /\ answers # << >> /\ answers' = Tail(answers)
        /\ callee' = [at |-> "looked", live |-> shared.status = "kLive", answer |-> Head(answers)]
        /\ UNCHANGED <<resolver, shared, lookup, callerQueue, signals>>
    BY DEF RunAnswer
  <1>2. ResolverType /\ Phases /\ References /\ Reports /\ Told
    BY DEF ResolverInv
  <1>3. InFlight' = InFlight /\ Ended' = Ended /\ Reported' = Reported
    BY <1>1, LookupsSame
  <1>4. answers \in Seq(Reported)
    BY <1>2 DEF ResolverType
  <1>5. Head(answers) \in Reported /\ answers' \in Seq(Reported) /\ Len(answers') = Len(answers) - 1
        /\ Len(answers) \in Nat
    BY <1>1, <1>4
  <1>6. /\ CalleeRec(callee')
        /\ callee'.at = "looked" /\ callee'.answer = Head(answers) /\ callee'.live \in BOOLEAN
        /\ callee'.live <=> shared.status = "kLive"
    <2> DEFINE b == shared.status = "kLive"
    <2>1. b \in BOOLEAN /\ callee' = [at |-> "looked", live |-> b, answer |-> Head(answers)]
      BY <1>1
    <2> HIDE DEF b
    <2>2. callee'.live = b /\ callee'.at = "looked" /\ callee'.answer = Head(answers)
      BY <2>1
    <2>3. CalleeRec(callee')
      BY <2>1, <2>2 DEF CalleeRec
    <2> QED BY <2>1, <2>2, <2>3 DEF b
  <1>7. callee'.at \in {"idle", "looked", "signal"}
    BY <1>6
  <1>8. ResolverType'
    BY <1>1, <1>2, <1>3, <1>5, <1>6, <1>7, Zenon DEF ResolverType
  <1>9. Phases'
    BY <1>1, <1>2, <1>6 DEF Phases
  <1>10. References'
    <2>1. Cardinality(InFlight) \in Nat
      BY SetsFinite
    <2> QED BY <1>1, <1>2, <1>3, <1>5, <1>6, <2>1 DEF References
  <1>11. Reports'
    <2>1. Cardinality(Ended) \in Nat /\ signals \in Nat
      BY <1>2, SetsFinite DEF ResolverType
    <2> QED BY <1>1, <1>2, <1>3, <1>5, <1>6, <2>1 DEF Reports
  <1>12. Told'
    BY <1>1, <1>2, <1>3, <1>5, <1>6 DEF Told
  <1> QED BY <1>8, <1>9, <1>10, <1>11, <1>12 DEF ResolverInv

LEMMA NoTaskIs ==
  /\ CalleeRec(NoTask)
  /\ NoTask.at = "idle" /\ NoTask.live = FALSE /\ NoTask.answer = NotResolved
  BY DEF NoTask, CalleeRec

LEMMA ResolveDoneKeeps ==
  ASSUME ResolverInv, ResolveDone
  PROVE  ResolverInv'
  <1>1. callee.at = "looked" /\ UNCHANGED <<lookup, answers, callerQueue>>
    BY DEF ResolveDone
  <1>2. ResolverType /\ Phases /\ References /\ Reports /\ Told
    BY DEF ResolverInv
  <1>3. InFlight' = InFlight /\ Ended' = Ended /\ Reported' = Reported
    BY <1>1, LookupsSame
  <1>4. Cardinality(InFlight) \in Nat /\ Cardinality(Ended) \in Nat /\ signals \in Nat /\ Len(answers) \in Nat
    BY <1>2, SetsFinite DEF ResolverType
  <1>5. CASE callee.live
    <2>1. /\ resolver' = [resolver EXCEPT !.answer = callee.answer, !.recursion_check = TRUE]
          /\ callee' = [callee EXCEPT !.at = "signal"] /\ signals' = signals + 1 /\ UNCHANGED shared
      BY <1>5 DEF ResolveDone
    <2> DEFINE r1 == [resolver EXCEPT !.answer = callee.answer]
    <2>2. ResolverIs(r1, resolver.made, resolver.name, callee.answer, resolver.recursion_check, resolver.destroy_called)
      BY <1>2, ResolverSets DEF ResolverType
    <2>3. resolver' = [r1 EXCEPT !.recursion_check = TRUE]
      BY <2>1
    <2> HIDE DEF r1
    <2>4. ResolverIs(resolver', r1.made, r1.name, r1.answer, TRUE, r1.destroy_called)
      <3>1. ResolverRec(r1)
        BY <2>2 DEF ResolverIs
      <3> QED BY <2>3, <3>1, ResolverSets
    <2>5. ResolverIs(resolver', resolver.made, resolver.name, callee.answer, TRUE, resolver.destroy_called)
      BY <2>2, <2>4 DEF ResolverIs
    <2>6. /\ CalleeRec(callee')
          /\ callee'.at = "signal" /\ callee'.live = callee.live /\ callee'.answer = callee.answer
      BY <1>2, <2>1 DEF ResolverType, CalleeRec
    <2>7. resolver.made
      BY <1>1, <1>2, <1>5 DEF Phases
    <2>8. ResolverType'
      <3>1. resolver'.made \in BOOLEAN /\ resolver'.recursion_check \in BOOLEAN /\ resolver'.destroy_called \in BOOLEAN
        BY <1>2, <2>5 DEF ResolverType, ResolverIs
      <3>2. callee'.at \in {"idle", "looked", "signal"} /\ callee'.live \in BOOLEAN
        <4>1. callee.live \in BOOLEAN
          BY <1>2 DEF ResolverType
        <4> QED BY <2>6, <4>1
      <3>3. signals' \in Nat
        BY <1>4, <2>1
      <3> QED BY <1>1, <1>2, <1>3, <2>1, <2>5, <2>6, <3>1, <3>2, <3>3, Zenon DEF ResolverType, ResolverIs
    <2>9. Phases'
      BY <1>1, <1>2, <2>1, <2>5, <2>6, <2>7 DEF Phases, ResolverIs
    <2>10. References'
      BY <1>1, <1>2, <1>3, <2>1, <2>5, <2>6 DEF References, ResolverIs
    <2>11. Reports'
      BY <1>1, <1>2, <1>3, <1>4, <2>1, <2>5, <2>6, <2>7 DEF Reports, ResolverIs
    <2>12. Told'
      BY <1>1, <1>2, <1>3, <2>5, <2>6 DEF Told, ResolverIs
    <2> QED BY <2>8, <2>9, <2>10, <2>11, <2>12 DEF ResolverInv
  <1>6. CASE ~callee.live
    <2>1. /\ callee' = NoTask /\ shared' = [shared EXCEPT !.refs = @ - 1] /\ UNCHANGED <<resolver, signals>>
      BY <1>6 DEF ResolveDone
    <2>2. SharedIs(shared', shared.status, shared.refs - 1)
      BY <1>2, <2>1, SharedSets DEF ResolverType
    <2>3. ~resolver.made
      BY <1>1, <1>2, <1>6 DEF Phases
    <2>4. ResolverType'
      <3>1. shared'.refs \in Int /\ SharedRec(shared')
        BY <1>2, <2>2 DEF ResolverType, SharedIs
      <3>2. /\ CalleeRec(callee')
            /\ callee'.at \in {"idle", "looked", "signal"} /\ callee'.live \in BOOLEAN
        BY <2>1, NoTaskIs
      <3> QED BY <1>1, <1>2, <1>3, <2>1, <3>1, <3>2, Zenon DEF ResolverType
    <2>5. Phases'
      BY <1>1, <1>2, <2>1, <2>2, <2>3, NoTaskIs DEF Phases, SharedIs
    <2>6. References'
      BY <1>1, <1>2, <1>3, <1>4, <2>1, <2>2, <2>3, NoTaskIs DEF References, SharedIs
    <2>7. Reports'
      BY <2>1, <2>3 DEF Reports
    <2>8. Told'
      BY <1>1, <1>2, <1>3, <2>1, NoTaskIs DEF Told
    <2> QED BY <2>4, <2>5, <2>6, <2>7, <2>8 DEF ResolverInv
  <1> QED BY <1>5, <1>6

(* MaybeSelfDestruct: what comes of the resolver r, and of State. *)
Destructed(r, given) ==
  IF r.recursion_check
  THEN /\ ResolverIs(resolver', r.made, r.name, r.answer, FALSE, r.destroy_called)
       /\ SharedIs(shared', shared.status, shared.refs - given)
  ELSE /\ ResolverIs(resolver', FALSE, r.name, r.answer, r.recursion_check, r.destroy_called)
       /\ SharedIs(shared', "kDead", shared.refs - 1 - given)

LEMMA DestructsTo ==
  ASSUME ResolverType, NEW r, ResolverRec(r), NEW given, MaybeSelfDestruct(r, given)
  PROVE  Destructed(r, given)
  <1>0. SharedRec(shared)
    BY DEF ResolverType
  <1>1. CASE r.recursion_check
    <2>1. resolver' = [r EXCEPT !.recursion_check = FALSE] /\ shared' = [shared EXCEPT !.refs = @ - given]
      BY <1>1 DEF MaybeSelfDestruct
    <2>2. ResolverIs(resolver', r.made, r.name, r.answer, FALSE, r.destroy_called)
      BY <2>1, ResolverSets
    <2>3. SharedIs(shared', shared.status, shared.refs - given)
      BY <1>0, <2>1, SharedSets
    <2> QED BY <1>1, <2>2, <2>3 DEF Destructed
  <1>2. CASE ~r.recursion_check
    <2>1. resolver' = [r EXCEPT !.made = FALSE] /\ shared' = [status |-> "kDead", refs |-> shared.refs - 1 - given]
      BY <1>2 DEF MaybeSelfDestruct
    <2>2. ResolverIs(resolver', FALSE, r.name, r.answer, r.recursion_check, r.destroy_called)
      BY <2>1, ResolverSets
    <2>3. SharedIs(shared', "kDead", shared.refs - 1 - given)
      BY <2>1 DEF SharedIs, SharedRec
    <2> QED BY <1>2, <2>2, <2>3 DEF Destructed
  <1> QED BY <1>1, <1>2

LEMMA DestructedState ==
  ASSUME NEW r, NEW given \in Int, shared.refs \in Int, Destructed(r, given)
  PROVE  /\ SharedRec(shared') /\ shared'.refs \in Int
         /\ r.recursion_check => shared'.refs = shared.refs - given /\ shared'.status = shared.status
         /\ ~r.recursion_check => shared'.refs = shared.refs - 1 - given /\ shared'.status = "kDead"
         /\ r.recursion_check => (resolver'.made = r.made)
         /\ ~r.recursion_check => ~resolver'.made
  <1>1. CASE r.recursion_check
    <2>1. SharedIs(shared', shared.status, shared.refs - given) /\ resolver'.made = r.made
      BY <1>1 DEF Destructed, ResolverIs
    <2>2. SharedRec(shared') /\ shared'.status = shared.status /\ shared'.refs = shared.refs - given
      BY <2>1 DEF SharedIs
    <2>3. shared'.refs \in Int
      BY <2>2
    <2> QED BY <1>1, <2>1, <2>2, <2>3
  <1>2. CASE ~r.recursion_check
    <2>1. SharedIs(shared', "kDead", shared.refs - 1 - given) /\ resolver'.made = FALSE
      BY <1>2 DEF Destructed, ResolverIs
    <2>2. SharedRec(shared') /\ shared'.status = "kDead" /\ shared'.refs = shared.refs - 1 - given
      BY <2>1 DEF SharedIs
    <2>3. shared'.refs \in Int
      BY <2>2
    <2> QED BY <1>2, <2>1, <2>2, <2>3
  <1> QED BY <1>1, <1>2

LEMMA SignalEndsKeeps ==
  ASSUME ResolverInv, SignalEnds
  PROVE  ResolverInv'
  <1>1. callee.at = "signal" /\ callee' = NoTask /\ UNCHANGED <<lookup, answers, callerQueue, signals>>
    BY DEF SignalEnds
  <1>2. ResolverType /\ Phases /\ References /\ Reports /\ Told
    BY DEF ResolverInv
  <1>3. InFlight' = InFlight /\ Ended' = Ended /\ Reported' = Reported
    BY <1>1, LookupsSame
  <1>4. Cardinality(InFlight) \in Nat /\ Cardinality(Ended) \in Nat /\ signals \in Nat /\ Len(answers) \in Nat
        /\ shared.refs \in Int
    BY <1>2, SetsFinite DEF ResolverType
  <1>5. Destructed(resolver, 1)
    BY <1>2, DestructsTo DEF SignalEnds, ResolverType
  <1>6. resolver.made /\ resolver.made \in BOOLEAN /\ resolver.recursion_check \in BOOLEAN /\ resolver.destroy_called \in BOOLEAN
    BY <1>1, <1>2 DEF Phases, ResolverType
  <1>7. ResolverType'
    <2>1. /\ ResolverRec(resolver') /\ resolver'.made \in BOOLEAN /\ resolver'.recursion_check \in BOOLEAN
          /\ resolver'.destroy_called \in BOOLEAN
      BY <1>5, <1>6 DEF Destructed, ResolverIs
    <2>2. shared'.refs \in Int /\ SharedRec(shared')
      BY <1>4, <1>5, DestructedState
    <2>3. /\ CalleeRec(callee')
          /\ callee'.at \in {"idle", "looked", "signal"} /\ callee'.live \in BOOLEAN
      BY <1>1, NoTaskIs
    <2> QED BY <1>1, <1>2, <1>3, <2>1, <2>2, <2>3, Zenon DEF ResolverType
  <1>8. Phases'
    <2>1. callerQueue
      BY <1>2, <1>6 DEF Phases
    <2> QED BY <1>1, <1>2, <1>5, <1>6, <2>1, NoTaskIs DEF Phases, Destructed, ResolverIs, SharedIs
  <1>9. References'
    <2>1. /\ resolver.recursion_check => shared'.refs = shared.refs - 1 /\ resolver'.made
          /\ ~resolver.recursion_check => shared'.refs = shared.refs - 1 - 1 /\ ~resolver'.made
      BY <1>4, <1>5, <1>6, DestructedState
    <2>2. shared.refs = Cardinality(InFlight) + Len(answers) + 1 + 1
      BY <1>1, <1>2, <1>6 DEF References
    <2>3. callee'.at = "idle"
      BY <1>1, NoTaskIs
    <2> QED BY <1>1, <1>3, <1>4, <2>1, <2>2, <2>3 DEF References
  <1>10. Reports'
    BY <1>1, <1>2, <1>3, <1>6, NoTaskIs DEF Reports
  <1>11. Told'
    <2>1. resolver'.name = resolver.name /\ resolver'.answer = resolver.answer
      BY <1>5 DEF Destructed, ResolverIs
    <2> QED BY <1>1, <1>2, <1>3, <2>1, NoTaskIs DEF Told
  <1> QED BY <1>7, <1>8, <1>9, <1>10, <1>11 DEF ResolverInv

LEMMA DestroyKeeps ==
  ASSUME ResolverInv, Destroy
  PROVE  ResolverInv'
  <1> DEFINE r == [resolver EXCEPT !.destroy_called = TRUE]
  <1>1. /\ callerQueue /\ callee.at \in {"idle", "signal"} /\ resolver.made /\ ~resolver.destroy_called
        /\ UNCHANGED <<lookup, answers, callee, callerQueue, signals>> /\ MaybeSelfDestruct(r, 0)
    BY DEF Destroy, CallerRuns
  <1>2. ResolverType /\ Phases /\ References /\ Reports /\ Told
    BY DEF ResolverInv
  <1>3. InFlight' = InFlight /\ Ended' = Ended /\ Reported' = Reported
    BY <1>1, LookupsSame
  <1>4. Cardinality(InFlight) \in Nat /\ Cardinality(Ended) \in Nat /\ signals \in Nat /\ Len(answers) \in Nat
        /\ shared.refs \in Int
    BY <1>2, SetsFinite DEF ResolverType
  <1>5. ResolverIs(r, resolver.made, resolver.name, resolver.answer, resolver.recursion_check, TRUE)
    BY <1>2, ResolverSets DEF ResolverType
  <1> HIDE DEF r
  <1>6. Destructed(r, 0)
    BY <1>1, <1>2, <1>5, DestructsTo DEF ResolverIs
  <1>7. resolver.made \in BOOLEAN /\ resolver.recursion_check \in BOOLEAN
    BY <1>2 DEF ResolverType
  <1>8. ResolverType'
    <2>1. /\ ResolverRec(resolver') /\ resolver'.made \in BOOLEAN /\ resolver'.recursion_check \in BOOLEAN
          /\ resolver'.destroy_called \in BOOLEAN
      BY <1>5, <1>6, <1>7 DEF Destructed, ResolverIs
    <2>2. shared'.refs \in Int /\ SharedRec(shared')
      BY <1>4, <1>6, DestructedState
    <2> QED BY <1>1, <1>2, <1>3, <2>1, <2>2, Zenon DEF ResolverType
  <1>9. Phases'
    <2>1. resolver.recursion_check <=> callee.at = "signal"
      BY <1>1, <1>2 DEF Phases
    <2> QED BY <1>1, <1>2, <1>5, <1>6, <2>1 DEF Phases, Destructed, ResolverIs, SharedIs
  <1>10. References'
    <2>0. r.recursion_check = resolver.recursion_check /\ r.made = resolver.made
      BY <1>5 DEF ResolverIs
    <2>1. /\ resolver.recursion_check => shared'.refs = shared.refs - 0 /\ resolver'.made
          /\ ~resolver.recursion_check => shared'.refs = shared.refs - 1 - 0 /\ ~resolver'.made
      <3>1. 0 \in Int
        OBVIOUS
      <3>2. /\ r.recursion_check => shared'.refs = shared.refs - 0 /\ shared'.status = shared.status
            /\ ~r.recursion_check => shared'.refs = shared.refs - 1 - 0 /\ shared'.status = "kDead"
            /\ r.recursion_check => (resolver'.made = r.made)
            /\ ~r.recursion_check => ~resolver'.made
        BY <1>4, <1>6, <3>1, DestructedState
      <3> QED BY <1>1, <2>0, <3>2
    <2>2. shared.refs = Cardinality(InFlight) + Len(answers) + 1 + (IF callee.at = "idle" THEN 0 ELSE 1)
      BY <1>1, <1>2 DEF References
    <2> QED BY <1>1, <1>3, <1>4, <2>1, <2>2 DEF References
  <1>11. Reports'
    BY <1>1, <1>2, <1>3 DEF Reports
  <1>12. Told'
    <2>1. resolver'.name = resolver.name /\ resolver'.answer = resolver.answer
      BY <1>5, <1>6 DEF Destructed, ResolverIs
    <2> QED BY <1>1, <1>2, <1>3, <2>1 DEF Told
  <1> QED BY <1>8, <1>9, <1>10, <1>11, <1>12 DEF ResolverInv

LEMMA CallerQueueEndsKeeps ==
  ASSUME ResolverInv, CallerQueueEnds
  PROVE  ResolverInv'
  <1>1. /\ ~resolver.made /\ callee.at = "idle" /\ callerQueue' = FALSE /\ answers' = << >>
        /\ shared' = [shared EXCEPT !.refs = @ - Len(answers)]
        /\ UNCHANGED <<resolver, lookup, callee, signals>>
    BY DEF CallerQueueEnds
  <1>2. ResolverType /\ Phases /\ References /\ Reports /\ Told
    BY DEF ResolverInv
  <1>3. InFlight' = InFlight /\ Ended' = Ended /\ Reported' = Reported
    BY <1>1, LookupsSame
  <1>4. Cardinality(InFlight) \in Nat /\ Len(answers) \in Nat /\ shared.refs \in Int
    BY <1>2, SetsFinite DEF ResolverType
  <1>5. SharedIs(shared', shared.status, shared.refs - Len(answers))
    BY <1>1, <1>2, SharedSets DEF ResolverType
  <1>6. ResolverType'
    <2>1. shared'.refs \in Int /\ SharedRec(shared')
      BY <1>4, <1>5 DEF SharedIs
    <2>2. answers' \in Seq(Reported')
      BY <1>1
    <2>3. callerQueue' \in BOOLEAN
      BY <1>1
    <2> QED BY <1>1, <1>2, <1>3, <2>1, <2>2, <2>3, Zenon DEF ResolverType
  <1>7. Phases'
    BY <1>1, <1>2, <1>5 DEF Phases, SharedIs
  <1>8. References'
    <2>1. Len(answers') = 0
      BY <1>1
    <2> QED BY <1>1, <1>2, <1>3, <1>4, <1>5, <2>1 DEF References, SharedIs
  <1>9. Reports' /\ Told'
    BY <1>1, <1>2, <1>3 DEF Reports, Told
  <1> QED BY <1>6, <1>7, <1>8, <1>9 DEF ResolverInv

LEMMA ResolverSteps ==
  ASSUME ResolverInv, [ResolverNext]_resolverVars
  PROVE  ResolverInv'
  <1>1. CASE UNCHANGED resolverVars
    BY <1>1, Zenon DEF resolverVars, ResolverInv, ResolverType, Phases, References, Reports, Told, Reported, InFlight, Ended
  <1>2. ASSUME NEW l \in Lookups, NEW n, NEW f, StartLookup(l, n, f)
        PROVE  ResolverInv'
    BY <1>2, StartLookupKeeps
  <1>3. ASSUME NEW l \in Lookups, NEW e, NEW found, LookupEnds(l, e, found)
        PROVE  ResolverInv'
    BY <1>3, LookupEndsKeeps
  <1>4. ASSUME NEW l \in Lookups, PostAnswer(l)
        PROVE  ResolverInv'
    BY <1>4, PostAnswerKeeps
  <1>5. CASE RunAnswer \/ ResolveDone \/ SignalEnds \/ Destroy \/ CallerQueueEnds
    BY <1>5, RunAnswerKeeps, ResolveDoneKeeps, SignalEndsKeeps, DestroyKeeps, CallerQueueEndsKeeps
  <1> QED BY <1>1, <1>2, <1>3, <1>4, <1>5 DEF ResolverNext

-----------------------------------------------------------------------------
(* Whatever the sockets' users do in their handlers, whatever arrives and
   however waits, signals and wake-ups interleave: events of one opening of a
   descriptor reach no other, epoll's interest follows the enabled events,
   input of a connected socket is watched for or was told of; and a lookup
   answers to a resolver and a queue that exist, once. *)
THEOREM SocketsAlwaysServed == ServerSpec /\ ResolverSpec => []SocketsServed
  <1>1. ServerInit => ServerInv
    BY ServerStarts
  <1>2. ServerInv /\ [ServerNext]_serverVars => ServerInv'
    BY ServerSteps
  <1>3. ResolverInit => ResolverInv
    BY ResolverStarts
  <1>4. ResolverInv /\ [ResolverNext]_resolverVars => ResolverInv'
    BY ResolverSteps
  <1>5. ServerInv /\ ResolverInv => SocketsServed
    BY ServerIsSafe, ResolverIsSafe DEF SocketsServed
  <1> QED BY <1>1, <1>2, <1>3, <1>4, <1>5, PTL DEF ServerSpec, ResolverSpec

-----------------------------------------------------------------------------
(***************************************************************************)
(* Socket addresses.  The order is lexicographic: bits of one family by    *)
(* the first that differs, which is a least element, then families, then   *)
(* the names of addresses that are nowhere yet, then ports.                *)
(***************************************************************************)
(* Among numbers there is a least one. *)
LEMMA LeastIndex ==
  ASSUME NEW S, S \subseteq Nat, S # {}
  PROVE  \E n \in S : \A k \in S : n <= k
  <1>1. PICK n \in S : \A k \in S : ~ (<<k, n>> \in OpToRel(<, Nat))
    BY NatLessThanWellFounded, WFMin
  <1>2. \A k \in S : k \in Nat /\ n \in Nat /\ ~ (k < n)
    BY <1>1 DEF OpToRel
  <1> QED BY <1>2

Words(n) == [1 .. n -> {0, 1}]

LEMMA BitsFirstDiffer ==
  ASSUME NEW n \in Nat, NEW a \in Words(n), NEW b \in Words(n), a # b
  PROVE  \E i \in 1 .. n : a[i] # b[i] /\ \A j \in 1 .. i - 1 : a[j] = b[j]
  <1> DEFINE S == { i \in 1 .. n : a[i] # b[i] }
  <1>1. S \subseteq Nat /\ S # {}
    BY DEF Words
  <1>2. PICK i \in S : \A k \in S : i <= k
    BY <1>1, LeastIndex
  <1> QED BY <1>2

(* One of two numbers is the less, or they are the same. *)
LEMMA BitsOrdered ==
  ASSUME NEW n \in Nat, NEW a \in Words(n), NEW b \in Words(n)
  PROVE  /\ a # b => LessBits(a, b) \/ LessBits(b, a)
         /\ ~ (LessBits(a, b) /\ LessBits(b, a)) /\ ~ LessBits(a, a)
  <1>1. DOMAIN a = 1 .. n /\ DOMAIN b = 1 .. n /\ \A i \in 1 .. n : a[i] \in {0, 1} /\ b[i] \in {0, 1}
    BY DEF Words
  <1>2. a # b => LessBits(a, b) \/ LessBits(b, a)
    <2> SUFFICES ASSUME a # b
                 PROVE  LessBits(a, b) \/ LessBits(b, a)
      OBVIOUS
    <2>1. PICK i \in 1 .. n : a[i] # b[i] /\ \A j \in 1 .. i - 1 : a[j] = b[j]
      BY BitsFirstDiffer
    <2> QED BY <1>1, <2>1 DEF LessBits
  <1>3. ASSUME LessBits(a, b), LessBits(b, a)
        PROVE  FALSE
    <2>1. PICK i \in 1 .. n : a[i] < b[i] /\ \A j \in 1 .. i - 1 : a[j] = b[j]
      BY <1>1, <1>3 DEF LessBits
    <2>2. PICK k \in 1 .. n : b[k] < a[k] /\ \A j \in 1 .. k - 1 : b[j] = a[j]
      BY <1>1, <1>3 DEF LessBits
    <2>3. i < k \/ k < i \/ i = k
      OBVIOUS
    <2> QED BY <1>1, <2>1, <2>2, <2>3
  <1>4. ~ LessBits(a, a)
    BY <1>1 DEF LessBits
  <1> QED BY <1>2, <1>3, <1>4

LEMMA BitsTransitive ==
  ASSUME NEW n \in Nat, NEW a \in Words(n), NEW b \in Words(n), NEW c \in Words(n),
         LessBits(a, b), LessBits(b, c)
  PROVE  LessBits(a, c)
  <1>1. /\ DOMAIN a = 1 .. n /\ DOMAIN b = 1 .. n
        /\ \A i \in 1 .. n : a[i] \in {0, 1} /\ b[i] \in {0, 1} /\ c[i] \in {0, 1}
    BY DEF Words
  <1>2. PICK i \in 1 .. n : a[i] < b[i] /\ \A j \in 1 .. i - 1 : a[j] = b[j]
    BY <1>1 DEF LessBits
  <1>3. PICK k \in 1 .. n : b[k] < c[k] /\ \A j \in 1 .. k - 1 : b[j] = c[j]
    BY <1>1 DEF LessBits
  <1> DEFINE m == IF i <= k THEN i ELSE k
  <1>4. m \in 1 .. n /\ m <= i /\ m <= k /\ (m = i \/ m = k)
    OBVIOUS
  <1> HIDE DEF m
  <1>5. \A j \in 1 .. m - 1 : a[j] = c[j]
    <2> SUFFICES ASSUME NEW j \in 1 .. m - 1
                 PROVE  a[j] = c[j]
      OBVIOUS
    <2>1. j \in 1 .. i - 1 /\ j \in 1 .. k - 1
      BY <1>4
    <2> QED BY <1>2, <1>3, <2>1
  <1>6. a[m] < c[m]
    <2>1. CASE i < k
      <3>1. m = i /\ i \in 1 .. k - 1
        BY <1>4, <2>1
      <3> QED BY <1>2, <1>3, <3>1
    <2>2. CASE k < i
      <3>1. m = k /\ k \in 1 .. i - 1
        BY <1>4, <2>2
      <3> QED BY <1>2, <1>3, <3>1
    <2>3. CASE i = k
      BY <1>1, <1>2, <1>3, <1>4, <2>3
    <2>4. i < k \/ k < i \/ i = k
      OBVIOUS
    <2> QED BY <2>1, <2>2, <2>3, <2>4
  <1> QED BY <1>1, <1>4, <1>5, <1>6 DEF LessBits

Families == {"unspec", "v4", "v6"}

LEMMA IpIs ==
  ASSUME NEW a \in IpSpace
  PROVE  /\ a.family \in Families /\ Bits(a.family) \in Nat /\ a.bits \in Words(Bits(a.family))
         /\ a = [family |-> a.family, bits |-> a.bits] /\ Family(a) \in Nat
  <1>1. PICK f \in Families : a \in IpsOf(f)
    BY DEF IpSpace, Families
  <1>2. a.family = f /\ a.bits \in Words(Bits(f)) /\ a = [family |-> a.family, bits |-> a.bits]
    BY <1>1 DEF IpsOf, Words
  <1>3. Bits(f) \in Nat
    BY DEF Bits
  <1>4. Family(a) \in Nat
    BY DEF Family
  <1> QED BY <1>2, <1>3, <1>4

LEMMA FamiliesDiffer ==
  ASSUME NEW a \in IpSpace, NEW b \in IpSpace
  PROVE  Family(a) = Family(b) <=> a.family = b.family
  BY IpIs DEF Family, Families

LEMMA IpsOrdered ==
  ASSUME NEW a \in IpSpace, NEW b \in IpSpace
  PROVE  /\ a # b => LessIp(a, b) \/ LessIp(b, a)
         /\ ~ (LessIp(a, b) /\ LessIp(b, a)) /\ ~ LessIp(a, a)
  <1>1. /\ Family(a) \in Nat /\ Family(b) \in Nat /\ Bits(a.family) \in Nat
        /\ a.bits \in Words(Bits(a.family)) /\ b.bits \in Words(Bits(b.family))
        /\ a = [family |-> a.family, bits |-> a.bits] /\ b = [family |-> b.family, bits |-> b.bits]
    BY IpIs
  <1>2. ~ LessIp(a, a)
    BY <1>1, BitsOrdered DEF LessIp
  <1>3. CASE a.family = b.family
    <2>1. Family(a) = Family(b) /\ (a # b => a.bits # b.bits)
      BY <1>1, <1>3, FamiliesDiffer
    <2>2. /\ a.bits # b.bits => LessBits(a.bits, b.bits) \/ LessBits(b.bits, a.bits)
          /\ ~ (LessBits(a.bits, b.bits) /\ LessBits(b.bits, a.bits))
      BY <1>1, <1>3, BitsOrdered
    <2> QED BY <1>1, <1>2, <1>3, <2>1, <2>2 DEF LessIp
  <1>4. CASE a.family # b.family
    <2>1. Family(a) # Family(b)
      BY <1>4, FamiliesDiffer
    <2> QED BY <1>1, <1>2, <1>4, <2>1 DEF LessIp
  <1> QED BY <1>3, <1>4

LEMMA IpsTransitive ==
  ASSUME NEW a \in IpSpace, NEW b \in IpSpace, NEW c \in IpSpace, LessIp(a, b), LessIp(b, c)
  PROVE  LessIp(a, c)
  <1>1. /\ Family(a) \in Nat /\ Family(b) \in Nat /\ Family(c) \in Nat /\ Bits(a.family) \in Nat
        /\ a.bits \in Words(Bits(a.family)) /\ b.bits \in Words(Bits(b.family))
        /\ c.bits \in Words(Bits(c.family))
    BY IpIs
  <1>2. Family(a) <= Family(b) /\ Family(b) <= Family(c)
    BY <1>1, FamiliesDiffer DEF LessIp
  <1>3. CASE a.family = b.family /\ b.family = c.family
    <2>1. LessBits(a.bits, b.bits) /\ LessBits(b.bits, c.bits)
      <3>1. Family(a) = Family(b) /\ Family(b) = Family(c)
        BY <1>3, FamiliesDiffer
      <3> QED BY <1>1, <3>1 DEF LessIp
    <2>2. LessBits(a.bits, c.bits)
      BY <1>1, <1>3, <2>1, BitsTransitive
    <2> QED BY <1>3, <2>2 DEF LessIp
  <1>4. CASE ~ (a.family = b.family /\ b.family = c.family)
    <2>1. Family(a) # Family(b) \/ Family(b) # Family(c)
      BY <1>4, FamiliesDiffer
    <2> QED BY <1>1, <1>2, <2>1 DEF LessIp
  <1> QED BY <1>3, <1>4

HostSpace == [n : Nat, ip : IpSpace]
AddrSpace == [host : HostSpace, literal : BOOLEAN, ip : IpSpace, port : Nat, scope : Int]

(* The IP of a literal is that of its text, and a port has 16 bits. *)
IsAddress(a) ==
  /\ a \in AddrSpace
  /\ a.literal = (a.host.ip # NilIp)
  /\ a.port % 2^16 = a.port

LEMMA HostsOrdered ==
  ASSUME NEW a \in HostSpace, NEW b \in HostSpace
  PROVE  /\ a # b => LessHost(a, b) \/ LessHost(b, a)
         /\ ~ (LessHost(a, b) /\ LessHost(b, a)) /\ ~ LessHost(a, a)
  <1>1. a.n \in Nat /\ b.n \in Nat /\ a.ip \in IpSpace /\ b.ip \in IpSpace
    BY DEF HostSpace
  <1>2. a # b => a.n # b.n \/ a.ip # b.ip
    BY DEF HostSpace
  <1>3. /\ a.ip # b.ip => LessIp(a.ip, b.ip) \/ LessIp(b.ip, a.ip)
        /\ ~ (LessIp(a.ip, b.ip) /\ LessIp(b.ip, a.ip)) /\ ~ LessIp(a.ip, a.ip)
    BY <1>1, IpsOrdered
  <1> QED BY <1>1, <1>2, <1>3 DEF LessHost

LEMMA HostsTransitive ==
  ASSUME NEW a \in HostSpace, NEW b \in HostSpace, NEW c \in HostSpace, LessHost(a, b), LessHost(b, c)
  PROVE  LessHost(a, c)
  <1>1. /\ a.n \in Nat /\ b.n \in Nat /\ c.n \in Nat
        /\ a.ip \in IpSpace /\ b.ip \in IpSpace /\ c.ip \in IpSpace
    BY DEF HostSpace
  <1>2. LessIp(a.ip, b.ip) /\ LessIp(b.ip, c.ip) => LessIp(a.ip, c.ip)
    BY <1>1, IpsTransitive
  <1> QED BY <1>1, <1>2 DEF LessHost

LEMMA AddressParts ==
  ASSUME NEW a \in AddrSpace
  PROVE  a.host \in HostSpace /\ a.ip \in IpSpace /\ a.port \in Nat /\ a.scope \in Int
  BY DEF AddrSpace

(* Exactly one of less, equal and greater. *)
Compared(a, b) ==
  /\ LessAddr(a, b) \/ EqualAddr(a, b) \/ LessAddr(b, a)
  /\ ~ (LessAddr(a, b) /\ EqualAddr(a, b)) /\ ~ (EqualAddr(a, b) /\ LessAddr(b, a))
  /\ ~ (LessAddr(a, b) /\ LessAddr(b, a))

LEMMA AddressesCompared ==
  ASSUME NEW a \in AddrSpace, NEW b \in AddrSpace
  PROVE  Compared(a, b)
  <1>1. /\ a.host \in HostSpace /\ a.ip \in IpSpace /\ a.port \in Nat
        /\ b.host \in HostSpace /\ b.ip \in IpSpace /\ b.port \in Nat
    BY AddressParts
  <1>2. /\ a.ip # b.ip => LessIp(a.ip, b.ip) \/ LessIp(b.ip, a.ip)
        /\ ~ (LessIp(a.ip, b.ip) /\ LessIp(b.ip, a.ip))
    BY <1>1, IpsOrdered
  <1>3. /\ a.host # b.host => LessHost(a.host, b.host) \/ LessHost(b.host, a.host)
        /\ ~ (LessHost(a.host, b.host) /\ LessHost(b.host, a.host))
    BY <1>1, HostsOrdered
  <1>4. CASE a.ip # b.ip
    BY <1>2, <1>4 DEF Compared, LessAddr, EqualAddr
  <1>5. CASE a.ip = b.ip
    <2>1. CASE (IsAny(a.ip) \/ a.ip = NilIp) /\ a.host # b.host
      BY <1>3, <1>5, <2>1 DEF Compared, LessAddr, EqualAddr
    <2>2. CASE ~ ((IsAny(a.ip) \/ a.ip = NilIp) /\ a.host # b.host)
      BY <1>1, <1>5, <2>2 DEF Compared, LessAddr, EqualAddr
    <2> QED BY <2>1, <2>2
  <1> QED BY <1>4, <1>5

LEMMA AddressesTransitive ==
  ASSUME NEW a \in AddrSpace, NEW b \in AddrSpace, NEW c \in AddrSpace, LessAddr(a, b), LessAddr(b, c)
  PROVE  LessAddr(a, c)
  <1>1. /\ a.host \in HostSpace /\ a.ip \in IpSpace /\ a.port \in Nat
        /\ b.host \in HostSpace /\ b.ip \in IpSpace /\ b.port \in Nat
        /\ c.host \in HostSpace /\ c.ip \in IpSpace /\ c.port \in Nat
    BY AddressParts
  <1>2. CASE a.ip = b.ip /\ b.ip = c.ip
    <2>1. CASE ~ Nowhere(a.ip)
      BY <1>1, <1>2, <2>1 DEF LessAddr, Nowhere
    <2>2. CASE Nowhere(a.ip)
      <3>1. /\ IF a.host # b.host THEN LessHost(a.host, b.host) ELSE a.port < b.port
            /\ IF b.host # c.host THEN LessHost(b.host, c.host) ELSE b.port < c.port
        BY <1>2, <2>2 DEF LessAddr, Nowhere
      <3>2. IF a.host # c.host THEN LessHost(a.host, c.host) ELSE a.port < c.port
        <4>1. CASE a.host # b.host /\ b.host # c.host
          <5>1. LessHost(a.host, c.host)
            BY <1>1, <3>1, <4>1, HostsTransitive
          <5>2. a.host # c.host
            BY <1>1, <5>1, HostsOrdered
          <5> QED BY <5>1, <5>2
        <4>2. CASE a.host = b.host /\ b.host = c.host
          BY <1>1, <3>1, <4>2
        <4>3. CASE (a.host = b.host) # (b.host = c.host)
          BY <3>1, <4>3
        <4> QED BY <4>1, <4>2, <4>3
      <3> QED BY <1>2, <2>2, <3>2 DEF LessAddr, Nowhere
    <2> QED BY <2>1, <2>2
  <1>3. CASE a.ip # b.ip /\ b.ip # c.ip
    <2>1. LessIp(a.ip, b.ip) /\ LessIp(b.ip, c.ip)
      BY <1>3 DEF LessAddr
    <2>2. LessIp(a.ip, c.ip)
      BY <1>1, <2>1, IpsTransitive
    <2>3. a.ip # c.ip
      BY <1>1, <2>2, IpsOrdered
    <2> QED BY <2>2, <2>3 DEF LessAddr
  <1>4. CASE a.ip = b.ip /\ b.ip # c.ip
    BY <1>4 DEF LessAddr
  <1>5. CASE a.ip # b.ip /\ b.ip = c.ip
    BY <1>5 DEF LessAddr
  <1> QED BY <1>2, <1>3, <1>4, <1>5

(* An address compares as any equal one does. *)
LEMMA EqualsCompareAlike ==
  ASSUME NEW a \in AddrSpace, NEW b \in AddrSpace, NEW c \in AddrSpace, EqualAddr(a, b)
  PROVE  (LessAddr(a, c) <=> LessAddr(b, c)) /\ (LessAddr(c, a) <=> LessAddr(c, b))
  <1>1. a.ip = b.ip /\ a.port = b.port /\ (Nowhere(a.ip) => a.host = b.host)
    BY DEF EqualAddr, Nowhere
  <1>2. CASE Nowhere(a.ip)
    BY <1>1, <1>2 DEF LessAddr
  <1>3. CASE ~ Nowhere(a.ip)
    BY <1>1, <1>3 DEF LessAddr, Nowhere
  <1> QED BY <1>2, <1>3

AddrInv == addr \in [{1, 2} -> AddrSpace] /\ IsAddress(addr[1]) /\ IsAddress(addr[2])

LEMMA NilIpIs == NilIp \in IpSpace /\ NilIp.family = "unspec"
  <1>1. << >> \in [1 .. 0 -> {0, 1}]
    OBVIOUS
  <1> QED BY <1>1 DEF NilIp, IpSpace, IpsOf, Bits

LEMMA HostsAre ==
  /\ \A h \in Hosts : h \in HostSpace
  /\ NoHost \in HostSpace /\ NoHost.ip = NilIp
  /\ \A ip \in IpSpace : Printed(ip) \in HostSpace /\ Printed(ip).ip = ip
  /\ Ips \subseteq IpSpace /\ Ports \subseteq Int /\ Scopes \subseteq Int /\ Cuts \subseteq HostSpace
  BY NilIpIs, AddressAssumption DEF Hosts, Cuts, HostSpace, NoHost, Host, Printed

LEMMA NilIsAddress == IsAddress(NilAddr)
  <1>1. 0 % 2^16 = 0 /\ 0 \in Nat /\ 0 \in Int
    OBVIOUS
  <1>2. NilAddr \in AddrSpace
    BY <1>1, NilIpIs, HostsAre DEF AddrSpace, NilAddr
  <1>3. NilAddr.literal = FALSE /\ NilAddr.host.ip = NilIp /\ NilAddr.port = 0
    BY HostsAre DEF NilAddr
  <1> QED BY <1>1, <1>2, <1>3 DEF IsAddress

(* An address is its family and its bits. *)
LEMMA IpIsParts ==
  ASSUME NEW ip \in IpSpace
  PROVE  [family |-> ip.family, bits |-> ip.bits] = ip /\ ip.family \in {"unspec", "v4", "v6"}
  BY DEF IpSpace, IpsOf

LEMMA WordsAreSeq ==
  ASSUME NEW X, NEW n \in Nat, NEW f \in [1 .. n -> X]
  PROVE  f \in Seq(X) /\ Len(f) = n
  OBVIOUS

LEMMA FirstWords ==
  ASSUME NEW X, NEW p \in Seq(X), NEW m \in Nat, m <= Len(p)
  PROVE  SubSeq(p, 1, m) \in Seq(X)
  OBVIOUS

IsJoined(X, w, s, r) ==
  /\ w \in Seq(X) /\ Len(w) = Len(s) + Len(r)
  /\ \A i \in 1 .. Len(s) : w[i] = s[i]
  /\ \A i \in Len(s) + 1 .. Len(s) + Len(r) : w[i] = r[i - Len(s)]

LEMMA SeqJoined ==
  ASSUME NEW X, NEW s \in Seq(X), NEW r \in Seq(X)
  PROVE  IsJoined(X, s \o r, s, r)
  BY DEF IsJoined

(* q behind the first m words of p. *)
Behind(s, p, q, m) ==
  /\ Len(s) = m + Len(q) /\ \A i \in 1 .. m : s[i] = p[i]
  /\ SubSeq(s, m + 1, m + Len(q)) = q

LEMMA WordsBehind ==
  ASSUME NEW X, NEW p \in Seq(X), NEW q \in Seq(X), NEW m \in Nat, m <= Len(p)
  PROVE  Behind(SubSeq(p, 1, m) \o q, p, q, m)
  <1> DEFINE t == SubSeq(p, 1, m)
             s == t \o q
             n == Len(q)
             r == SubSeq(s, m + 1, m + n)
  <1>1. t \in Seq(X) /\ Len(t) = m /\ \A i \in 1 .. m : t[i] = p[i]
    OBVIOUS
  <1>2. n \in Nat
    OBVIOUS
  <1> HIDE DEF t
  <1>3. /\ s \in Seq(X) /\ Len(s) = m + n
        /\ \A i \in 1 .. m : s[i] = t[i]
        /\ \A i \in m + 1 .. m + n : s[i] = q[i - m]
    <2>1. IsJoined(X, s, t, q)
      BY <1>1, SeqJoined
    <2> HIDE DEF s
    <2> QED BY <1>1, <2>1 DEF IsJoined
  <1> HIDE DEF s
  <1>4. r \in Seq(X) /\ Len(r) = n /\ \A i \in 1 .. n : r[i] = s[i + m]
    <2> HIDE DEF n
    <2>1. m + 1 \in Int /\ m + n \in Int /\ 1 <= m + 1 /\ m + n <= Len(s) /\ m + n - (m + 1) + 1 = n
      BY <1>2, <1>3
    <2> QED BY <1>2, <1>3, <2>1
  <1> HIDE DEF r
  <1>5. \A i \in 1 .. n : r[i] = q[i]
    <2> SUFFICES ASSUME NEW i \in 1 .. n
                 PROVE  r[i] = q[i]
      OBVIOUS
    <2> HIDE DEF n
    <2>1. i + m \in m + 1 .. m + n /\ (i + m) - m = i
      BY <1>2
    <2> QED BY <1>3, <1>4, <2>1
  <1>6. r = q
    BY <1>4, <1>5, SeqEqual
  <1> QED BY <1>1, <1>3, <1>6 DEF r, s, t, Behind

(* The bits of a v4 address behind the prefix. *)
LEMMA PrefixBits == MappedPrefix.bits \in [1 .. 128 -> {0, 1}]
  <1>1. ASSUME NEW x \in Int, NEW n \in 0 .. 7
        PROVE  (x \div 2^n) % 2 \in {0, 1}
    <2> DEFINE E(k) == 2^k
    <2>1. n = 0 \/ n = 1 \/ n = 2 \/ n = 3 \/ n = 4 \/ n = 5 \/ n = 6 \/ n = 7
      OBVIOUS
    <2>2. E(0) = 1 /\ E(1) = 2 /\ E(2) = 4 /\ E(3) = 8 /\ E(4) = 16 /\ E(5) = 32 /\ E(6) = 64 /\ E(7) = 128
      OBVIOUS
    <2> HIDE DEF E
    <2>3. E(n) \in Nat \ {0}
      BY <2>1, <2>2
    <2>4. x \div E(n) \in Int
      BY <2>3
    <2>5. (x \div E(n)) % 2 \in {0, 1}
      BY <2>4
    <2> QED BY <2>5, Zenon DEF E
  <1>2. Len(Mapped) = 12 /\ \A k \in 1 .. 12 : Mapped[k] \in Int
    BY DEF Mapped
  <1>3. ASSUME NEW i \in 1 .. 128
        PROVE  MappedPrefix.bits[i] \in {0, 1}
    <2> DEFINE k == (i - 1) \div 8 + 1
               n == 7 - ((i - 1) % 8)
    <2>1. MappedPrefix.bits[i] = IF k > Len(Mapped) THEN 0 ELSE (Mapped[k] \div 2^n) % 2
      BY DEF MappedPrefix, IpOf, Bits
    <2>2. k \in 1 .. 16 /\ n \in 0 .. 7
      OBVIOUS
    <2> HIDE DEF k, n
    <2>3. CASE k > 12
      BY <1>2, <2>1, <2>3
    <2>4. CASE k <= 12
      <3>1. Mapped[k] \in Int
        BY <1>2, <2>2, <2>4
      <3>2. (Mapped[k] \div 2^n) % 2 \in {0, 1}
        BY <1>1, <2>2, <3>1
      <3>3. MappedPrefix.bits[i] = (Mapped[k] \div 2^n) % 2
        BY <1>2, <2>1, <2>2, <2>4
      <3> QED BY <3>2, <3>3
    <2> QED BY <2>2, <2>3, <2>4
  <1>4. MappedPrefix.bits = [i \in 1 .. 128 |-> MappedPrefix.bits[i]]
    BY DEF MappedPrefix, IpOf, Bits
  <1> QED BY <1>3, <1>4

LEMMA MappedBits ==
  ASSUME NEW q \in [1 .. 32 -> {0, 1}]
  PROVE  LET s == SubSeq(MappedPrefix.bits, 1, 96) \o q
         IN  /\ s \in [1 .. 128 -> {0, 1}] /\ Len(s) = 128 /\ SubSeq(s, 97, 128) = q
             /\ \A i \in 1 .. 96 : s[i] = MappedPrefix.bits[i]
  <1> DEFINE p == MappedPrefix.bits
             s == SubSeq(p, 1, 96) \o q
             X == {0, 1}
  <1>1. p \in Seq(X) /\ Len(p) = 128
    <2> DEFINE n == 128
    <2>1. n \in Nat /\ p \in [1 .. n -> X]
      BY PrefixBits
    <2> HIDE DEF n, X, p
    <2>2. p \in Seq(X) /\ Len(p) = n
      BY <2>1, WordsAreSeq
    <2> QED BY <2>2 DEF n
  <1>2. q \in Seq(X) /\ Len(q) = 32
    <2> DEFINE n == 32
    <2>1. n \in Nat /\ q \in [1 .. n -> X]
      OBVIOUS
    <2> HIDE DEF n, X
    <2>2. q \in Seq(X) /\ Len(q) = n
      BY <2>1, WordsAreSeq
    <2> QED BY <2>2 DEF n
  <1> HIDE DEF p, X
  <1>3. Behind(s, p, q, 96)
    <2> DEFINE n == 96
    <2>1. n \in Nat /\ n <= Len(p)
      BY <1>1
    <2> HIDE DEF n
    <2>2. Behind(SubSeq(p, 1, n) \o q, p, q, n)
      BY <1>1, <1>2, <2>1, WordsBehind
    <2> QED BY <2>2 DEF n
  <1>4. s \in Seq(X)
    <2>1. SubSeq(p, 1, 96) \in Seq(X)
      <3> DEFINE n == 96
      <3>1. n \in Nat /\ n <= Len(p)
        BY <1>1
      <3> HIDE DEF n
      <3>2. SubSeq(p, 1, n) \in Seq(X)
        BY <1>1, <3>1, FirstWords
      <3> QED BY <3>2 DEF n
    <2> QED BY <1>2, <2>1
  <1> HIDE DEF s
  <1>5. Len(s) = 128 /\ (\A i \in 1 .. 96 : s[i] = p[i]) /\ SubSeq(s, 97, 128) = q
    BY <1>2, <1>3 DEF Behind
  <1>6. s \in [1 .. 128 -> X]
    <2>1. s \in [1 .. Len(s) -> X]
      BY <1>4
    <2> QED BY <1>5, <2>1
  <1> QED BY <1>5, <1>6 DEF s, p, X

LEMMA MappedIs ==
  ASSUME NEW ip \in IpSpace
  PROVE  AsIPv6Address(ip) \in IpSpace
  <1>1. CASE ip.family # "v4"
    BY <1>1 DEF AsIPv6Address
  <1>2. CASE ip.family = "v4"
    <2>1. Bits("v4") = 32 /\ Bits("v6") = 128
      BY DEF Bits
    <2>2. ip.bits \in [1 .. 32 -> {0, 1}]
      <3>1. ip.bits \in Words(Bits("v4"))
        BY <1>2, IpIs
      <3> QED BY <2>1, <3>1 DEF Words
    <2> DEFINE s == SubSeq(MappedPrefix.bits, 1, 96) \o ip.bits
    <2>3. s \in [1 .. 128 -> {0, 1}] /\ AsIPv6Address(ip) = [family |-> "v6", bits |-> s]
      BY <1>2, <2>2, MappedBits DEF AsIPv6Address
    <2> HIDE DEF s
    <2>4. [family |-> "v6", bits |-> s] \in [family : {"v6"}, bits : [1 .. 128 -> {0, 1}]]
      BY <2>3
    <2>5. AsIPv6Address(ip) \in IpsOf("v6")
      BY <2>1, <2>3, <2>4 DEF IpsOf
    <2> QED BY <2>5 DEF IpSpace
  <1> QED BY <1>1, <1>2

(* A v4 address that was mapped to v6. *)
LEMMA MappedReadsBack ==
  ASSUME NEW ip \in IpSpace, ip.family = "v4"
  PROVE  Normalized(AsIPv6Address(ip)) = ip
  <1> DEFINE m == AsIPv6Address(ip)
             p == MappedPrefix.bits
             q == ip.bits
             s == SubSeq(p, 1, 96) \o q
  <1>1. q \in [1 .. 32 -> {0, 1}] /\ ip = [family |-> "v4", bits |-> q]
    <2>1. Bits("v4") = 32
      BY DEF Bits
    <2> QED BY <2>1, IpIs DEF Words
  <1>2. p = IpOf("v6", Mapped).bits
    BY DEF MappedPrefix
  <1>3. m = [family |-> "v6", bits |-> s]
    BY DEF AsIPv6Address
  <1>6. Len(s) = 128 /\ (\A i \in 1 .. 96 : s[i] = p[i]) /\ SubSeq(s, 97, 128) = q
    BY <1>1, MappedBits
  <1> HIDE DEF p, q, s
  <1>7. m.bits = s /\ m.family = "v6"
    BY <1>3
  <1> HIDE DEF m
  <1>8. IsV4Mapped(m)
    <2>1. Len(Mapped) = 12
      BY DEF Mapped
    <2>2. \A i \in 1 .. 96 : (IF i <= Len(s) THEN s[i] ELSE 0) = p[i]
      BY <1>6
    <2>3. 8 * Len(Mapped) = 96
      BY <2>1
    <2> QED BY <1>2, <1>7, <2>2, <2>3 DEF IsV4Mapped, HasPrefix
  <1>9. Normalized(m) = [family |-> "v4", bits |-> SubSeq(s, 97, 128)]
    BY <1>7, <1>8 DEF Normalized
  <1>10. Normalized(m) = ip
    BY <1>1, <1>6, <1>9
  <1> QED BY <1>10 DEF m

LEMMA Settings ==
  ASSUME NEW a, IsAddress(a)
  PROVE  /\ \A ip \in IpSpace : IsAddress(SetIP(a, ip)) /\ IsAddress(SetResolvedIP(a, ip))
         /\ \A port \in Int : IsAddress(SetPort(a, port))
         /\ \A h \in HostSpace : IsAddress(SetHost(a, h))
         /\ \A scope \in Int : IsAddress(SetScopeID(a, scope))
  <1>1. a \in AddrSpace /\ a.literal = (a.host.ip # NilIp) /\ a.port % 2^16 = a.port
    BY DEF IsAddress
  <1>2. ASSUME NEW ip \in IpSpace
        PROVE  IsAddress(SetIP(a, ip)) /\ IsAddress(SetResolvedIP(a, ip))
    <2>1. 0 \in Int /\ NoHost \in HostSpace /\ NoHost.ip = NilIp
      BY HostsAre
    <2>2. /\ SetIP(a, ip) \in AddrSpace /\ SetResolvedIP(a, ip) \in AddrSpace
          /\ SetIP(a, ip).port = a.port /\ SetResolvedIP(a, ip).port = a.port
          /\ SetIP(a, ip).literal = FALSE /\ SetIP(a, ip).host = NoHost
          /\ SetResolvedIP(a, ip).literal = a.literal /\ SetResolvedIP(a, ip).host = a.host
      BY <1>1, <1>2, <2>1 DEF SetIP, SetResolvedIP, AddrSpace
    <2> QED BY <1>1, <2>1, <2>2 DEF IsAddress
  <1>3. ASSUME NEW port \in Int
        PROVE  IsAddress(SetPort(a, port))
    <2>1. port % 2^16 \in Nat /\ (port % 2^16) % 2^16 = port % 2^16
      OBVIOUS
    <2> QED BY <1>1, <2>1 DEF IsAddress, SetPort, AddrSpace
  <1>4. ASSUME NEW h \in HostSpace
        PROVE  IsAddress(SetHost(a, h))
    <2>1. h.ip \in IpSpace /\ 0 \in Int
      BY DEF HostSpace
    <2>2. /\ SetHost(a, h) \in AddrSpace /\ SetHost(a, h).port = a.port
          /\ SetHost(a, h).literal = (h.ip # NilIp) /\ SetHost(a, h).host = h
      BY <1>1, <1>4, <2>1 DEF SetHost, AddrSpace
    <2> QED BY <1>1, <2>2 DEF IsAddress
  <1>5. ASSUME NEW scope \in Int
        PROVE  IsAddress(SetScopeID(a, scope))
    BY <1>1 DEF IsAddress, SetScopeID, AddrSpace
  <1> QED BY <1>2, <1>3, <1>4, <1>5

LEMMA ReadIsAddress ==
  ASSUME NEW a, IsAddress(a), NEW h \in HostSpace, NEW f, NEW p \in Int, NEW c \in HostSpace
  PROVE  IsAddress(FromString(a, [host |-> h, form |-> f], p, c))
  <1> DEFINE t == [host |-> h, form |-> f]
             b == SetPort(a, p)
  <1>1. t.host = h /\ t.form = f
    OBVIOUS
  <1>2. IsAddress(b)
    BY Settings
  <1> HIDE DEF b
  <1>3. IsAddress(SetHost(b, h)) /\ IsAddress(SetHost(b, c))
    BY <1>2, Settings
  <1>4. FromString(a, t, p, c) \in {SetHost(b, t.host), SetHost(b, c), a}
    BY DEF FromString, b
  <1> HIDE DEF t
  <1> QED BY <1>1, <1>3, <1>4 DEF t

LEMMA StorageIsAddress ==
  ASSUME NEW a, IsAddress(a), NEW b, IsAddress(b)
  PROVE  /\ IsAddress(FromSockAddrStorage(a, ToSockAddrStorage(b)))
         /\ IsAddress(FromSockAddrStorage(a, ToDualStackSockAddrStorage(b)))
  <1>1. b.ip \in IpSpace /\ b.port \in Nat /\ b.scope \in Int
    BY AddressParts DEF IsAddress
  <1>2. ASSUME NEW ip \in IpSpace
        PROVE  IsAddress(FromSockAddrStorage(a, ToSockAddrStorageHelper(ip, b.port, b.scope)))
    <2> DEFINE saddr == ToSockAddrStorageHelper(ip, b.port, b.scope)
               c == SetPort(SetIP(NilAddr, [family |-> saddr.family, bits |-> saddr.bits]), Swap16(saddr.port))
    <2>1. /\ [family |-> saddr.family, bits |-> saddr.bits] = ip
          /\ saddr.port \in Int /\ saddr.scope \in Int
      BY <1>1, IpIsParts DEF ToSockAddrStorageHelper, Swap16
    <2> HIDE DEF saddr
    <2>2. Swap16(saddr.port) \in Int
      BY <2>1 DEF Swap16
    <2>3. IsAddress(SetIP(NilAddr, ip))
      BY NilIsAddress, Settings
    <2>4. IsAddress(c)
      BY <2>1, <2>2, <2>3, Settings
    <2>5. IsAddress(SetScopeID(c, saddr.scope))
      BY <2>1, <2>4, Settings
    <2>6. FromSockAddrStorage(a, saddr) \in {c, SetScopeID(c, saddr.scope), a}
      BY DEF FromSockAddrStorage
    <2> HIDE DEF c
    <2> QED BY <2>4, <2>5, <2>6 DEF saddr
  <1>3. AsIPv6Address(b.ip) \in IpSpace
    BY <1>1, MappedIs
  <1> QED BY <1>1, <1>2, <1>3 DEF ToSockAddrStorage, ToDualStackSockAddrStorage

LEMMA ChangeKeeps ==
  ASSUME AddrInv, NEW o \in {1, 2}, NEW a, IsAddress(a), Change(o, a)
  PROVE  AddrInv'
  <1>1. a \in AddrSpace
    BY DEF IsAddress
  <1> QED BY <1>1 DEF AddrInv, Change

LEMMA AddrSteps ==
  ASSUME AddrInv, [AddrNext]_addrVars
  PROVE  AddrInv'
  <1>1. CASE UNCHANGED addrVars
    BY <1>1 DEF addrVars, AddrInv
  <1>2. CASE AddrNext
    <2>1. PICK o \in {1, 2} :
            \/ \E ip \in Ips : Change(o, SetIP(addr[o], ip)) \/ Change(o, SetResolvedIP(addr[o], ip))
            \/ \E port \in Ports : Change(o, SetPort(addr[o], port))
            \/ \E scope \in Scopes : Change(o, SetScopeID(addr[o], scope))
            \/ \E h \in Hosts : Change(o, SetHost(addr[o], h))
            \/ \E a \in Readings(addr[o]) : Change(o, a)
            \/ \E saddr \in {ToSockAddrStorage(addr[3 - o]), ToDualStackSockAddrStorage(addr[3 - o])} :
                 Change(o, FromSockAddrStorage(addr[o], saddr))
            \/ Change(o, NilAddr)
      BY <1>2 DEF AddrNext
    <2>2. IsAddress(addr[o]) /\ IsAddress(addr[3 - o])
      BY DEF AddrInv
    <2>3. \E a : IsAddress(a) /\ Change(o, a)
      <3>1. CASE \E ip \in Ips : Change(o, SetIP(addr[o], ip)) \/ Change(o, SetResolvedIP(addr[o], ip))
        BY <2>2, <3>1, HostsAre, Settings
      <3>2. CASE \E port \in Ports : Change(o, SetPort(addr[o], port))
        BY <2>2, <3>2, HostsAre, Settings
      <3>3. CASE \E h \in Hosts : Change(o, SetHost(addr[o], h))
        BY <2>2, <3>3, HostsAre, Settings
      <3>4. CASE \E a \in Readings(addr[o]) : Change(o, a)
        <4>1. \A a \in Readings(addr[o]) : IsAddress(a)
          <5>1. ASSUME NEW t \in Texts
                PROVE  IsAddress(FromString(addr[o], [host |-> t.host, form |-> t.form], t.port, t.before))
            <6>1. t.host \in HostSpace /\ t.port \in Int /\ t.before \in HostSpace
              BY HostsAre DEF Texts
            <6> QED BY <2>2, <6>1, ReadIsAddress
          <5> QED BY <5>1 DEF Readings
        <4> QED BY <3>4, <4>1
      <3>5. CASE Change(o, NilAddr)
        BY <3>5, NilIsAddress
      <3>6. CASE \E scope \in Scopes : Change(o, SetScopeID(addr[o], scope))
        BY <2>2, <3>6, HostsAre, Settings
      <3>7. CASE \E saddr \in {ToSockAddrStorage(addr[3 - o]), ToDualStackSockAddrStorage(addr[3 - o])} :
                   Change(o, FromSockAddrStorage(addr[o], saddr))
        BY <2>2, <3>7, StorageIsAddress
      <3> QED BY <2>1, <3>1, <3>2, <3>3, <3>4, <3>5, <3>6, <3>7
    <2> QED BY <2>3, ChangeKeeps
  <1> QED BY <1>1, <1>2

LEMMA AddrStarts ==
  ASSUME AddrInit
  PROVE  AddrInv
  <1>1. NilAddr \in AddrSpace
    BY NilIsAddress DEF IsAddress
  <1> QED BY <1>1, NilIsAddress DEF AddrInit, AddrInv

(* The text of an address, read. *)
LEMMA TextReadsBack ==
  ASSUME NEW a, IsAddress(a)
  PROVE  ReadsBackAsText(a)
  <1> DEFINE t == HostAsURIString(a)
             name == ~a.literal /\ a.host # NoHost
  <1> SUFFICES ASSUME NEW before \in Cuts
               PROVE  EqualAddr(FromString(NilAddr, t, a.port, before), a) <=>
                        IF name THEN a.ip = NilIp ELSE Nowhere(a.ip) => a.host = Printed(a.ip)
    BY DEF ReadsBackAsText
  <1> DEFINE r == FromString(NilAddr, t, a.port, before)
  <1>1. /\ a.literal = (a.host.ip # NilIp) /\ a.port % 2^16 = a.port /\ a.port \in Nat
        /\ a.host \in HostSpace /\ a.ip \in IpSpace
    BY AddressParts DEF IsAddress
  <1>2. /\ name => t.host = a.host /\ t.host.ip = NilIp /\ t.form = "plain"
        /\ ~ name => t.host = Printed(a.ip) /\ t.host.ip = a.ip
        /\ ~ name => t.form = IF a.ip.family = "v6" THEN "bracket" ELSE "plain"
    BY <1>1, HostsAre DEF HostAsURIString
  <1> HIDE DEF t
  <1>3. \/ t.form = "plain" /\ t.host.ip.family # "v6"
        \/ t.form = "bracket"
    BY <1>2, NilIpIs
  <1> HIDE DEF name
  <1>4. r = SetHost(SetPort(NilAddr, a.port), t.host)
    BY <1>3 DEF FromString, Plain
  <1>5. r.host = t.host /\ r.ip = t.host.ip /\ r.port = a.port % 2^16
    BY <1>4 DEF SetHost, SetPort, NilAddr
  <1> HIDE DEF r
  <1>6. CASE name
    <2>1. Nowhere(NilIp)
      BY DEF Nowhere
    <2>2. EqualAddr(r, a) <=> a.ip = NilIp
      BY <1>1, <1>2, <1>5, <1>6, <2>1 DEF EqualAddr
    <2> QED BY <1>6, <2>2 DEF r
  <1>7. CASE ~ name
    <2>1. EqualAddr(r, a) <=> (Nowhere(a.ip) => a.host = Printed(a.ip))
      BY <1>1, <1>2, <1>5, <1>7 DEF EqualAddr, Nowhere
    <2> QED BY <1>7, <2>1 DEF r
  <1> QED BY <1>6, <1>7

(* A port in network order, and back. *)
LEMMA SwapsBack ==
  ASSUME NEW port \in Nat, port % 2^16 = port
  PROVE  /\ Swap16(port) \in Nat /\ Swap16(Swap16(port)) = port
         /\ Swap16(Swap16(port)) % 2^16 = port
  <1> DEFINE lo == port % 256
             hi == port \div 256
             s == lo * 256 + hi
  <1>1. port < 65536
    <2>1. 2^16 = 65536
      OBVIOUS
    <2> QED BY <2>1
  <1>2. lo \in 0 .. 255 /\ hi \in 0 .. 255 /\ port = hi * 256 + lo
    BY <1>1
  <1> HIDE DEF lo, hi
  <1>3. s \in Nat /\ s % 256 = hi /\ s \div 256 = lo
    BY <1>2
  <1>4. Swap16(port) = s
    BY DEF Swap16, lo, hi
  <1> HIDE DEF s
  <1>5. Swap16(s) = port
    BY <1>2, <1>3 DEF Swap16
  <1> QED BY <1>3, <1>4, <1>5

(* What is stored of an address with a family, read. *)
LEMMA StorageReadsBack ==
  ASSUME NEW ip \in IpSpace, ip.family \in {"v4", "v6"},
         NEW port \in Nat, port % 2^16 = port, NEW scope \in Int, NEW a
  PROVE  LET saddr == ToSockAddrStorageHelper(ip, port, scope)
             b == FromSockAddrStorage(a, saddr)
         IN  /\ saddr.family = ip.family /\ b.ip = ip /\ b.port = port
             /\ b.scope = IF ip.family = "v6" THEN scope ELSE 0
  <1> DEFINE saddr == ToSockAddrStorageHelper(ip, port, scope)
             c == SetPort(SetIP(NilAddr, [family |-> saddr.family, bits |-> saddr.bits]), Swap16(saddr.port))
             b == FromSockAddrStorage(a, saddr)
  <1>1. /\ saddr.family = ip.family /\ saddr.bits = ip.bits /\ saddr.port = Swap16(port)
        /\ saddr.scope = IF ip.family = "v6" THEN scope ELSE 0
    BY DEF ToSockAddrStorageHelper
  <1> HIDE DEF saddr
  <1>2. [family |-> saddr.family, bits |-> saddr.bits] = ip
    BY <1>1, IpIsParts
  <1>3. Swap16(saddr.port) % 2^16 = port
    BY <1>1, SwapsBack
  <1>4. c \in AddrSpace /\ c.ip = ip /\ c.port = port /\ c.scope = 0
    <2> DEFINE n == SetIP(NilAddr, ip)
    <2>1. IsAddress(n)
      BY NilIsAddress, Settings
    <2>2. n \in AddrSpace /\ n.ip = ip /\ n.scope = 0
      BY <2>1 DEF IsAddress, SetIP, NilAddr
    <2> HIDE DEF n
    <2>3. c = [n EXCEPT !.port = port]
      BY <1>2, <1>3 DEF SetPort, n
    <2> HIDE DEF c
    <2> QED BY <2>2, <2>3 DEF AddrSpace
  <1>5. b = IF ip.family = "v6" THEN SetScopeID(c, saddr.scope) ELSE c
    BY <1>1 DEF FromSockAddrStorage
  <1> HIDE DEF b, c
  <1>6. b.ip = ip /\ b.port = port /\ b.scope = IF ip.family = "v6" THEN scope ELSE 0
    BY <1>1, <1>4, <1>5 DEF SetScopeID, AddrSpace
  <1> QED BY <1>1, <1>6 DEF b, saddr

LEMMA SockAddrReadsBack ==
  ASSUME NEW a, IsAddress(a)
  PROVE  ReadsBackAsSockAddr(a)
  <1> DEFINE one == ToSockAddrStorage(a)
             dual == ToDualStackSockAddrStorage(a)
             b == FromSockAddrStorage(NilAddr, one)
             d == FromSockAddrStorage(NilAddr, dual)
             six == AsIPv6Address(a.ip)
  <1>1. a.ip \in IpSpace /\ a.port \in Nat /\ a.port % 2^16 = a.port /\ a.scope \in Int
    BY AddressParts DEF IsAddress
  <1>2. [family |-> a.ip.family, bits |-> a.ip.bits] = a.ip /\ a.ip.family \in {"unspec", "v4", "v6"}
    BY <1>1, IpIsParts
  <1>3. CASE a.ip.family = "unspec"
    <2>1. a.ip = NilIp
      <3>1. \A f \in [1 .. 0 -> {0, 1}] : f = << >>
        OBVIOUS
      <3>2. a.ip.bits \in [1 .. 0 -> {0, 1}]
        BY <1>1, <1>3 DEF IpSpace, IpsOf, Bits
      <3> QED BY <1>2, <1>3, <3>1, <3>2 DEF NilIp
    <2>2. six = a.ip
      BY <1>3 DEF AsIPv6Address
    <2>3. one.family = "unspec" /\ dual.family = "unspec"
      BY <1>3, <2>2 DEF ToSockAddrStorage, ToDualStackSockAddrStorage, ToSockAddrStorageHelper
    <2> HIDE DEF one, dual, six
    <2>4. b = NilAddr /\ d = NilAddr
      BY <2>3 DEF FromSockAddrStorage
    <2>5. NilAddr.ip = NilIp
      BY DEF NilAddr
    <2> HIDE DEF b, d
    <2> QED BY <1>3, <2>1, <2>3, <2>4, <2>5 DEF ReadsBackAsSockAddr, b, d, one, dual
  <1>4. CASE a.ip.family \in {"v4", "v6"}
    <2>0. one = ToSockAddrStorageHelper(a.ip, a.port, a.scope)
      BY DEF ToSockAddrStorage
    <2> HIDE DEF one
    <2>1. /\ one.family = a.ip.family /\ b.ip = a.ip /\ b.port = a.port
          /\ b.scope = IF a.ip.family = "v6" THEN a.scope ELSE 0
      <3> DEFINE ip == a.ip
                 port == a.port
                 scope == a.scope
      <3>1. /\ ip \in IpSpace /\ ip.family \in {"v4", "v6"} /\ port \in Nat /\ port % 2^16 = port
            /\ scope \in Int /\ one = ToSockAddrStorageHelper(ip, port, scope)
        BY <1>1, <1>4, <2>0
      <3> HIDE DEF ip, port, scope
      <3>2. /\ one.family = ip.family /\ b.ip = ip /\ b.port = port
            /\ b.scope = IF ip.family = "v6" THEN scope ELSE 0
        BY <3>1, StorageReadsBack
      <3> HIDE DEF b
      <3> QED BY <3>2 DEF ip, port, scope
    <2>2. six.family = "v6" /\ six \in IpSpace
      BY <1>1, <1>2, <1>4, MappedIs DEF AsIPv6Address
    <2>3. Normalized(six) = Normalized(a.ip)
      <3>1. CASE a.ip.family = "v4"
        BY <1>1, <3>1, MappedReadsBack DEF Normalized
      <3>2. CASE a.ip.family = "v6"
        BY <3>2 DEF AsIPv6Address
      <3> QED BY <1>4, <3>1, <3>2
    <2> HIDE DEF six
    <2>4. dual = ToSockAddrStorageHelper(six, a.port, a.scope)
      BY DEF ToDualStackSockAddrStorage, six
    <2>5. dual.family = "v6" /\ d.ip = six /\ d.port = a.port /\ d.scope = a.scope
      BY <1>1, <2>2, <2>4, StorageReadsBack
    <2> HIDE DEF one, dual, b, d
    <2>6. a.ip.family # "unspec"
      BY <1>4
    <2> QED BY <2>1, <2>3, <2>5, <2>6 DEF ReadsBackAsSockAddr, b, d, one, dual
  <1> QED BY <1>2, <1>3, <1>4

LEMMA OrderIsKept ==
  ASSUME AddrInv
  PROVE  AddressesKeepOrder
  <1> DEFINE a == addr[1]
             b == addr[2]
  <1>1. IsAddress(a) /\ IsAddress(b) /\ a \in AddrSpace /\ b \in AddrSpace
    BY DEF AddrInv, IsAddress
  <1> HIDE DEF a, b
  <1>2. Compared(a, b)
    BY <1>1, AddressesCompared
  <1>3. ReadsBackAsText(a) /\ ReadsBackAsSockAddr(a)
    BY <1>1, TextReadsBack, SockAddrReadsBack
  <1> QED BY <1>2, <1>3 DEF AddressesKeepOrder, Compared, a, b

(* rtc_base/socket_address.cc: whatever is done to two addresses, exactly one of  *)
(* a < b, a = b and b < a holds; the text of an address reads back to an equal    *)
(* one in the cases it can; and a sockaddr_storage, with its port in network      *)
(* order, reads back to the address, its port and its scope, the dual stack one   *)
(* to the same normalized address: for all addresses, names and ports.            *)
THEOREM AddressesAlwaysOrdered == AddrSpec => []AddressesKeepOrder
  <1>1. AddrSpec => []AddrInv
    BY AddrStarts, AddrSteps, PTL DEF AddrSpec
  <1> QED BY <1>1, OrderIsKept, PTL

(* socket_address.cc:230-250, what a std::map of addresses relies on beyond that: *)
(* the order is transitive, and equal addresses compare alike with every other.   *)
THEOREM AddressesSort ==
  \A a, b, c \in AddrSpace :
    /\ LessAddr(a, b) /\ LessAddr(b, c) => LessAddr(a, c)
    /\ EqualAddr(a, b) => (LessAddr(a, c) <=> LessAddr(b, c)) /\ (LessAddr(c, a) <=> LessAddr(c, b))
  BY AddressesTransitive, EqualsCompareAlike
=============================================================================
