---------------------------- MODULE SocketServer ----------------------------
(***************************************************************************)
(* PhysicalSocketServer and its sockets (rtc_base/physical_socket_server): *)
(* which events of a descriptor are asked for, the loop that waits for     *)
(* them by select or, in builds with WEBRTC_USE_EPOLL, by epoll and poll,  *)
(* and the handlers that it calls, which use, close, reopen and create     *)
(* sockets while the loop goes through the events of one wait.             *)
(*                                                                         *)
(* One thread waits and handles; others only call WakeUp.  The kernel's    *)
(* descriptors are external: it gives the lowest free number to whom opens *)
(* next, as the code's comments on the ABA problem have in mind.           *)
(***************************************************************************)
EXTENDS Integers, FiniteSets

CONSTANTS
  Socks,     \* SocketDispatcher objects
  Fds,       \* descriptors, numbers from 1
  MaxKeys,   \* bound: how often a descriptor is opened
  MaxActs,   \* bound: calls of the application and events from outside
  Backends   \* {"select"}, {"epoll"} or both

ASSUME FdNumbers == Fds \subseteq Nat \ {0}

DE_READ == "READ"
DE_WRITE == "WRITE"
DE_CONNECT == "CONNECT"
DE_CLOSE == "CLOSE"
DE_ACCEPT == "ACCEPT"

VARIABLES
  backend,   \* how Wait waits
  socks,     \* [fd, udp, state, enabled, saved, key, resolving, alive], see NoSock
  kernel,    \* fd -> what the kernel knows of it, see Free
  nextKey,   \* next_dispatcher_key_
  loop,      \* where the waiting thread is
  todo,      \* the keys whose events of this wait are still to be handled
  polled,     \* [in, out, err: sets of fds, gen: their openings] of this wait
  batch,     \* [sock, ff]: the events that OnEvent has still to signal
  fWait,     \* fWait_
  signaled,  \* fSignaled_ and the byte in the pipe
  acts,      \* how many of them there were
  unread,    \* history: sockets told to read, or of the end, that did not react
  stray      \* history: events of one opening went to another

serverVars == <<backend, socks, kernel, nextKey, loop, todo, polled, batch, fWait, signaled, acts, unread, stray>>

NoFd == 0
Wakeup == 0   \* the key of signal_wakeup_

(* A socket object that does not exist.  saved is {} when no updates are
   batched and {events} when they are. *)
NoSock == [alive |-> FALSE, fd |-> NoFd, udp |-> FALSE, state |-> "CLOSED", enabled |-> {},
           saved |-> {}, key |-> -1, resolving |-> FALSE]

(* A free descriptor.  gen numbers the openings; interest and key are those
   of the epoll instance. *)
Free == [gen |-> 0, udp |-> FALSE, phase |-> "free", data |-> FALSE, room |-> TRUE,
         interest |-> {}, key |-> -1]

NothingReady == [in |-> {}, out |-> {}, err |-> {}, gen |-> << >>]

ServerInit ==
  /\ backend \in Backends
  /\ socks = [s \in Socks |-> NoSock] /\ kernel = [f \in Fds |-> Free]
  /\ nextKey = 1 /\ loop = "idle" /\ todo = {} /\ polled = NothingReady
  /\ batch = [sock |-> CHOOSE s \in Socks : TRUE, ff |-> {}]
  /\ fWait = FALSE /\ signaled = FALSE /\ acts = 0 /\ unread = {} /\ stray = FALSE

Registered(s) == socks[s].key >= 0

-----------------------------------------------------------------------------
(* GetEpollEvents. *)
EpollEvents(events) ==
  { e \in {"in", "out"} : events \intersect (IF e = "in" THEN {DE_READ, DE_ACCEPT}
                                             ELSE {DE_WRITE, DE_CONNECT}) # {} }

(* UpdateEpoll, and AddEpoll for a new dispatcher: no interest, no entry. *)
UpdateEpoll(k, sock) ==
  IF backend # "epoll" \/ sock.fd = NoFd \/ sock.key < 0 THEN k
  ELSE [k EXCEPT ![sock.fd].interest = EpollEvents(sock.enabled),
                 ![sock.fd].key = IF EpollEvents(sock.enabled) = {} THEN -1 ELSE sock.key]

(* MaybeUpdateDispatcher, when sock has been sock0. *)
MaybeUpdateDispatcher(k, sock0, sock) ==
  IF EpollEvents(sock.enabled) # EpollEvents(sock0.enabled) /\ sock.saved = {}
  THEN UpdateEpoll(k, sock) ELSE k

(* SetEnabledEvents, with EnableEvents and DisableEvents on top of it. *)
SetEvents(s, sock, events) ==
  LET new == [sock EXCEPT !.enabled = events]
  IN  /\ socks' = [socks EXCEPT ![s] = new]
      /\ kernel' = MaybeUpdateDispatcher(kernel, sock, new)

-----------------------------------------------------------------------------
(* What the application does: on the waiting thread, before it waits or in
   a handler. *)
MayCall(s) == loop \in {"idle", "handler"} /\ socks[s].alive

Act == acts < MaxActs /\ acts' = acts + 1

CallHere == Act /\ UNCHANGED <<backend, loop, todo, polled, batch, fWait, signaled, stray>>

LowestFree == CHOOSE f \in Fds : /\ kernel[f].phase = "free"
                                 /\ \A g \in Fds : g < f => kernel[g].phase # "free"

CanOpen == nextKey <= MaxKeys /\ \E f \in Fds : kernel[f].phase = "free"

(* socket or accept, then Initialize, which adds the dispatcher under a new
   key, and AddEpoll. *)
Opened(sock, udp, events, phase) ==
  LET f == LowestFree
      new == [sock EXCEPT !.alive = TRUE, !.fd = f, !.udp = udp, !.key = nextKey, !.enabled = events,
                          !.state = IF phase = "up" /\ ~udp THEN "CONNECTED" ELSE @]
  IN  [sock |-> new,
       kernel |-> UpdateEpoll([kernel EXCEPT ![f] = [Free EXCEPT !.gen = nextKey, !.udp = udp,
                                                                 !.phase = phase]], new)]

(* PhysicalSocketServer::CreateSocket. *)
CreateSocket(s, udp) ==
  /\ loop \in {"idle", "handler"} /\ ~socks[s].alive /\ CanOpen
  /\ LET o == Opened(NoSock, udp, IF udp THEN {DE_READ, DE_WRITE} ELSE {},
                     IF udp THEN "up" ELSE "new")
     IN  socks' = [socks EXCEPT ![s] = o.sock] /\ kernel' = o.kernel
  /\ nextKey' = nextKey + 1 /\ unread' = unread \ {s}
  /\ CallHere

(* Mutant: the events that were enabled before the batch are kept. *)
ClosedKeepsSaved(sock) ==
  [sock EXCEPT !.fd = NoFd, !.state = "CLOSED", !.enabled = {}, !.key = -1, !.resolving = FALSE]

(* SocketDispatcher::Close, with Remove, RemoveEpoll, PhysicalSocket::Close. *)
Closed(sock) ==
  [sock EXCEPT !.fd = NoFd, !.state = "CLOSED", !.enabled = {}, !.key = -1, !.resolving = FALSE,
               !.saved = IF @ = {} THEN {} ELSE {{}}]

CloseWith(s, after) ==
  IF socks[s].fd = NoFd
  THEN socks' = [socks EXCEPT ![s] = after] /\ UNCHANGED <<kernel, unread>>
  ELSE /\ socks' = [socks EXCEPT ![s] = IF after.alive THEN Closed(after) ELSE after]
       /\ kernel' = [kernel EXCEPT ![socks[s].fd] = Free]
       /\ unread' = unread \ {s}

Close(s) == MayCall(s) /\ CloseWith(s, socks[s]) /\ UNCHANGED nextKey /\ CallHere

(* The destructor; a socket is not deleted in a handler of its own. *)
Delete(s) ==
  /\ MayCall(s) /\ socks[s].saved = {} /\ (loop = "handler" => batch.sock # s)
  /\ CloseWith(s, NoSock)
  /\ UNCHANGED nextKey /\ CallHere

(* DoConnect: a closed socket is opened first; connect comes to an end now,
   later or not at all. *)
DoConnect(s, sock) ==
  /\ sock.fd # NoFd \/ CanOpen
  /\ \E outcome \in {"up", "connecting", "refused"} :
       LET o == IF sock.fd # NoFd THEN [sock |-> sock, kernel |-> kernel]
                ELSE Opened(sock, FALSE, {}, "new")
           tcp == ~o.sock.udp
           done == [o.sock EXCEPT !.state = IF outcome = "up" THEN "CONNECTED"
                                            ELSE IF outcome = "connecting" THEN "CONNECTING" ELSE @]
           new == [done EXCEPT !.enabled =
                     IF outcome = "refused" THEN @
                     ELSE @ \union {DE_READ, DE_WRITE}
                            \union (IF outcome = "connecting" THEN {DE_CONNECT} ELSE {})]
       IN  /\ tcp \/ outcome = "up"
           /\ o.kernel[o.sock.fd].phase \in {"new", "up"}
           /\ socks' = [socks EXCEPT ![s] = new]
           /\ kernel' = MaybeUpdateDispatcher(
                [o.kernel EXCEPT ![o.sock.fd].phase = IF outcome = "refused" THEN @ ELSE outcome],
                done, new)
  /\ nextKey' = IF sock.fd = NoFd THEN nextKey + 1 ELSE nextKey
  /\ UNCHANGED unread

(* Connect to an address; to a name it starts a resolver. *)
Connect(s, name) ==
  /\ MayCall(s) /\ socks[s].state = "CLOSED"
  /\ IF name
     THEN /\ socks' = [socks EXCEPT ![s].resolving = TRUE, ![s].state = "CONNECTING"]
          /\ UNCHANGED <<kernel, nextKey, unread>>
     ELSE DoConnect(s, socks[s])
  /\ CallHere

(* OnResolveResult, a message to the thread. *)
OnResolveResult(s, ok) ==
  /\ loop = "idle" /\ socks[s].resolving
  /\ IF ok THEN DoConnect(s, [socks[s] EXCEPT !.resolving = FALSE])
     ELSE CloseWith(s, socks[s]) /\ UNCHANGED nextKey
  /\ CallHere

Listen(s) ==
  /\ MayCall(s) /\ ~socks[s].udp /\ socks[s].fd # NoFd /\ kernel[socks[s].fd].phase = "new"
  /\ LET sock == [socks[s] EXCEPT !.state = "CONNECTING"]
         new == [sock EXCEPT !.enabled = @ \union {DE_ACCEPT}]
     IN  /\ socks' = [socks EXCEPT ![s] = new]
         /\ kernel' = MaybeUpdateDispatcher([kernel EXCEPT ![sock.fd].phase = "listening"], sock, new)
  /\ UNCHANGED <<nextKey, unread>> /\ CallHere

(* Accept on s, with WrapSocket for what comes of it, if anything. *)
Accept(s) ==
  /\ MayCall(s) /\ socks[s].fd # NoFd /\ kernel[socks[s].fd].phase = "listening"
  /\ LET f == socks[s].fd
         mine == [socks[s] EXCEPT !.enabled = @ \union {DE_ACCEPT}]
         k == MaybeUpdateDispatcher(kernel, socks[s], mine)
     IN  \/ /\ ~kernel[f].data
            /\ socks' = [socks EXCEPT ![s] = mine] /\ kernel' = k
            /\ UNCHANGED nextKey
         \/ \E c \in Socks :
              /\ kernel[f].data /\ ~socks[c].alive /\ CanOpen
              /\ LET o == Opened(NoSock, FALSE, {DE_READ, DE_WRITE}, "up")
                 IN  /\ socks' = [socks EXCEPT ![s] = mine, ![c] = o.sock]
                     /\ kernel' = [o.kernel EXCEPT ![f] = [k[f] EXCEPT !.data = FALSE]]
              /\ nextKey' = nextKey + 1
  /\ unread' = unread \ {s}
  /\ CallHere

(* Send, SendTo: all of it, or less than that. *)
Send(s, all) ==
  /\ MayCall(s) /\ socks[s].fd # NoFd
  /\ LET k == kernel[socks[s].fd] IN k.phase = "up" /\ (all => k.room)
  /\ IF all THEN UNCHANGED <<socks, kernel>>
     ELSE LET new == [socks[s] EXCEPT !.enabled = @ \union {DE_WRITE}]
          IN  /\ socks' = [socks EXCEPT ![s] = new]
              /\ kernel' = MaybeUpdateDispatcher([kernel EXCEPT ![new.fd].room = FALSE], socks[s], new)
  /\ UNCHANGED <<nextKey, unread>> /\ CallHere

(* Recv, RecvFrom: after data, when there is none and at the end of the
   stream reading is enabled again; after an error only that of UDP is, and
   the caller has been told of the end. *)
RecvEnables(s, failed) == ~failed \/ socks[s].udp

Recv(s) ==
  /\ MayCall(s) /\ socks[s].fd # NoFd /\ kernel[socks[s].fd].phase \in {"up", "eof", "error"}
  /\ LET f == socks[s].fd
         failed == kernel[f].phase = "error" /\ ~kernel[f].data
         new == [socks[s] EXCEPT !.enabled = IF RecvEnables(s, failed) THEN @ \union {DE_READ} ELSE @]
     IN  /\ socks' = [socks EXCEPT ![s] = new]
         /\ kernel' = MaybeUpdateDispatcher(
              [kernel EXCEPT ![f].data = FALSE, ![f].phase = IF failed THEN "eof" ELSE @],
              socks[s], new)
         /\ unread' = IF RecvEnables(s, failed) THEN unread \ {s} ELSE unread \union {s}
  /\ UNCHANGED nextKey /\ CallHere

-----------------------------------------------------------------------------
(* What comes from outside. *)
OutsideOnly == Act /\ UNCHANGED <<backend, socks, nextKey, loop, todo, polled, batch, fWait, unread, stray>>

Arrives(f) ==
  /\ kernel[f].phase \in {"up", "listening"} /\ ~kernel[f].data
  /\ kernel' = [kernel EXCEPT ![f].data = TRUE] /\ UNCHANGED signaled /\ OutsideOnly

Drains(f) ==
  /\ ~kernel[f].room
  /\ kernel' = [kernel EXCEPT ![f].room = TRUE] /\ UNCHANGED signaled /\ OutsideOnly

Peer(f, phase) ==
  /\ ~kernel[f].udp
  /\ \/ kernel[f].phase = "connecting" /\ phase \in {"up", "error"}
     \/ kernel[f].phase = "up" /\ phase \in {"eof", "error"}
  /\ kernel' = [kernel EXCEPT ![f].phase = phase] /\ UNCHANGED signaled /\ OutsideOnly

(* WakeUp, by any thread: Signaler::Signal. *)
WakeUpServer == ~signaled /\ signaled' = TRUE /\ UNCHANGED kernel /\ OutsideOnly

-----------------------------------------------------------------------------
(* The loop of Wait. *)
Readable(f) == kernel[f].data \/ kernel[f].phase \in {"eof", "error"}
Writable(f) == \/ kernel[f].phase \in {"up", "eof"} /\ kernel[f].room
               \/ kernel[f].phase = "error"

AppStill == UNCHANGED <<backend, acts, socks, nextKey, unread, stray>>

ServerWait ==
  /\ loop = "idle" /\ loop' = "wait" /\ fWait' = TRUE
  /\ AppStill /\ UNCHANGED <<kernel, todo, polled, batch, signaled>>

(* The descriptors that select is asked about, or that epoll watches. *)
Watched(dir) ==
  IF backend = "select"
  THEN { socks[s].fd : s \in { d \in Socks : /\ Registered(d)
                                             /\ dir \in EpollEvents(socks[d].enabled) } }
  ELSE { f \in Fds : dir \in kernel[f].interest }

(* The wait ends with a timeout or an error. *)
GiveUp ==
  /\ loop = "wait" /\ loop' = "idle"
  /\ AppStill /\ UNCHANGED <<kernel, todo, polled, batch, fWait, signaled>>

(* It ends with ready descriptors.  process_io is FALSE in a wait of Send:
   the signaler alone counts then, by poll or by select. *)
Selected(process_io) ==
  LET in == { f \in Watched("in") : Readable(f) }
      out == { f \in Watched("out") : Writable(f) }
      err == IF backend = "epoll" THEN { f \in Fds : kernel[f].interest # {} /\ kernel[f].phase = "error" }
             ELSE {}
      keys == IF backend = "select" THEN { socks[s].key : s \in { d \in Socks : Registered(d) } }
              ELSE { kernel[f].key : f \in in \union out \union err }
  IN
  /\ loop = "wait"
  /\ signaled \/ (process_io /\ in \union out \union err # {})
  /\ polled' = IF process_io
              THEN [in |-> in, out |-> out, err |-> err, gen |-> [f \in Fds |-> kernel[f].gen]]
              ELSE NothingReady
  /\ todo' = (IF process_io THEN keys ELSE {}) \union (IF signaled THEN {Wakeup} ELSE {})
  /\ loop' = "events"
  /\ AppStill /\ UNCHANGED <<kernel, batch, fWait, signaled>>

(* Signaler::OnEvent. *)
WakeupEvent ==
  /\ loop = "events" /\ Wakeup \in todo
  /\ signaled' = FALSE /\ fWait' = FALSE /\ todo' = todo \ {Wakeup}
  /\ AppStill /\ UNCHANGED <<kernel, loop, polled, batch>>

(* ProcessEvents: getsockopt, which also clears the error, IsDescriptorClosed
   and the requested events decide what a ready descriptor means. *)
Meaning(sock, readable, writable, check) ==
  LET k == kernel[sock.fd]
      errcode == check /\ k.phase = "error"
      gone == ~sock.udp /\ ~k.data /\ k.phase \in {"eof", "error"}
  IN  (IF readable
       THEN IF errcode \/ gone THEN {DE_CLOSE}
            ELSE IF DE_ACCEPT \in sock.enabled THEN {DE_ACCEPT} ELSE {DE_READ}
       ELSE {})
      \union
      (IF writable
       THEN IF DE_CONNECT \notin sock.enabled THEN {DE_WRITE}
            ELSE IF errcode THEN {} ELSE {DE_CONNECT}
       ELSE {})
      \union (IF errcode THEN {DE_CLOSE} ELSE {})

(* dispatcher_by_key_; a key that is no longer there is skipped. *)
Find(key) == { s \in Socks : socks[s].key = key }

ProcessEvents(key) ==
  /\ loop = "events" /\ key \in todo \ {Wakeup}
  /\ todo' = todo \ {key}
  /\ \/ /\ Find(key) = {}
        /\ UNCHANGED <<socks, kernel, loop, batch, stray>>
     \/ \E s \in Find(key) :
          LET f == socks[s].fd
              readable == f \in polled.in
              writable == f \in polled.out
              check == IF backend = "select" THEN readable \/ writable ELSE f \in polled.err
              ff == Meaning(socks[s], readable, writable, check)
              k == IF check /\ kernel[f].phase = "error"
                   THEN [kernel EXCEPT ![f].phase = "eof"] ELSE kernel
          IN  IF ff = {} THEN kernel' = k /\ UNCHANGED <<socks, loop, batch, stray>>
              ELSE /\ batch' = [sock |-> s, ff |-> ff] /\ loop' = "signal"
                   /\ socks' = [socks EXCEPT ![s].saved = IF backend = "epoll" THEN {socks[s].enabled} ELSE {},
                                             ![s].state = IF DE_CLOSE \in ff THEN "CLOSED"
                                                          ELSE IF DE_CONNECT \in ff THEN "CONNECTED" ELSE @]
                   /\ kernel' = k
                   /\ stray' = (stray \/ kernel[f].gen # polled.gen[f])
  /\ UNCHANGED <<backend, acts, nextKey, polled, fWait, signaled, unread>>

Order == [CONNECT |-> 1, ACCEPT |-> 2, READ |-> 3, WRITE |-> 4, CLOSE |-> 5]

(* OnEvent, one signal: connect and accept first, close last. *)
OnEvent ==
  /\ loop = "signal" /\ batch.ff # {}
  /\ LET s == batch.sock
         e == CHOOSE x \in batch.ff : \A y \in batch.ff : Order[x] <= Order[y]
     IN  /\ SetEvents(s, socks[s], IF e = DE_CLOSE THEN {} ELSE socks[s].enabled \ {e})
         /\ batch' = [batch EXCEPT !.ff = @ \ {e}]
         /\ unread' = IF e \in {DE_READ, DE_ACCEPT, DE_CLOSE} THEN unread \union {s} ELSE unread
  /\ loop' = "handler"
  /\ UNCHANGED <<backend, acts, nextKey, todo, polled, fWait, signaled, stray>>

HandlerReturns ==
  /\ loop = "handler" /\ loop' = "signal"
  /\ AppStill /\ UNCHANGED <<kernel, todo, polled, batch, fWait, signaled>>

(* The end of OnEvent: FinishBatchedEventUpdates. *)
OnEventEnds ==
  LET s == batch.sock
      new == [socks[s] EXCEPT !.saved = {}]
      old == [new EXCEPT !.enabled = IF socks[s].saved = {} THEN @ ELSE CHOOSE e \in socks[s].saved : TRUE]
  IN
  /\ loop = "signal" /\ batch.ff = {} /\ loop' = "events"
  /\ socks' = [socks EXCEPT ![s] = new]
  /\ kernel' = MaybeUpdateDispatcher(kernel, old, new)
  /\ UNCHANGED <<backend, acts, nextKey, todo, polled, batch, fWait, signaled, unread, stray>>

EventsDone ==
  /\ loop = "events" /\ todo = {} /\ loop' = IF fWait THEN "wait" ELSE "idle"
  /\ polled' = NothingReady
  /\ AppStill /\ UNCHANGED <<kernel, todo, batch, fWait, signaled>>

ServerNext ==
  \/ \E s \in Socks :
       \/ Close(s) \/ Delete(s) \/ Listen(s) \/ Accept(s) \/ Recv(s)
       \/ \E b \in BOOLEAN : CreateSocket(s, b) \/ Connect(s, b) \/ OnResolveResult(s, b) \/ Send(s, b)
  \/ \E f \in Fds : Arrives(f) \/ Drains(f) \/ \E p \in {"up", "eof", "error"} : Peer(f, p)
  \/ WakeUpServer \/ ServerWait \/ GiveUp \/ WakeupEvent \/ OnEvent \/ HandlerReturns \/ OnEventEnds \/ EventsDone
  \/ \E io \in BOOLEAN : Selected(io)
  \/ \E key \in 1 .. MaxKeys : ProcessEvents(key)

ServerSpec == ServerInit /\ [][ServerNext]_serverVars

-----------------------------------------------------------------------------
(* epoll watches for what is enabled, once a batch of updates is over. *)
InterestUpToDate ==
  backend = "epoll" =>
    \A s \in Socks : Registered(s) /\ socks[s].saved = {} =>
      kernel[socks[s].fd].interest = EpollEvents(socks[s].enabled)

(* A connected socket is watched for input, or it was told to read and has
   not done so, or it was told of the end, by a signal or by a Recv that
   failed: after a handler of the same batch has opened it again, the CLOSE
   of the old descriptor still comes, and takes the new one's events. *)
InputWatched ==
  \A s \in Socks :
    socks[s].fd # NoFd /\ socks[s].state = "CONNECTED" =>
      DE_READ \in socks[s].enabled \/ s \in unread

(***************************************************************************)
(* Events reach the socket they belong to, and no other: when the loop     *)
(* handles a ready descriptor the dispatcher has the same opening of it    *)
(* that was ready, although handlers close sockets and open others under   *)
(* the same number; epoll's interest follows every change of the enabled   *)
(* events, those in a batch and those of a socket that was closed and      *)
(* opened again in one included; and input is never forgotten.             *)
(***************************************************************************)
EventsFollowSockets == ~stray /\ InterestUpToDate /\ InputWatched
=============================================================================
