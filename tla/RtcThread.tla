----------------------------- MODULE RtcThread ------------------------------
(***************************************************************************)
(* rtc::Thread (rtc_base/thread.cc): message queues that threads post to,  *)
(* Send, which blocks its caller until the message has been handled, and   *)
(* the ends of a thread: Quit, Join and destruction.  A NullSocketServer   *)
(* puts a thread to sleep on an rtc::Event that resets itself.             *)
(*                                                                         *)
(* The actors are the threads and "main", which has no Thread object and   *)
(* owns them all.  What is done under crit_ is one step, and so is each    *)
(* access of stop_ and of an event.  Time is read when it is needed; Peek, *)
(* which nobody calls, is left out.                                        *)
(***************************************************************************)
EXTENDS Integers, Sequences, FiniteSets, SequencesExt, Graphs

CONSTANTS
  Threads,    \* the Thread objects (strings)
  Msgs,       \* how many messages there are, each is given to a thread once
  Scenarios,  \* sets of calls [by, to, how, delay], each made at most once
  MaxTime     \* bound: the clock, and the latest time of a delayed message

Main == "main"

ASSUME ThreadConstants == Main \notin Threads /\ Msgs \in Nat /\ MaxTime \in Nat

Actors == Threads \union {Main}
Forever == MaxTime + 1
Ids == 1 .. Msgs
NoMsg == 0
NoJob == [msg |-> NoMsg, to |-> Main, how |-> "none", at |-> 0]

VARIABLES
  at,         \* actor -> the step it is about to take
  job,        \* actor -> the message that it is handing over
  cur,        \* thread -> the message that is being dispatched, or NoMsg
  messages,   \* thread -> messages_
  delayed,    \* thread -> delayed_messages_
  next_num,   \* thread -> delayed_next_num_
  stop,       \* thread -> stop_
  event,      \* actor -> event_status_ of what it sleeps on
  until,      \* thread -> when its Wait times out
  ready,      \* actor -> its Send is done
  given,      \* message -> how and by whom it was given
  fate,       \* message -> "new", "given", "done", "deleted"
  dead,       \* threads that have been destroyed
  send_graph, \* pairs of threads
  dchecks,    \* the build has RTC_DCHECK_IS_ON
  aborted,    \* an RTC_CHECK failed
  calls,      \* the calls that are still to come
  now

threadVars == <<calls, at, job, cur, messages, delayed, next_num, stop, event, until, ready,
                given, fate, dead, send_graph, dchecks, aborted, now>>

ThreadInit ==
  /\ at = [x \in Actors |-> IF x = Main THEN "run" ELSE "off"]
  /\ job = [x \in Actors |-> NoJob]
  /\ cur = [t \in Threads |-> NoMsg]
  /\ messages = [t \in Threads |-> << >>] /\ delayed = [t \in Threads |-> {}]
  /\ next_num = [t \in Threads |-> 0] /\ stop = [t \in Threads |-> FALSE]
  /\ event = [x \in Actors |-> FALSE] /\ until = [t \in Threads |-> Forever]
  /\ ready = [x \in Actors |-> FALSE]
  /\ given = [m \in Ids |-> [how |-> "none", by |-> Main]]
  /\ fate = [m \in Ids |-> "new"]
  /\ dead = {} /\ send_graph = {} /\ dchecks \in BOOLEAN /\ aborted = FALSE
  /\ calls \in Scenarios /\ now = 0

Goto(x, where) == at' = [at EXCEPT ![x] = where]

(* x calls how on t, with the next message. *)
Called(x, m, t, how, delay) ==
  /\ at[x] = "run" /\ ~aborted /\ t \notin dead
  /\ LET call == [by |-> x, to |-> t, how |-> how, delay |-> delay]
     IN  call \in calls /\ calls' = calls \ {call}
  /\ m # NoMsg => fate[m] = "new" /\ \A k \in 1 .. m - 1 : fate[k] # "new"

(* The second closure of a task that Send has posted runs when the task is
   destroyed, be it after it has run or instead: the sender is woken. *)
ReleaseSenders(ms) ==
  LET senders == { given[m].by : m \in { k \in ms : given[k].how = "send" } }
  IN  /\ ready' = [x \in Actors |-> ready[x] \/ x \in senders]
      /\ event' = [x \in Actors |-> event[x] \/ x \in senders]

Settle(ms, how) == fate' = [m \in Ids |-> IF m \in ms THEN how ELSE fate[m]]

(* DelayedMessage::operator<: by time, then by number. *)
Sooner(d, e) == d.at < e.at \/ (d.at = e.at /\ d.num < e.num)

-----------------------------------------------------------------------------
(* An actor, in a handler or in main, gives m to t. *)
Give(x, m, t, how, when, where) ==
  /\ job' = [job EXCEPT ![x] = [msg |-> m, to |-> t, how |-> how, at |-> when]]
  /\ given' = [given EXCEPT ![m] = [how |-> how, by |-> x]]
  /\ fate' = [fate EXCEPT ![m] = "given"]
  /\ Goto(x, where)

(* Post, Dispose, PostDelayed and PostAt are called. *)
CallPost(x, m, t, how, delay) ==
  /\ Called(x, m, t, how, delay) /\ now + delay <= MaxTime
  /\ Give(x, m, t, how, now + delay, "post")
  /\ UNCHANGED <<cur, messages, delayed, next_num, stop, event, until, ready, dead,
                 send_graph, dchecks, aborted, now>>

(* RegisterSendAndCheckForCycles: is there a path from the target back? *)
ClosesCycle(source, target) ==
  source \in {target} \union
    Descendants([node |-> Threads, edge |-> send_graph], target)

(* Send and Invoke are called.  To a thread that quits nothing is sent; on
   the thread itself the handler is called; in a debug build a cycle is
   found before anybody blocks. *)
CallSend(x, m, t) ==
  /\ Called(x, m, t, "send", 0)
  /\ \/ /\ stop[t] \/ x = t
        /\ Settle({m}, IF stop[t] THEN "deleted" ELSE "done")
        /\ UNCHANGED <<at, job, given, ready, send_graph, aborted>>
     \/ /\ ~stop[t] /\ x # t /\ dchecks /\ x # Main /\ ClosesCycle(x, t)
        /\ aborted' = TRUE
        /\ UNCHANGED <<at, job, given, fate, ready, send_graph>>
     \/ /\ ~stop[t] /\ x # t /\ ~(dchecks /\ x # Main /\ ClosesCycle(x, t))
        /\ Give(x, m, t, "send", 0, "post")
        /\ ready' = [ready EXCEPT ![x] = FALSE]
        /\ send_graph' = IF dchecks /\ x # Main THEN send_graph \union {<<x, t>>} ELSE send_graph
        /\ UNCHANGED aborted
  /\ UNCHANGED <<cur, messages, delayed, next_num, stop, event, until, dead, dchecks, now>>

(* The message has been handed over, or deleted. *)
GoOn(x) ==
  /\ Goto(x, IF job[x].how = "send" THEN "sleep" ELSE "run")
  /\ job' = [job EXCEPT ![x] = IF @.how = "send" THEN [@ EXCEPT !.msg = NoMsg] ELSE NoJob]

(* Post and DoDelayPost look at stop_ first. *)
Post(x) ==
  /\ at[x] = "post"
  /\ IF stop[job[x].to]
     THEN Settle({job[x].msg}, "deleted") /\ ReleaseSenders({job[x].msg}) /\ GoOn(x)
     ELSE Goto(x, "push") /\ UNCHANGED <<fate, ready, event, job>>
  /\ UNCHANGED <<calls, cur, messages, delayed, next_num, stop, until, given, dead,
                 send_graph, dchecks, aborted, now>>

Push(x) ==
  LET j == job[x] IN
  /\ at[x] = "push"
  /\ IF j.how = "delay"
     THEN /\ delayed' = [delayed EXCEPT ![j.to] =
                           @ \union {[at |-> j.at, num |-> next_num[j.to], msg |-> j.msg]}]
          /\ next_num' = [next_num EXCEPT ![j.to] = @ + 1]
          /\ UNCHANGED messages
     ELSE /\ messages' = [messages EXCEPT ![j.to] = Append(@, j.msg)]
          /\ UNCHANGED <<delayed, next_num>>
  /\ Goto(x, "wake")
  /\ UNCHANGED <<calls, job, cur, stop, event, until, ready, given, fate, dead,
                 send_graph, dchecks, aborted, now>>

WakeUp(x) ==
  /\ at[x] = "wake"
  /\ event' = [event EXCEPT ![job[x].to] = TRUE]
  /\ GoOn(x)
  /\ UNCHANGED <<calls, cur, messages, delayed, next_num, stop, until, ready, given, fate, dead,
                 send_graph, dchecks, aborted, now>>

(* The loop of Send: ready is looked at under the target's crit_. *)
SendLoop(x) ==
  /\ at[x] = "sleep"
  /\ Goto(x, IF ready[x] THEN "run" ELSE "nap")
  /\ ready' = [ready EXCEPT ![x] = FALSE]
  /\ job' = IF ready[x] THEN [job EXCEPT ![x] = NoJob] ELSE job
  /\ UNCHANGED <<calls, cur, messages, delayed, next_num, stop, event, until, given, fate,
                 dead, send_graph, dchecks, aborted, now>>

(* Wait(kForever) in that loop, or done_event->Wait.  After the loop another
   WakeUp makes up for those of others that were consumed; it is given here,
   as the thread looks at its queue before it waits the next time. *)
Nap(x) ==
  /\ at[x] = "nap" /\ event[x]
  /\ event' = [event EXCEPT ![x] = ready[x] /\ x # Main]
  /\ Goto(x, "sleep")
  /\ UNCHANGED <<calls, job, cur, messages, delayed, next_num, stop, until, ready, given, fate, dead,
                 send_graph, dchecks, aborted, now>>

-----------------------------------------------------------------------------
(* The loop of ProcessMessages, Get and Dispatch. *)
Due(t) == { d \in delayed[t] : d.at <= now }

(* The order in which the priority queue delayed_messages_ gives out S. *)
Sorted(S) ==
  { q \in BoundedSeq(S, Msgs) :
      ToSet(q) = S /\ \A i, j \in DOMAIN q : i < j => Sooner(q[i], q[j]) }

(* One round of the inner loop.  The first moves what is due to the queue and
   finds the next time; a message to be disposed of is deleted and skipped. *)
Get(t) ==
  LET first == at[t] = "get"
      rest == IF first THEN delayed[t] \ Due(t) ELSE delayed[t]
  IN
  \E due \in Sorted(IF first THEN Due(t) ELSE {}) :
  LET all == messages[t] \o [i \in DOMAIN due |-> due[i].msg]
  IN
  /\ at[t] \in {"get", "more"}
  /\ delayed' = [delayed EXCEPT ![t] = rest]
  /\ until' = [until EXCEPT ![t] =
                 IF ~first THEN @
                 ELSE IF rest = {} THEN Forever
                 ELSE CHOOSE k \in { d.at : d \in rest } : \A d \in rest : k <= d.at]
  /\ messages' = [messages EXCEPT ![t] = IF all = << >> THEN all ELSE Tail(all)]
  /\ \/ /\ all = << >> /\ Goto(t, "test")
        /\ UNCHANGED <<cur, fate>>
     \/ /\ all # << >> /\ given[Head(all)].how = "dispose"
        /\ Settle({Head(all)}, "deleted") /\ Goto(t, "more")
        /\ UNCHANGED cur
     \/ /\ all # << >> /\ given[Head(all)].how # "dispose"
        /\ cur' = [cur EXCEPT ![t] = Head(all)] /\ Goto(t, "run")
        /\ UNCHANGED fate
  /\ UNCHANGED <<calls, job, next_num, stop, event, ready, given, dead, send_graph, dchecks, aborted, now>>

(* Mutant: an event that was set before the wait does not count. *)
TestQuittingResets(t) ==
  /\ at[t] = "test"
  /\ Goto(t, IF stop[t] THEN "ended" ELSE "wait")
  /\ event' = [event EXCEPT ![t] = FALSE]
  /\ UNCHANGED <<calls, job, cur, messages, delayed, next_num, stop, until, ready, given, fate,
                 dead, send_graph, dchecks, aborted, now>>

(* IsQuitting is asked when there is nothing left. *)
TestQuitting(t) ==
  /\ at[t] = "test"
  /\ Goto(t, IF stop[t] THEN "ended" ELSE "wait")
  /\ UNCHANGED <<calls, job, cur, messages, delayed, next_num, stop, event, until, ready, given, fate,
                 dead, send_graph, dchecks, aborted, now>>

(* NullSocketServer::Wait, Event::Wait: an event that was set is reset. *)
Wait(t) ==
  /\ at[t] = "wait" /\ (event[t] \/ now >= until[t])
  /\ event' = [event EXCEPT ![t] = FALSE] /\ until' = [until EXCEPT ![t] = Forever]
  /\ Goto(t, "get")
  /\ UNCHANGED <<calls, job, cur, messages, delayed, next_num, stop, ready, given, fate, dead,
                 send_graph, dchecks, aborted, now>>

(* Mutant: the task is kept for later. *)
DispatchedKeeps(t) ==
  /\ at[t] = "run" /\ t # Main /\ ~aborted
  /\ Settle({cur[t]}, "done") /\ UNCHANGED <<ready, event>>
  /\ cur' = [cur EXCEPT ![t] = NoMsg] /\ Goto(t, "get")
  /\ UNCHANGED <<calls, job, messages, delayed, next_num, stop, until, given, dead,
                 send_graph, dchecks, aborted, now>>

(* OnMessage returns; a task is destroyed then. *)
Dispatched(t) ==
  /\ at[t] = "run" /\ t # Main /\ ~aborted
  /\ Settle({cur[t]}, "done") /\ ReleaseSenders({cur[t]})
  /\ cur' = [cur EXCEPT ![t] = NoMsg] /\ Goto(t, "get")
  /\ UNCHANGED <<calls, job, messages, delayed, next_num, stop, until, given, dead,
                 send_graph, dchecks, aborted, now>>

-----------------------------------------------------------------------------
(* What main does with the threads it owns. *)

Start(t) ==
  /\ Called(Main, NoMsg, t, "start", 0) /\ at[t] = "off"
  /\ stop' = [stop EXCEPT ![t] = FALSE]
  /\ Goto(t, "get")
  /\ UNCHANGED <<job, cur, messages, delayed, next_num, event, until, ready, given, fate, dead,
                 send_graph, dchecks, aborted, now>>

(* Quit, in two steps; a handler may call it as well. *)
Quit(x, t) ==
  /\ Called(x, NoMsg, t, "quit", 0) /\ ~stop[t]
  /\ stop' = [stop EXCEPT ![t] = TRUE]
  /\ job' = [job EXCEPT ![x] = [NoJob EXCEPT !.to = t]]
  /\ Goto(x, "wake")
  /\ UNCHANGED <<cur, messages, delayed, next_num, event, until, ready, given, fate, dead,
                 send_graph, dchecks, aborted, now>>

(* Join, after Quit. *)
Join(t) ==
  /\ at[Main] = "run" /\ stop[t] /\ at[t] = "ended"
  /\ Goto(t, "off")
  /\ UNCHANGED <<calls, job, cur, messages, delayed, next_num, stop, event, until, ready, given, fate,
                 dead, send_graph, dchecks, aborted, now>>

(* The loop that erases from a list. *)
Without(list, gone) ==
  LET kept[i \in 0 .. Len(list)] ==
        IF i = 0 THEN << >>
        ELSE IF list[i] \in gone THEN kept[i - 1] ELSE Append(kept[i - 1], list[i])
  IN  kept[Len(list)]

Matches(h, m) == h = "any" \/ h = given[m].how

(* Mutant: delayed messages are forgotten. *)
ClearInternalDelayedStay(t, h) ==
  LET gone == { m \in ToSet(messages[t]) \union { d.msg : d \in delayed[t] } : Matches(h, m) }
  IN  /\ messages' = [messages EXCEPT ![t] = Without(@, gone)]
      /\ UNCHANGED delayed
      /\ Settle(gone, "deleted") /\ ReleaseSenders(gone)

(* ClearInternal: messages of a handler, here those given in one way, or of
   any go from the queue and from the delayed ones. *)
ClearInternal(t, h) ==
  LET gone == { m \in ToSet(messages[t]) \union { d.msg : d \in delayed[t] } : Matches(h, m) }
  IN  /\ messages' = [messages EXCEPT ![t] = Without(@, gone)]
      /\ delayed' = [delayed EXCEPT ![t] = { d \in @ : d.msg \notin gone }]
      /\ Settle(gone, "deleted") /\ ReleaseSenders(gone)

(* Thread::Clear, also by way of ThreadManager::Clear. *)
ClearThread(x, t, h) ==
  /\ Called(x, NoMsg, t, "clear", 0)
  /\ ClearInternal(t, h)
  /\ UNCHANGED <<at, job, cur, next_num, stop, until, given, dead, send_graph, dchecks, aborted, now>>

(* The destructor, when nobody uses t any more: DoDestroy clears the queue
   and RemoveFromSendGraph forgets who sent what. *)
Destroy(t) ==
  /\ at[Main] = "run" /\ at[t] = "off" /\ t \notin dead
  /\ \A x \in Actors : job[x].to # t
  /\ ClearInternal(t, "any")
  /\ dead' = dead \union {t} /\ stop' = [stop EXCEPT ![t] = TRUE]
  /\ send_graph' = { e \in send_graph : t \notin {e[1], e[2]} }
  /\ UNCHANGED <<calls, at, job, cur, next_num, until, given, dchecks, aborted, now>>

Tick ==
  /\ now < MaxTime /\ \E t \in Threads : delayed[t] # {}
  /\ now' = now + 1
  /\ UNCHANGED <<calls, at, job, cur, messages, delayed, next_num, stop, event, until, ready, given,
                 fate, dead, send_graph, dchecks, aborted>>

(* The steps an actor takes by itself. *)
Proceed(x) == Post(x) \/ Push(x) \/ WakeUp(x) \/ SendLoop(x) \/ Nap(x)

ThreadProceeds(t) == Proceed(t) \/ Get(t) \/ TestQuitting(t) \/ Wait(t) \/ Dispatched(t)

ThreadNext ==
  \/ \E x \in Actors, t \in Threads :
       \/ \E m \in Ids : \/ CallSend(x, m, t)
                         \/ \E how \in {"post", "dispose", "delay"}, delay \in 0 .. 1 :
                              CallPost(x, m, t, how, delay)
       \/ Quit(x, t)
       \/ \E h \in {"post", "delay"} : ClearThread(x, t, h)
  \/ \E t \in Threads : Start(t) \/ Join(t) \/ Destroy(t) \/ ThreadProceeds(t)
  \/ Proceed(Main)
  \/ Tick

ThreadSpec == ThreadInit /\ [][ThreadNext]_threadVars

-----------------------------------------------------------------------------
(* Where m is: in a queue, being handed over or being dispatched. *)
Places(m) ==
  { <<"dispatch", t>> : t \in { s \in Threads : cur[s] = m } }
  \union { <<"job", x>> : x \in { y \in Actors : job[y].msg = m /\ at[y] \in {"post", "push"} } }
  \union (UNION { { <<"delayed", t, d>> : d \in { e \in delayed[t] : e.msg = m } } : t \in Threads })
  \union (UNION { { <<"queue", t, i>> : i \in { j \in DOMAIN messages[t] : messages[t][j] = m } } :
                    t \in Threads })

(***************************************************************************)
(* A message that was given to a thread is in one place until it has been  *)
(* handled or deleted, and never again after that, although it is handed   *)
(* over in steps between which threads quit, end and are cleared.  So none *)
(* is handled twice, deleted twice or handled after its handler has been   *)
(* cleared, and a destroyed thread leaves none behind.                     *)
(***************************************************************************)
MessagesSettleOnce ==
  \A m \in Ids :
    /\ Cardinality(Places(m)) = (IF fate[m] = "given" THEN 1 ELSE 0)
    /\ \A t \in dead : m \notin ToSet(messages[t]) \union { d.msg : d \in delayed[t] }

Waker(t) == \E x \in Actors : at[x] = "wake" /\ job[x].to = t

(***************************************************************************)
(* A thread sleeps only when there is nothing to do: with its event not    *)
(* set it has no message, has not been told to quit and has no delayed     *)
(* message before the time its wait ends, unless the actor that changed    *)
(* this is about to wake it.  Push and WakeUp are two steps, and the event *)
(* is shared with the waits of Send.                                       *)
(***************************************************************************)
SleepersAreIdle ==
  \A t \in Threads :
    at[t] = "wait" /\ ~event[t] /\ ~Waker(t) =>
      /\ messages[t] = << >> /\ ~stop[t]
      /\ \A d \in delayed[t] : d.at >= until[t]

Sleeping(x) == at[x] \in {"sleep", "nap"}
Blocks(t, x) == Sleeping(x) /\ job[x].to = t

(* The threads that x waits for, directly or through others. *)
WaitGraph == [node |-> Actors, edge |-> { e \in Actors \X Threads : Blocks(e[2], e[1]) }]
WaitsFor(x) == Descendants(WaitGraph, x)

(* A thread that does not take messages from its queue any more. *)
Stalled(t) == stop[t] \/ at[t] \in {"off", "ended"}

(***************************************************************************)
(* A Send returns, whichever WakeUps its sleep has consumed, unless one of *)
(* the threads that it waits for does not run or was told to quit: then a  *)
(* message that was pushed after that thread's last look stays in its      *)
(* queue, and the sender with it.  Threads that wait for each other in a   *)
(* circle are stopped by the check of the send graph before they block;    *)
(* only a build without RTC_DCHECK lets them.                              *)
(***************************************************************************)
SendReturns ==
  \A x \in Actors :
    Sleeping(x) ~> \/ ~Sleeping(x) \/ aborted
                   \/ \E t \in WaitsFor(x) : Stalled(t) \/ (~dchecks /\ t \in WaitsFor(t))
=============================================================================
