---------------------------- MODULE AsyncInvoker ----------------------------
(***************************************************************************)
(* rtc::DEPRECATED_AsyncInvoker: closures posted to message threads, and a *)
(* destructor that has to outlast every one of them.                       *)
(*                                                                         *)
(* The destructor runs on the thread Owner and may start at any time after *)
(* the calls made there; the threads in Workers dispatch messages, and a   *)
(* functor may invoke again, on any thread (a "chain", as the class        *)
(* comment calls it).  Every access to the two atomics and to the event is *)
(* a step of its own, because each runs outside any lock.                  *)
(***************************************************************************)
EXTENDS Naturals, Sequences, FiniteSets

CONSTANTS Workers,     \* threads that dispatch closures
          Owner,       \* the thread that destroys the invoker
          MaxClosures  \* closures ever made

ASSUME InvokerConstants == Owner \notin Workers /\ MaxClosures \in Nat

VARIABLES
  closures,     \* closures made so far: 1 .. closures are their names
  ivPending,    \* pending_invocations_
  destroying,   \* destroying_
  complete,     \* invocation_complete_ is signalled (it resets itself)
  inbox,        \* inbox[t]: closures posted to thread t
  ivPc,         \* ivPc[t]: what thread t is doing
  uncleared,    \* threads whose queue ThreadManager::Clear has still to visit
  phase         \* the invoker: "alive", then the steps of its destructor

invokerVars == <<closures, ivPending, destroying, complete, inbox, ivPc, uncleared, phase>>

InvokerThreads == Workers \union {Owner}

IdlePc == [at |-> "idle", run |-> 0, make |-> 0, to |-> Owner]

InvokerInit ==
  /\ closures = 0 /\ ivPending = 0
  /\ destroying = FALSE /\ complete = FALSE
  /\ inbox = [t \in InvokerThreads |-> << >>]
  /\ ivPc = [t \in InvokerThreads |-> IdlePc]
  /\ uncleared = {}
  /\ phase = "alive"

-----------------------------------------------------------------------------
(* The owner is between two calls, and the invoker is there. *)
OwnerFree == phase = "alive" /\ ivPc[Owner].at = "idle" /\ uncleared = {}

(* AsyncInvoke makes the closure, whose constructor counts it, and hands it
   to DoInvoke.  The owner invokes while the invoker lives; any other thread
   only from inside a functor, whose own closure is still counted. *)
AsyncInvoke(t, to) ==
  /\ \/ t = Owner /\ OwnerFree
     \/ ivPc[t].at = "running"
  /\ closures < MaxClosures
  /\ closures' = closures + 1
  /\ ivPending' = ivPending + 1
  /\ ivPc' = [ivPc EXCEPT ![t].at = "made", ![t].make = closures + 1, ![t].to = to]
  /\ UNCHANGED <<destroying, complete, inbox, uncleared, phase>>

(* After a call the thread is back in the functor it was running, if any. *)
Resumed(pc) == [pc EXCEPT !.at = IF pc.run = 0 THEN "idle" ELSE "running", !.make = 0]

(* DoInvoke reads destroying_: the closure is dropped, or it will be posted
   whatever happens meanwhile. *)
DoInvoke(t) ==
  /\ ivPc[t].at = "made"
  /\ ivPc' = [ivPc EXCEPT ![t].at = IF destroying THEN "drop" ELSE "post"]
  /\ UNCHANGED <<closures, ivPending, destroying, complete, inbox, uncleared, phase>>

(* Thread::Post and PostDelayed: the delay says when, and the closure stays in
   a queue of the thread until then. *)
InvokePost(t) ==
  /\ ivPc[t].at = "post"
  /\ inbox' = [inbox EXCEPT ![ivPc[t].to] = Append(@, ivPc[t].make)]
  /\ ivPc' = [ivPc EXCEPT ![t] = Resumed(@)]
  /\ UNCHANGED <<closures, ivPending, destroying, complete, uncleared, phase>>

(* ~AsyncClosure of a closure that was not posted: uncount, then signal. *)
DropUncount(t) ==
  /\ ivPc[t].at = "drop"
  /\ ivPending' = ivPending - 1
  /\ ivPc' = [ivPc EXCEPT ![t].at = "dropSet"]
  /\ UNCHANGED <<closures, destroying, complete, inbox, uncleared, phase>>

DropSet(t) ==
  /\ ivPc[t].at = "dropSet"
  /\ complete' = TRUE
  /\ ivPc' = [ivPc EXCEPT ![t] = Resumed(@)]
  /\ UNCHANGED <<closures, ivPending, destroying, inbox, uncleared, phase>>

(* OnMessage: the thread takes the message and runs the functor; deleting the
   message's data then runs ~AsyncClosure.  The owner dispatches messages too,
   as long as it is not inside the destructor. *)
OnInvokerMessage(t) ==
  /\ ivPc[t].at = "idle" /\ inbox[t] # << >>
  /\ t = Owner => OwnerFree
  /\ inbox' = [inbox EXCEPT ![t] = Tail(@)]
  /\ ivPc' = [ivPc EXCEPT ![t].at = "running", ![t].run = Head(inbox[t])]
  /\ UNCHANGED <<closures, ivPending, destroying, complete, uncleared, phase>>

ClosureUncount(t) ==
  /\ ivPc[t].at = "running"
  /\ ivPending' = ivPending - 1
  /\ ivPc' = [ivPc EXCEPT ![t].at = "set"]
  /\ UNCHANGED <<closures, destroying, complete, inbox, uncleared, phase>>

ClosureSet(t) ==
  /\ ivPc[t].at = "set"
  /\ complete' = TRUE
  /\ ivPc' = [ivPc EXCEPT ![t] = IdlePc]
  /\ UNCHANGED <<closures, ivPending, destroying, inbox, uncleared, phase>>

-----------------------------------------------------------------------------
(* Mutant: the destructor signals nothing for the closures it discards from
   its own queue. *)
DiscardQuietly(t) ==
  /\ inbox' = [inbox EXCEPT ![t] = << >>]
  /\ ivPending' = ivPending - Len(inbox[t])
  /\ UNCHANGED complete

(* Messages for the invoker are deleted under the queue's lock, the closures
   with them: each one uncounts itself and signals. *)
Discard(t) ==
  /\ inbox' = [inbox EXCEPT ![t] = << >>]
  /\ ivPending' = ivPending - Len(inbox[t])
  /\ complete' = (complete \/ inbox[t] # << >>)

(* Clear, which the destructor begins with too: ThreadManager::Clear visits the
   queues of all threads, each under its own lock. *)
InvokerClear ==
  /\ OwnerFree
  /\ uncleared' = InvokerThreads
  /\ UNCHANGED <<closures, ivPending, destroying, complete, inbox, ivPc, phase>>

ClearQueue(t) ==
  /\ t \in uncleared
  /\ Discard(t)
  /\ uncleared' = uncleared \ {t}
  /\ UNCHANGED <<closures, destroying, ivPc, phase>>

InvokerDestroy ==
  /\ OwnerFree
  /\ destroying' = TRUE
  /\ uncleared' = InvokerThreads
  /\ phase' = "load"
  /\ UNCHANGED <<closures, ivPending, complete, inbox, ivPc>>

DestroyLoad ==
  /\ phase = "load" /\ uncleared = {}
  /\ phase' = IF ivPending > 0 THEN "again" ELSE "gone"
  /\ UNCHANGED <<closures, ivPending, destroying, complete, inbox, ivPc, uncleared>>

(* Thread::Current()->Clear(this): only the owner's own queue. *)
DestroyClearOwn ==
  /\ phase = "again"
  /\ Discard(Owner)
  /\ phase' = "wait"
  /\ UNCHANGED <<closures, destroying, ivPc, uncleared>>

(* Event::Wait: returns when the event is signalled, and resets it. *)
DestroyWait ==
  /\ phase = "wait" /\ complete
  /\ complete' = FALSE
  /\ phase' = "load"
  /\ UNCHANGED <<closures, ivPending, destroying, inbox, ivPc, uncleared>>

InvokerDestructor == (\E t \in InvokerThreads : ClearQueue(t)) \/ DestroyLoad \/ DestroyClearOwn \/ DestroyWait

InvokerStep(t) ==
  \/ DoInvoke(t) \/ InvokePost(t) \/ DropUncount(t) \/ DropSet(t)
  \/ OnInvokerMessage(t) \/ ClosureUncount(t) \/ ClosureSet(t)

InvokerNext ==
  \/ \E t \in InvokerThreads : InvokerStep(t) \/ \E to \in InvokerThreads : AsyncInvoke(t, to)
  \/ InvokerClear \/ InvokerDestroy \/ InvokerDestructor

InvokerSpec == InvokerInit /\ [][InvokerNext]_invokerVars

-----------------------------------------------------------------------------
(* A closure that has not been uncounted yet. *)
LiveClosures ==
  {ivPc[t].make : t \in {u \in InvokerThreads : ivPc[u].at \in {"made", "post", "drop"}}}
  \union {ivPc[t].run : t \in {u \in InvokerThreads : ivPc[u].run # 0 /\ ivPc[u].at # "set"}}
  \union UNION { {inbox[t][i] : i \in DOMAIN inbox[t]} : t \in InvokerThreads }

(* The destructor of the invoker returns, and only when no closure will touch
   the invoker any more, although functors may still be invoking while it runs
   and although it clears each queue once: a closure that slips into a queue
   behind it is run, or found again (async_invoker.cc:23-38).  What may come
   later is the signal of an event that is shared. *)
InvokerOutlivesClosures ==
  /\ [](ivPending = Cardinality(LiveClosures))
  /\ [](phase = "gone" => LiveClosures = {})
  /\ (phase # "alive") ~> (phase = "gone")
=============================================================================
