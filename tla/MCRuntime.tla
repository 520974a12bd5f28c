----------------------------- MODULE MCRuntime ------------------------------
(***************************************************************************)
(* What runs concurrently below the server, in rtc_base: threads with      *)
(* their queues, invokers, locks.  Each part by itself: they share no      *)
(* state here, so a behaviour is one of one part, which is chosen at the   *)
(* start.                                                                  *)
(***************************************************************************)
EXTENDS RtcThread, AsyncInvoker, Locks

VARIABLE focus

-----------------------------------------------------------------------------
(* The calls of a scenario: sends that cross, delayed messages with a clear and
   a quit, posts and sends to a thread that is disposed of. *)
Call(x, t, how, delay) == [by |-> x, to |-> t, how |-> how, delay |-> delay]

Starts(ts) == {Call(Main, t, "start", 0) : t \in ts}

Sends == Starts({"a", "b"}) \union
  { Call(Main, "a", "send", 0), Call("a", "b", "send", 0), Call("b", "a", "send", 0),
    Call(Main, "b", "quit", 0) }

Delayed == Starts({"a"}) \union
  { Call(Main, "a", "delay", 1), Call("a", "a", "delay", 0), Call("a", "a", "clear", 0),
    Call(Main, "a", "quit", 0), Call(Main, "a", "post", 0) }

Posts == Starts({"a", "b"}) \union
  { Call(Main, "a", "send", 0), Call("a", "b", "post", 0), Call("a", "b", "send", 0),
    Call(Main, "b", "dispose", 0), Call("a", "a", "quit", 0), Call("a", "a", "send", 0) }

McScenarios == {Sends, Delayed, Posts}

-----------------------------------------------------------------------------
Parts == {"thread", "invoker", "lock"}

vars == <<focus, threadVars, invokerVars, lockVars>>

(* The other parts stand still in one of their initial states.  Without a Send
   the build makes no difference. *)
Init == /\ focus \in Parts
        /\ ThreadInit  /\ (focus = "thread" \/ (calls = Sends /\ dchecks)) /\ (calls = Delayed => dchecks)
        /\ InvokerInit
        /\ LockInit    /\ (focus = "lock" \/ kind = "mutex")

Still(part, partVars) == IF focus = part THEN TRUE ELSE UNCHANGED partVars

(* A step of one part. *)
StepOf(part) ==
  /\ focus = part /\ UNCHANGED focus
  /\ Still("thread", threadVars) /\ Still("invoker", invokerVars) /\ Still("lock", lockVars)

Next ==
  \/ StepOf("thread")  /\ ThreadNext
  \/ StepOf("invoker") /\ InvokerNext
  \/ StepOf("lock")    /\ LockNext

(* A thread that can go on does: the system schedules every runnable thread. *)
Spec == /\ Init /\ [][Next]_vars
        /\ WF_vars(StepOf("thread") /\ Proceed(Main))
        /\ \A t \in Threads : WF_vars(StepOf("thread") /\ ThreadProceeds(t))
        /\ WF_vars(StepOf("invoker") /\ InvokerDestructor)
        /\ \A t \in InvokerThreads : WF_vars(StepOf("invoker") /\ InvokerStep(t))
        /\ \A t \in Lockers : WF_vars(StepOf("lock") /\ LockStep(t))
=============================================================================
