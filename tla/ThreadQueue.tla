---------------------------- MODULE ThreadQueue ----------------------------
(***************************************************************************)
(* The bounded queue between threads of utils/threadqueue.hpp.  Only the   *)
(* number of its elements matters here.                                    *)
(*                                                                         *)
(* What a thread does under _mutex is one step.  A thread that waits has   *)
(* given the mutex up and is in the wait set of _cv; it leaves the set     *)
(* when another thread calls notify_all (which it does after unlock, hence *)
(* in a step of its own), when the time of a timed wait is up, or for no   *)
(* reason.  It then tests the predicate of its wait again.                 *)
(***************************************************************************)
EXTENDS Integers

CONSTANTS
  MaxArg,     \* the argument of the constructor
  Producers,  \* threads that call push_back and push_back_t
  Consumers,  \* threads that call pop
  Cleaners    \* threads that call clear

(* _max.  The constructor lets 0 pass, with which the first push fills the
   queue for good; callers have to avoid it. *)
ASSUME MaxAssumption == MaxArg \in Int /\ MaxArg # 0

QueueMax == IF MaxArg < 0 THEN 1 ELSE MaxArg

QueueThreads == Producers \union Consumers \union Cleaners

VARIABLES count,       \* _queue.size()
          isFull, isNotEmpty,
          waiting,     \* the wait set of _cv
          doing,       \* the operation a thread is in, or its notify_all
          leftBehind   \* history: threads that have waited through a clear

queueVars == <<count, isFull, isNotEmpty, waiting, doing, leftBehind>>

QueueInit ==
  /\ count = 0 /\ isFull = FALSE /\ isNotEmpty = FALSE
  /\ waiting = {} /\ leftBehind = {}
  /\ doing = [t \in QueueThreads |-> "idle"]

-----------------------------------------------------------------------------
Goto(t, where) == doing' = [doing EXCEPT ![t] = where]

(* Who does not wait any more has not been left behind. *)
KeepLeft == leftBehind' = leftBehind \intersect waiting'

(* t calls op, or tests its predicate again after a wait. *)
Runs(t, op) == t \notin waiting /\ doing[t] \in {"idle", op}

WaitFor(t, op) ==
  /\ waiting' = waiting \union {t}
  /\ Goto(t, op)
  /\ UNCHANGED <<count, isFull, isNotEmpty>>

(* Mutant: the producer does not notify. *)
PushQuiet(t) ==
  /\ count' = count + 1
  /\ isFull' = (isFull \/ count' >= QueueMax)
  /\ isNotEmpty' = TRUE
  /\ Goto(t, "idle")

PushElement(t) ==
  /\ count' = count + 1
  /\ isFull' = (isFull \/ count' >= QueueMax)
  /\ isNotEmpty' = TRUE
  /\ Goto(t, "notify")

TakeFront(t) ==
  /\ count' = count - 1
  /\ isNotEmpty' = (isNotEmpty /\ count' # 0)
  /\ isFull' = (isFull /\ count' >= QueueMax)
  /\ Goto(t, IF count' < QueueMax THEN "notify" ELSE "idle")

ReturnIdle(t) == Goto(t, "idle") /\ UNCHANGED <<count, isFull, isNotEmpty>>

PushBack(t) ==
  /\ Runs(t, "push")
  /\ \/ isFull /\ WaitFor(t, "push")
     \/ ~ isFull /\ PushElement(t) /\ UNCHANGED waiting
  /\ KeepLeft

PushBackT(t) ==
  /\ Runs(t, "push_t")
  /\ \/ isFull /\ WaitFor(t, "push_t")
     \/ /\ ~ isFull
        /\ IF count >= QueueMax THEN ReturnIdle(t) ELSE PushElement(t)
        /\ UNCHANGED waiting
  /\ KeepLeft

PopElement(t) ==
  /\ Runs(t, "pop")
  /\ \/ ~ isNotEmpty /\ WaitFor(t, "pop")
     \/ isNotEmpty /\ TakeFront(t) /\ UNCHANGED waiting
  /\ KeepLeft

(* The end of the time in wait_for: the predicate is tested once more. *)
TimeOut(t) ==
  /\ t \in waiting
  /\ waiting' = waiting \ {t} /\ KeepLeft
  /\ \/ doing[t] = "push_t" /\ IF isFull \/ count >= QueueMax THEN ReturnIdle(t) ELSE PushElement(t)
     \/ doing[t] = "pop" /\ IF isNotEmpty THEN TakeFront(t) ELSE ReturnIdle(t)

NotifyAll(t) ==
  /\ doing[t] = "notify"
  /\ waiting' = {} /\ KeepLeft
  /\ ReturnIdle(t)

SpuriousWakeup(t) ==
  /\ t \in waiting
  /\ waiting' = waiting \ {t} /\ KeepLeft
  /\ UNCHANGED <<count, isFull, isNotEmpty, doing>>

(* Mutant: the queue stays full. *)
ClearKeepsFull(t) ==
  /\ count' = 0 /\ isNotEmpty' = FALSE /\ leftBehind' = leftBehind \union waiting
  /\ UNCHANGED <<isFull, waiting, doing>>

(* clear notifies nobody. *)
ClearQueue(t) ==
  /\ count' = 0 /\ isFull' = FALSE /\ isNotEmpty' = FALSE
  /\ leftBehind' = leftBehind \union waiting
  /\ UNCHANGED <<waiting, doing>>

QueueNext ==
  \/ \E t \in Producers : PushBack(t) \/ PushBackT(t)
  \/ \E t \in Consumers : PopElement(t)
  \/ \E t \in Cleaners : ClearQueue(t)
  \/ \E t \in QueueThreads : TimeOut(t) \/ NotifyAll(t) \/ SpuriousWakeup(t)

QueueSpec == QueueInit /\ [][QueueNext]_queueVars

-----------------------------------------------------------------------------
(* Types of the state. *)
TypeOK ==
  /\ count \in Nat
  /\ isFull \in BOOLEAN /\ isNotEmpty \in BOOLEAN
  /\ waiting \subseteq QueueThreads /\ leftBehind \subseteq waiting
  /\ doing \in [QueueThreads -> {"idle", "push", "push_t", "pop", "notify"}]

(***************************************************************************)
(* The two flags, which every operation keeps by hand and every wait       *)
(* relies on, always tell the truth about the size, and the queue never     *)
(* holds more than _max elements: push_back does not look at the size       *)
(* itself.                                                                 *)
(***************************************************************************)
FlagsTellSize ==
  /\ isFull <=> count = QueueMax
  /\ isNotEmpty <=> count > 0
  /\ count <= QueueMax

Waits(t, op) == t \in waiting /\ doing[t] = op

CanGoOn(t) ==
  \/ (Waits(t, "push") \/ Waits(t, "push_t")) /\ ~ isFull
  \/ Waits(t, "pop") /\ isNotEmpty

(***************************************************************************)
(* No wakeup is lost, except by clear: if a thread waits for what has      *)
(* become true, some thread is about to notify, or it is one of those that *)
(* have been waiting since before a clear, which notifies nobody.  The     *)
(* other operations notify after they have unlocked, when others may have  *)
(* changed the queue again.                                                *)
(***************************************************************************)
NoLostWakeup ==
  \A t \in QueueThreads :
    CanGoOn(t) => t \in leftBehind \/ \E n \in QueueThreads : doing[n] = "notify"

(* Inductive: a thread that waits is in an operation that can wait. *)
WaitersInOp == \A t \in waiting : doing[t] \in {"push", "push_t", "pop"}

(* The inductive invariant of the proofs. *)
IInv == TypeOK /\ FlagsTellSize /\ WaitersInOp /\ NoLostWakeup
=============================================================================
