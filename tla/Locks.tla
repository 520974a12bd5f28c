------------------------------- MODULE Locks --------------------------------
(***************************************************************************)
(* The locks of rtc_base: RecursiveCriticalSection, in its two POSIX       *)
(* forms (a recursive pthread mutex, and the spinning lock of macOS, made  *)
(* of an atomic counter and a semaphore, which is built only when          *)
(* recursive_critical_section.h:35 is set to 0), Mutex and GlobalMutex.     The accesses to shared words that are not under *)
(* a lock of the system are single steps.                                  *)
(***************************************************************************)
EXTENDS Integers, FiniteSets

CONSTANTS Lockers,     \* threads
          NoThread,    \* owning_thread_ of a lock nobody has
          LockKinds,   \* of {"recursive", "spinning", "mutex", "global"}
          MaxSpins,    \* rounds of the spinning loop (3000)
          MaxEnters    \* Enter and TryEnter calls that are made

ASSUME LockConstants ==
  /\ NoThread \notin Lockers
  /\ LockKinds \subseteq {"recursive", "spinning", "mutex", "global"}
  /\ MaxSpins \in Nat /\ MaxEnters \in Nat

VARIABLES
  kind,        \* which lock it is
  word,        \* lock_queue_, or mutex_locked_ of GlobalMutex
  owner,       \* owning_thread_
  recursion,   \* recursion_
  semaphore,   \* count of the semaphore
  lockPc,      \* lockPc[t]: where thread t is; "in" inside, "out" outside
  spins,       \* spins[t]: rounds left
  depth,       \* depth[t]: how often thread t has entered
  enters       \* calls made so far

lockVars == <<kind, word, owner, recursion, semaphore, lockPc, spins, depth, enters>>

LockInit ==
  /\ kind \in LockKinds
  /\ word = 0 /\ owner = NoThread /\ recursion = 0 /\ semaphore = 0
  /\ lockPc = [t \in Lockers |-> "out"]
  /\ spins = [t \in Lockers |-> 0]
  /\ depth = [t \in Lockers |-> 0]
  /\ enters = 0

LockGoto(t, to) == lockPc' = [lockPc EXCEPT ![t] = to]

Recursive == kind \in {"recursive", "spinning"}

-----------------------------------------------------------------------------
(* Enter or Lock is called; only the recursive locks by a thread that is inside
   (the others would wait for themselves). *)
CallEnter(t) ==
  /\ enters < MaxEnters
  /\ lockPc[t] = "out" \/ (Recursive /\ lockPc[t] = "in")
  /\ enters' = enters + 1
  /\ spins' = [spins EXCEPT ![t] = MaxSpins]
  /\ LockGoto(t, "enter")
  /\ UNCHANGED <<kind, word, owner, recursion, semaphore, depth>>

Entered(t) ==
  /\ LockGoto(t, "in")
  /\ depth' = [depth EXCEPT ![t] = @ + 1]
  /\ UNCHANGED <<kind, enters>>

(* pthread_mutex_lock of a recursive and of a plain mutex. *)
SystemLock(t) ==
  /\ kind \in {"recursive", "mutex"} /\ lockPc[t] = "enter"
  /\ owner = NoThread \/ (kind = "recursive" /\ owner = t)
  /\ owner' = t
  /\ recursion' = recursion + 1
  /\ Entered(t)
  /\ UNCHANGED <<word, semaphore, spins>>

(* GlobalMutex::Lock: exchange until the old value was 0. *)
GlobalLock(t) ==
  /\ kind = "global" /\ lockPc[t] = "enter"
  /\ word' = 1
  /\ IF word = 0
     THEN Entered(t)
     ELSE UNCHANGED <<kind, lockPc, depth, enters>>
  /\ UNCHANGED <<owner, recursion, semaphore, spins>>

(* One round lost; after the last one the thread queues. *)
SpinOn(t) ==
  /\ spins' = [spins EXCEPT ![t] = @ - 1]
  /\ LockGoto(t, IF spins[t] > 1 THEN "enter" ELSE "queue")

(* Look at the owner, then at the counter. *)
SpinLook(t) ==
  /\ kind = "spinning" /\ lockPc[t] = "enter"
  /\ \/ /\ owner = t
        /\ word' = word + 1
        /\ LockGoto(t, "own")
        /\ UNCHANGED spins
     \/ /\ owner # t /\ word = 0
        /\ LockGoto(t, "swap")
        /\ UNCHANGED <<word, spins>>
     \/ /\ owner # t /\ word # 0
        /\ SpinOn(t)
        /\ UNCHANGED word
  /\ UNCHANGED <<kind, owner, recursion, semaphore, depth, enters>>

SpinSwap(t) ==
  /\ lockPc[t] = "swap"
  /\ IF word = 0
     THEN word' = 1 /\ LockGoto(t, "own") /\ UNCHANGED spins
     ELSE SpinOn(t) /\ UNCHANGED word
  /\ UNCHANGED <<kind, owner, recursion, semaphore, depth, enters>>

(* Counted in, and waiting for the semaphore unless the lock was just freed. *)
SpinQueue(t) ==
  /\ lockPc[t] = "queue"
  /\ word' = word + 1
  /\ LockGoto(t, IF word + 1 > 1 THEN "sleep" ELSE "own")
  /\ UNCHANGED <<kind, owner, recursion, semaphore, spins, depth, enters>>

SpinWake(t) ==
  /\ lockPc[t] = "sleep" /\ semaphore > 0
  /\ semaphore' = semaphore - 1
  /\ LockGoto(t, "own")
  /\ UNCHANGED <<kind, word, owner, recursion, spins, depth, enters>>

SpinOwn(t) ==
  /\ lockPc[t] = "own"
  /\ owner' = t
  /\ recursion' = recursion + 1
  /\ Entered(t)
  /\ UNCHANGED <<word, semaphore, spins>>

(* TryEnter and TryLock, which never wait. *)
TryEnter(t) ==
  /\ enters < MaxEnters /\ kind # "global"
  /\ lockPc[t] = "out" \/ (Recursive /\ lockPc[t] = "in")
  /\ LET free == IF kind = "spinning" THEN word = 0 ELSE owner = NoThread
         mine == Recursive /\ owner = t
     IN  IF free \/ mine
         THEN /\ word' = IF kind = "spinning" THEN word + 1 ELSE word
              /\ owner' = t
              /\ recursion' = recursion + 1
              /\ depth' = [depth EXCEPT ![t] = @ + 1]
              /\ LockGoto(t, "in")
         ELSE UNCHANGED <<word, owner, recursion, depth, lockPc>>
  /\ enters' = enters + 1
  /\ UNCHANGED <<kind, semaphore, spins>>

-----------------------------------------------------------------------------
Inside(t) == depth[t] > 0

(* Mutant: GlobalMutex::Unlock does not store its 0. *)
SimpleLeaveKeepsWord(t) ==
  /\ kind # "spinning" /\ lockPc[t] = "in"
  /\ recursion' = IF kind = "global" THEN 0 ELSE recursion - 1
  /\ owner' = IF recursion' = 0 THEN NoThread ELSE owner
  /\ depth' = [depth EXCEPT ![t] = @ - 1]
  /\ LockGoto(t, IF depth[t] = 1 THEN "out" ELSE "in")
  /\ UNCHANGED <<kind, word, semaphore, spins, enters>>

(* Leave and Unlock of the system's mutexes and of GlobalMutex. *)
SimpleLeave(t) ==
  /\ kind # "spinning" /\ lockPc[t] = "in"
  /\ recursion' = IF kind = "global" THEN 0 ELSE recursion - 1
  /\ owner' = IF recursion' = 0 THEN NoThread ELSE owner
  /\ word' = 0
  /\ depth' = [depth EXCEPT ![t] = @ - 1]
  /\ LockGoto(t, IF depth[t] = 1 THEN "out" ELSE "in")
  /\ UNCHANGED <<kind, semaphore, spins, enters>>

(* Leave of the spinning lock: the owner's fields first, then the counter, then,
   if others are counted and this was the outermost level, the semaphore. *)
SpinLeave(t) ==
  /\ kind = "spinning" /\ lockPc[t] = "in"
  /\ recursion' = recursion - 1
  /\ owner' = IF recursion = 1 THEN NoThread ELSE owner
  /\ depth' = [depth EXCEPT ![t] = @ - 1]
  /\ LockGoto(t, "uncount")
  /\ UNCHANGED <<kind, word, semaphore, spins, enters>>

Outside(t) == IF Inside(t) THEN "in" ELSE "out"

SpinUncount(t) ==
  /\ lockPc[t] = "uncount"
  /\ word' = word - 1
  /\ LockGoto(t, IF word - 1 > 0 THEN "signal" ELSE Outside(t))
  /\ UNCHANGED <<kind, owner, recursion, semaphore, spins, depth, enters>>

SpinSignal(t) ==
  /\ lockPc[t] = "signal"
  /\ semaphore' = IF recursion = 0 THEN semaphore + 1 ELSE semaphore
  /\ LockGoto(t, Outside(t))
  /\ UNCHANGED <<kind, word, owner, recursion, spins, depth, enters>>

LockStep(t) ==
  \/ SystemLock(t) \/ GlobalLock(t)
  \/ SpinLook(t) \/ SpinSwap(t) \/ SpinQueue(t) \/ SpinWake(t) \/ SpinOwn(t)
  \/ SimpleLeave(t) \/ SpinLeave(t) \/ SpinUncount(t) \/ SpinSignal(t)

LockNext == \E t \in Lockers : CallEnter(t) \/ TryEnter(t) \/ LockStep(t)

LockSpec == LockInit /\ [][LockNext]_lockVars

-----------------------------------------------------------------------------
OneInside == Cardinality({t \in Lockers : Inside(t) \/ lockPc[t] = "own"}) <= 1

(* One thread at a time is inside, however often it entered, from the moment a
   call returns until the outermost Leave gives the lock up; and whoever waits
   gets in: the semaphore is signalled for every thread that queued, and for no
   other (recursive_critical_section.cc:80-111, 176-184). *)
LocksExclude ==
  /\ []OneInside
  /\ \A t \in Lockers : (lockPc[t] = "enter") ~> (lockPc[t] = "in")
=============================================================================
