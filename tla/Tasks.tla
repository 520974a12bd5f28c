------------------------------- MODULE Tasks --------------------------------
(***************************************************************************)
(* Times and the tasks that are run at them: rtc_base/units, then          *)
(* rtc_base/task_utils.                                                    *)
(***************************************************************************)
EXTENDS Integers, Sequences

-----------------------------------------------------------------------------
(***************************************************************************)
(* rtc_base/units/unit_base.h, api/units: TimeDelta and Timestamp, 64-bit  *)
(* numbers whose largest and smallest values stand for the infinities.     *)
(*                                                                         *)
(* UnitMax is the largest value of the machine word.  An operation whose   *)
(* RTC_DCHECKs fail is not made: what a release build computes then (the   *)
(* word wraps, or a sum becomes an infinity) is outside the interface.     *)
(***************************************************************************)
CONSTANTS UnitMax,      \* numeric_limits<int64_t>::max()
          Magnitudes,   \* sizes of the finite operands
          PerMilli,     \* microseconds in a millisecond
          MaxOps        \* operations in a row

ASSUME UnitAssumption == UnitMax \in Nat /\ PerMilli \in Nat \ {0}

VARIABLES
  delta,    \* a TimeDelta
  stamp,    \* a Timestamp
  base,     \* what stamp was at the start
  ops       \* operations so far

unitVars == <<delta, stamp, base, ops>>

PlusInf  == UnitMax
MinusInf == -UnitMax - 1

IsFinite(a) == a # PlusInf /\ a # MinusInf
Fits(v) == MinusInf < v /\ v < PlusInf

(* C++ division rounds towards zero. *)
Quot(n, d) == IF n >= 0 THEN n \div d ELSE -((-n) \div d)

(* The operators' checks: no sum of opposite infinities, and the value of a
   finite result between the infinities. *)
CanAdd(a, b) ==
  /\ ~(a = PlusInf /\ b = MinusInf) /\ ~(a = MinusInf /\ b = PlusInf)
  /\ IsFinite(a) /\ IsFinite(b) => Fits(a + b)

UnitAdd(a, b) ==
  CASE a = PlusInf \/ b = PlusInf   -> PlusInf
    [] a = MinusInf \/ b = MinusInf -> MinusInf
    [] OTHER                        -> a + b

UnitSub(a, b) ==
  CASE a = PlusInf \/ b = MinusInf  -> PlusInf
    [] a = MinusInf \/ b = PlusInf  -> MinusInf
    [] OTHER                        -> a - b

(* Unary minus: the infinities are exchanged, because -MinusInf overflows. *)
UnitNeg(a) ==
  CASE a = PlusInf  -> MinusInf
    [] a = MinusInf -> PlusInf
    [] OTHER        -> -a

CanSub(a, b) == CanAdd(a, UnitNeg(b))

Clamped(a, lo, hi) == LET m == IF hi < a THEN hi ELSE a IN IF lo < m THEN m ELSE lo

RoundTo(a, r)     == Quot(a + (r \div 2), r) * r
RoundUpTo(a, r)   == Quot(a + r - 1, r) * r
RoundDownTo(a, r) == Quot(a, r) * r

(* ToFraction: TimeDelta rounds half away from zero, Timestamp, which is never
   negative, half up. *)
DivRoundToNearest(n, d) == Quot(n + (IF n >= 0 THEN d \div 2 ELSE -(d \div 2)), d)
DivRoundPositiveToNearest(n, d) == (n + (d \div 2)) \div d

DeltaMs(a) == DivRoundToNearest(a, PerMilli)
StampMs(a) == DivRoundPositiveToNearest(a, PerMilli)
(* FromFraction: milliseconds to microseconds. *)
CanMillis(v) == Quot(MinusInf, PerMilli) < v /\ v < PlusInf \div PerMilli
Millis(v) == v * PerMilli

-----------------------------------------------------------------------------
Operands == Magnitudes \union {-v : v \in Magnitudes}

Values64 == Operands \union {PlusInf, MinusInf}

UnitInit ==
  /\ delta = 0 /\ ops = 0
  /\ base \in {v \in Operands : v >= 0}
  /\ stamp = base

Op(d, s) == ops < MaxOps /\ ops' = ops + 1 /\ delta' = d /\ stamp' = s /\ UNCHANGED base

(* stamp += v and delta += v; a Timestamp is never negative. *)
AddDelta(v) ==
  /\ CanAdd(delta, v) /\ CanAdd(stamp, v)
  /\ UnitAdd(stamp, v) >= 0 \/ ~IsFinite(UnitAdd(stamp, v))
  /\ Op(UnitAdd(delta, v), UnitAdd(stamp, v))

SubDelta(v) ==
  /\ CanSub(delta, v) /\ CanSub(stamp, v)
  /\ UnitSub(stamp, v) >= 0 \/ ~IsFinite(UnitSub(stamp, v))
  /\ Op(UnitSub(delta, v), UnitSub(stamp, v))

(* delta = stamp - base, the difference of two Timestamps. *)
Difference ==
  /\ CanSub(stamp, base)
  /\ Op(UnitSub(stamp, base), stamp)

UnitNext == Difference \/ \E v \in Values64 : AddDelta(v) \/ SubDelta(v)

-----------------------------------------------------------------------------
(* The difference of two timestamps is what was added and subtracted between
   them, infinities included; an infinity stays one and is beyond every finite
   value. *)
DeltasAddUp ==
  /\ UnitSub(stamp, base) = delta
  /\ IsFinite(stamp) => UnitAdd(base, delta) = stamp
  /\ UnitNeg(UnitNeg(delta)) = delta
  /\ \A v \in Operands :
       /\ Clamped(delta, v, PlusInf) >= v /\ Clamped(delta, MinusInf, v) <= v
       /\ IsFinite(delta) /\ CanSub(delta, v) => ((delta < v) <=> (UnitSub(delta, v) < 0))

(* A duration in milliseconds is off by at most half a millisecond, negative
   ones the same way as positive ones; rounding to a resolution stays within it
   for values that are not negative, which Timestamps are. *)
MillisAreNear ==
  IsFinite(delta) =>
    LET far(x, y) == IF x > y THEN x - y ELSE y - x
    IN  /\ 2 * far(Millis(DeltaMs(delta)), delta) <= PerMilli
        /\ DeltaMs(-delta) = -DeltaMs(delta)
        /\ CanMillis(delta) => DeltaMs(Millis(delta)) = delta
        /\ delta >= 0 =>
             /\ StampMs(delta) = DeltaMs(delta)
             /\ \A r \in {v \in Operands : v > 0} :
                  /\ far(RoundTo(delta, r), delta) * 2 <= r
                  /\ RoundDownTo(delta, r) <= delta /\ delta < RoundDownTo(delta, r) + r
                  /\ RoundUpTo(delta, r) >= delta /\ RoundUpTo(delta, r) < delta + r

UnitsKeepTime == DeltasAddUp /\ MillisAreNear

-----------------------------------------------------------------------------
(***************************************************************************)
(* rtc_base/task_utils: a repeating task on a task queue, and closures     *)
(* that are guarded by the safety flag of the object they refer to.        *)
(*                                                                         *)
(* Time is in microseconds, PerMilli of them a millisecond.                *)
(* The queue is rtc::Thread: it counts a delay in whole milliseconds from  *)
(* the millisecond of its own clock (module RtcThread), and runs what is   *)
(* due when it gets to it, at once or later.                               *)
(***************************************************************************)
CONSTANTS Delays,       \* delays a closure asks for, in microseconds
          MaxTaskTime,  \* the clock stops here
          MaxGuarded    \* guarded closures ever posted

ASSUME TaskDelays == Delays \subseteq Nat

VARIABLES
  clock,      \* clock_->CurrentTime()
  rep,        \* the repeating task: where it is, next_run_time_, when it is due
  repAlive,   \* its alive flag
  repHandle,  \* RepeatingTaskHandle::Running()
  ideal,      \* start plus all the delays asked for so far
  guarded,    \* guarded closures in the queue, oldest first
  posted,     \* guarded closures posted so far
  flag,       \* alive_ of the object's safety flag
  object,     \* the object the guarded closures refer to exists
  ran         \* what the last step ran: "none", "rep", "guarded", with the time it ran

taskVars == <<clock, rep, repAlive, repHandle, ideal, guarded, posted, flag, object, ran>>

TaskInit ==
  /\ clock \in 0 .. PerMilli - 1
  /\ rep = [at |-> "none", next |-> 0, due |-> 0]
  /\ repAlive = FALSE /\ repHandle = FALSE /\ ideal = 0
  /\ guarded = << >> /\ posted = 0
  /\ flag = TRUE /\ object = TRUE
  /\ ran = "none"

-----------------------------------------------------------------------------
(* PostDelayedTask(ms): due when the queue's millisecond clock has advanced by
   ms. *)
Milli(t) == t \div PerMilli
DueAfter(ms) == Milli(clock) + ms

(* Start and DelayedStart: a live flag, shared by handle and task, and the
   first run after first_delay. *)
RepeatStart(first) ==
  /\ rep.at = "none"
  /\ rep' = [at |-> "queued", next |-> clock + first, due |-> DueAfter(DeltaMs(first))]
  /\ repAlive' = TRUE /\ repHandle' = TRUE
  /\ ideal' = clock + first
  /\ ran' = "none"
  /\ UNCHANGED <<clock, guarded, posted, flag, object>>

(* RepeatingTaskHandle::Stop, on the queue; the task itself stays queued.  The
   handle may also go without it, and the task repeats on. *)
RepeatStop ==
  /\ repHandle
  /\ repAlive' = FALSE /\ repHandle' = FALSE
  /\ ran' = "none"
  /\ UNCHANGED <<clock, rep, ideal, guarded, posted, flag, object>>

HandleGone ==
  /\ repHandle
  /\ repHandle' = FALSE
  /\ ran' = "none"
  /\ UNCHANGED <<clock, rep, repAlive, ideal, guarded, posted, flag, object>>

Gone == [at |-> "gone", next |-> 0, due |-> 0]

(* The delay to ask the queue for, without what was lost. *)
NextDelayUncorrected(delay, lost) == delay

(* A late run shortens the delay to the next one, down to nothing. *)
NextDelay(delay, lost) == IF delay - lost > 0 THEN delay - lost ELSE 0

(* Run on the queue: a task that was stopped is destroyed; otherwise the closure
   runs (it takes time, and it may stop its own task), and the task is destroyed
   when it asks for no further run or was stopped, or posts itself again. *)
RepeatRun(delay, took, stops) ==
  /\ rep.at = "queued" /\ Milli(clock) >= rep.due
  /\ clock + took <= MaxTaskTime
  /\ stops => repHandle
  /\ IF ~repAlive
     THEN /\ rep' = Gone /\ ran' = "none"
          /\ UNCHANGED <<clock, repAlive, repHandle, ideal>>
     ELSE /\ ran' = "rep"
          /\ clock' = clock + took
          /\ repAlive' = ~stops
          /\ repHandle' = (repHandle /\ ~stops)
          /\ IF delay = PlusInf \/ stops
             THEN rep' = Gone /\ UNCHANGED ideal
             ELSE LET lost == clock' - rep.next
                  IN  /\ rep' = [at |-> "queued", next |-> rep.next + delay,
                                 due |-> Milli(clock') + DeltaMs(NextDelay(delay, lost))]
                      /\ ideal' = ideal + delay
  /\ UNCHANGED <<guarded, posted, flag, object>>

-----------------------------------------------------------------------------
(* PostTask(ToQueuedTask(flag, closure)), from any thread that has the flag. *)
GuardedPost ==
  /\ posted < MaxGuarded
  /\ posted' = posted + 1
  /\ guarded' = Append(guarded, posted + 1)
  /\ ran' = "none"
  /\ UNCHANGED <<clock, rep, repAlive, repHandle, ideal, flag, object>>

(* SafetyClosureTask::Run *)
GuardedRun ==
  /\ guarded # << >>
  /\ guarded' = Tail(guarded)
  /\ ran' = IF flag THEN "guarded" ELSE "none"
  /\ UNCHANGED <<clock, rep, repAlive, repHandle, ideal, posted, flag, object>>

(* SetNotAlive and SetAlive: the object stops, and starts again; closures that
   are still queued then run after all. *)
SetFlag(alive) ==
  /\ object /\ flag # alive
  /\ flag' = alive
  /\ ran' = "none"
  /\ UNCHANGED <<clock, rep, repAlive, repHandle, ideal, guarded, posted, object>>

(* ~ScopedTaskSafety, in the destructor of the object.  The flag lives on in the
   closures. *)
ObjectGone ==
  /\ object
  /\ object' = FALSE /\ flag' = FALSE
  /\ ran' = "none"
  /\ UNCHANGED <<clock, rep, repAlive, repHandle, ideal, guarded, posted>>

Passes(d) ==
  /\ clock + d <= MaxTaskTime
  /\ clock' = clock + d
  /\ ran' = "none"
  /\ UNCHANGED <<rep, repAlive, repHandle, ideal, guarded, posted, flag, object>>

TaskNext ==
  \/ \E first \in Delays : RepeatStart(first)
  \/ RepeatStop \/ HandleGone
  \/ \E delay \in Delays \union {PlusInf}, took \in 0 .. 1, stops \in BOOLEAN :
        RepeatRun(delay, took, stops)
  \/ GuardedPost \/ GuardedRun \/ ObjectGone
  \/ \E alive \in BOOLEAN : SetFlag(alive)
  \/ \E d \in {1, PerMilli} : Passes(d)

TaskSpec == TaskInit /\ [][TaskNext]_taskVars

-----------------------------------------------------------------------------
(* What rounding can take away: half a millisecond of the delay, and the part of
   a millisecond the queue's clock does not show. *)
Slack == PerMilli + (PerMilli \div 2)

(* Errors of the schedule do not add up: however late or early single runs are,
   the next one is due no earlier than rounding allows before its place in the
   schedule, and no later than half a millisecond after it or, if that has
   passed, at once (repeating_task.cc:51-57). *)
RepeatsOnSchedule ==
  rep.at = "queued" =>
    /\ rep.due * PerMilli > ideal - Slack
    /\ \/ rep.due * PerMilli <= ideal + (PerMilli \div 2)
       \/ rep.due <= Milli(clock)

(* After Stop, or after its object is gone, no closure runs any more, whatever
   was in the queue and however often the object stopped and started before. *)
StoppedMeansStopped ==
  /\ (ran' = "rep") => repAlive
  /\ (ran' = "guarded") => object

(* Both, in every step of the task queue. *)
TasksKeepTime == [][RepeatsOnSchedule' /\ StoppedMeansStopped]_taskVars
=============================================================================
