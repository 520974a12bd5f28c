--------------------------- MODULE Runtime_proofs ---------------------------
(***************************************************************************)
(* Proofs about what runs concurrently in rtc_base: rtc::Thread, for any   *)
(* number of threads, messages and calls in every order, the locks, the    *)
(* invoker, and what threads record while others collect it: samples of    *)
(* histograms, events of captures.                                         *)
(***************************************************************************)
EXTENDS RtcThread, Locks, AsyncInvoker, Tracer, FiniteSetTheorems, WellFoundedInduction,
        NaturalsInduction, TLAPS

LEMMA LeastNumber ==
  ASSUME NEW T, T \subseteq Nat, T # {}
  PROVE  \E n \in T : \A k \in T : n <= k
  <1>1. PICK n \in T : \A k \in T : ~ (<<k, n>> \in OpToRel(<, Nat))
    BY NatLessThanWellFounded, WFMin
  <1>2. \A k \in T : k \in Nat /\ n \in Nat /\ ~ (k < n)
    BY <1>1 DEF OpToRel
  <1> QED BY <1>2

-----------------------------------------------------------------------------
Steps == {"off", "run", "post", "push", "wake", "sleep", "nap",
          "get", "more", "test", "wait", "ended"}

JobTypes == [msg : Ids \union {NoMsg}, to : Actors,
             how : {"none", "post", "dispose", "delay", "send"}, at : Nat]

DelayedTypes == [at : Nat, num : Nat, msg : Ids]

ThreadTypes ==
  /\ at \in [Actors -> Steps]
  /\ job \in [Actors -> JobTypes]
  /\ cur \in [Threads -> Ids \union {NoMsg}]
  /\ messages \in [Threads -> Seq(Ids)]
  /\ delayed \in [Threads -> SUBSET DelayedTypes]
  /\ next_num \in [Threads -> Nat]
  /\ stop \in [Threads -> BOOLEAN]
  /\ event \in [Actors -> BOOLEAN]
  /\ until \in [Threads -> Nat]
  /\ fate \in [Ids -> {"new", "given", "done", "deleted"}]
  /\ now \in Nat
  /\ dead \subseteq Threads

(* What an actor hands over, and to whom; a thread between two messages
   dispatches none. *)
HandsOver(x) ==
  /\ at[x] \in {"post", "push"} => job[x].msg \in Ids
  /\ at[x] \in {"post", "push", "wake"} => job[x].to \in Threads
  /\ job[x].to \notin dead

Between == {"off", "get", "more", "test", "wait", "ended"}

Idle(t) == at[t] \in Between => cur[t] = NoMsg

JobInv ==
  /\ ThreadTypes
  /\ \A x \in Actors : HandsOver(x)
  /\ \A t \in Threads : Idle(t)

LEMMA Constants ==
  /\ Main \notin Threads /\ Main \in Actors /\ Threads \subseteq Actors
  /\ NoMsg \notin Ids /\ Ids \subseteq Nat
  /\ Forever \in Nat
  BY ThreadConstants DEF Actors, Ids, NoMsg, Forever, Main

LEMMA InitJobs == ThreadInit => JobInv
  <1> SUFFICES ASSUME ThreadInit
               PROVE  JobInv
    OBVIOUS
  <1>1. NoJob \in JobTypes /\ NoJob.to = Main
    BY Constants DEF NoJob, JobTypes
  <1>2. << >> \in Seq(Ids)
    OBVIOUS
  <1>3. ThreadTypes
    BY <1>1, <1>2, Constants DEF ThreadInit, ThreadTypes, Steps
  <1>4. \A x \in Actors : at[x] \in {"run", "off"} /\ job[x] = NoJob
    BY DEF ThreadInit
  <1>5. \A t \in Threads : cur[t] = NoMsg
    BY DEF ThreadInit
  <1> QED BY <1>1, <1>3, <1>4, <1>5 DEF ThreadInit, JobInv, HandsOver, Idle

-----------------------------------------------------------------------------
(* Helpers of the actions. *)
LEMMA Went ==
  ASSUME ThreadTypes, NEW x \in Actors, NEW where \in Steps, Goto(x, where)
  PROVE  /\ at' \in [Actors -> Steps]
         /\ \A y \in Actors : at'[y] = IF y = x THEN where ELSE at[y]
  BY DEF ThreadTypes, Goto

LEMMA Settled ==
  ASSUME ThreadTypes, NEW ms, NEW how \in {"done", "deleted"}, Settle(ms, how)
  PROVE  /\ fate' \in [Ids -> {"new", "given", "done", "deleted"}]
         /\ \A m \in Ids : fate'[m] = IF m \in ms THEN how ELSE fate[m]
  BY DEF ThreadTypes, Settle

LEMMA SendersReleased ==
  ASSUME ThreadTypes, NEW ms, ReleaseSenders(ms)
  PROVE  /\ event' \in [Actors -> BOOLEAN]
         /\ \A x \in Actors : event[x] => event'[x]
  BY DEF ThreadTypes, ReleaseSenders

(* GoOn clears what was handed over. *)
LEMMA WentOn ==
  ASSUME JobInv, NEW x \in Actors, GoOn(x)
  PROVE  /\ at' \in [Actors -> Steps] /\ job' \in [Actors -> JobTypes]
         /\ at'[x] \in {"sleep", "run"} /\ job'[x].to \notin dead
         /\ \A y \in Actors : y # x => at'[y] = at[y] /\ job'[y] = job[y]
  <1>1. job \in [Actors -> JobTypes] /\ at \in [Actors -> Steps] /\ dead \subseteq Threads
    BY DEF JobInv, ThreadTypes
  <1>2. NoJob \in JobTypes /\ NoJob.to = Main
    BY Constants DEF NoJob, JobTypes
  <1>3. at' = [at EXCEPT ![x] = IF job[x].how = "send" THEN "sleep" ELSE "run"]
    BY DEF GoOn, Goto
  <1> DEFINE j == IF job[x].how = "send" THEN [job[x] EXCEPT !.msg = NoMsg] ELSE NoJob
  <1>4. job' = [job EXCEPT ![x] = j]
    BY DEF GoOn
  <1>5. j \in JobTypes /\ j.to \in {job[x].to, Main}
    BY <1>1, <1>2 DEF JobTypes
  <1>6. job[x].to \notin dead /\ Main \notin dead
    BY <1>1, Constants DEF JobInv, HandsOver
  <1> HIDE DEF j
  <1> QED BY <1>1, <1>3, <1>4, <1>5, <1>6 DEF Steps

(* Give hands m to t. *)
LEMMA Given ==
  ASSUME JobInv, NEW x \in Actors, NEW m \in Ids, NEW t \in Threads,
         NEW how \in {"post", "dispose", "delay", "send"}, NEW when \in Nat,
         Give(x, m, t, how, when, "post")
  PROVE  /\ at' \in [Actors -> Steps] /\ job' \in [Actors -> JobTypes]
         /\ fate' \in [Ids -> {"new", "given", "done", "deleted"}]
         /\ at'[x] = "post" /\ job'[x].msg = m /\ job'[x].to = t
         /\ \A y \in Actors : y # x => at'[y] = at[y] /\ job'[y] = job[y]
         /\ \A n \in Ids : fate'[n] = IF n = m THEN "given" ELSE fate[n]
  <1> DEFINE j == [msg |-> m, to |-> t, how |-> how, at |-> when]
  <1>1. j \in JobTypes /\ j.msg = m /\ j.to = t
    BY Constants DEF JobTypes
  <1>2. job' = [job EXCEPT ![x] = j] /\ at' = [at EXCEPT ![x] = "post"]
        /\ fate' = [fate EXCEPT ![m] = "given"]
    BY DEF Give, Goto
  <1> HIDE DEF j
  <1> QED BY <1>1, <1>2 DEF JobInv, ThreadTypes, Steps

(* Induction up to n, for a set. *)
LEMMA CountedUp ==
  ASSUME NEW n \in Nat, NEW S, 0 \in S, \A k \in 1 .. n : k - 1 \in S => k \in S
  PROVE  n \in S
  <1> DEFINE T == { k \in 0 .. n : k \notin S }
  <1> SUFFICES ASSUME T # {}
               PROVE  FALSE
    OBVIOUS
  <1>0. T \subseteq Nat
    OBVIOUS
  <1>1. PICK k \in T : \A j \in T : k <= j
    BY <1>0, LeastNumber
  <1>2. k \in 1 .. n /\ k - 1 \in 0 .. n /\ k - 1 \notin T
    BY <1>1
  <1> QED BY <1>1, <1>2

-----------------------------------------------------------------------------
(* What the loop that erases messages leaves. *)
KeptUpTo(f, list, gone, n) ==
  f = [i \in 0 .. n |->
         IF i = 0 THEN << >>
         ELSE IF list[i] \in gone THEN f[i - 1] ELSE Append(f[i - 1], list[i])]

LEMMA KeptExists ==
  ASSUME NEW list, NEW gone, NEW n \in Nat
  PROVE  \E f : KeptUpTo(f, list, gone, n)
  <1> DEFINE S == { k \in 0 .. n : \E f : KeptUpTo(f, list, gone, k) }
  <1>1. 0 \in S
    <2> DEFINE f == [i \in 0 .. 0 |-> << >>]
    <2>1. KeptUpTo(f, list, gone, 0)
      BY DEF KeptUpTo
    <2> QED BY <2>1
  <1>2. ASSUME NEW k \in 1 .. n, k - 1 \in S
        PROVE  k \in S
    <2>1. PICK f : KeptUpTo(f, list, gone, k - 1)
      BY <1>2
    <2> DEFINE g == [i \in 0 .. k |->
                       IF i < k THEN f[i]
                       ELSE IF list[i] \in gone THEN f[i - 1] ELSE Append(f[i - 1], list[i])]
    <2>2. \A i \in 0 .. k - 1 :
            f[i] = IF i = 0 THEN << >>
                   ELSE IF list[i] \in gone THEN f[i - 1] ELSE Append(f[i - 1], list[i])
      BY <2>1 DEF KeptUpTo
    <2>3. ASSUME NEW i \in 0 .. k
          PROVE  g[i] = IF i = 0 THEN << >>
                        ELSE IF list[i] \in gone THEN g[i - 1] ELSE Append(g[i - 1], list[i])
      <3>1. i # 0 => i - 1 \in 0 .. k /\ g[i - 1] = f[i - 1]
        OBVIOUS
      <3> QED BY <2>2, <3>1
    <2>4. KeptUpTo(g, list, gone, k)
      BY <2>3 DEF KeptUpTo
    <2> QED BY <2>4
  <1> HIDE DEF S
  <1>3. n \in S
    BY <1>1, <1>2, CountedUp
  <1> QED BY <1>3 DEF S

Once(q) == \A i, j \in DOMAIN q : q[i] = q[j] => i = j

Remains(q, list, gone, n) ==
  /\ q \in Seq(Ids)
  /\ \A m : m \in ToSet(q) <=> m \notin gone /\ \E i \in 1 .. n : m = list[i]
  /\ Once(list) => Once(q)

(* Append and the set of the elements. *)
LEMMA Appended ==
  ASSUME NEW q \in Seq(Ids), NEW m \in Ids
  PROVE  /\ Append(q, m) \in Seq(Ids)
         /\ \A k : k \in ToSet(Append(q, m)) <=> k \in ToSet(q) \/ k = m
         /\ Once(q) /\ m \notin ToSet(q) => Once(Append(q, m))
  <1>1. Append(q, m) \in Seq(Ids) /\ DOMAIN Append(q, m) = 1 .. Len(q) + 1
        /\ DOMAIN q = 1 .. Len(q) /\ Len(q) \in Nat
        /\ Append(q, m)[Len(q) + 1] = m
        /\ \A i \in 1 .. Len(q) : Append(q, m)[i] = q[i]
    OBVIOUS
  <1> QED BY <1>1 DEF ToSet, Once

LEMMA WithoutRemains ==
  ASSUME NEW list \in Seq(Ids), NEW gone
  PROVE  Remains(Without(list, gone), list, gone, Len(list))
  <1> DEFINE n == Len(list)
             f == CHOOSE g : g = [i \in 0 .. n |->
                    IF i = 0 THEN << >>
                    ELSE IF list[i] \in gone THEN g[i - 1] ELSE Append(g[i - 1], list[i])]
  <1>1. n \in Nat /\ DOMAIN list = 1 .. n /\ \A i \in 1 .. n : list[i] \in Ids
    OBVIOUS
  <1>2. Without(list, gone) = f[n]
    BY DEF Without
  <1>3. \E g : g = [i \in 0 .. n |->
                      IF i = 0 THEN << >>
                      ELSE IF list[i] \in gone THEN g[i - 1] ELSE Append(g[i - 1], list[i])]
    <2>1. PICK g : KeptUpTo(g, list, gone, n)
      BY <1>1, KeptExists
    <2> QED BY <2>1 DEF KeptUpTo
  <1>4. f = [i \in 0 .. n |->
               IF i = 0 THEN << >>
               ELSE IF list[i] \in gone THEN f[i - 1] ELSE Append(f[i - 1], list[i])]
    BY <1>3
  <1> HIDE DEF f
  <1>8. \A i \in 0 .. n :
          f[i] = IF i = 0 THEN << >>
                 ELSE IF list[i] \in gone THEN f[i - 1] ELSE Append(f[i - 1], list[i])
    BY <1>4
  <1> DEFINE S == { k \in 0 .. n : Remains(f[k], list, gone, k) }
  <1>5. 0 \in S
    <2>1. f[0] = << >>
      BY <1>1, <1>8
    <2>2. << >> \in Seq(Ids) /\ Once(<< >>) /\ ToSet(<< >>) = {}
      BY DEF Once, ToSet
    <2>3. Remains(<< >>, list, gone, 0)
      BY <2>2 DEF Remains
    <2> QED BY <1>1, <2>1, <2>3
  <1>6. ASSUME NEW k \in 1 .. n, k - 1 \in S
        PROVE  k \in S
    <2>1. Remains(f[k - 1], list, gone, k - 1)
      BY <1>6
    <2>2. list[k] \in Ids /\ k \in 0 .. n /\ k - 1 \in Nat
      BY <1>1
    <2>3. f[k] = IF list[k] \in gone THEN f[k - 1] ELSE Append(f[k - 1], list[k])
      BY <1>8, <2>2
    <2>4. \A m : (\E i \in 1 .. k : m = list[i]) <=> (m = list[k] \/ \E i \in 1 .. k - 1 : m = list[i])
      BY <2>2
    <2>5. CASE list[k] \in gone
      BY <2>1, <2>2, <2>3, <2>4, <2>5 DEF Remains
    <2>6. CASE list[k] \notin gone
      <3>1. Once(list) => list[k] \notin ToSet(f[k - 1])
        <4>1. Once(list) => \A i \in 1 .. k - 1 : list[i] # list[k]
          BY <1>1, <2>2 DEF Once
        <4> QED BY <2>1, <4>1 DEF Remains
      <3>2. f[k] = Append(f[k - 1], list[k]) /\ f[k - 1] \in Seq(Ids)
        BY <2>1, <2>3, <2>6 DEF Remains
      <3> HIDE DEF n, S
      <3>3. /\ f[k] \in Seq(Ids)
            /\ \A m : m \in ToSet(f[k]) <=> m \in ToSet(f[k - 1]) \/ m = list[k]
            /\ Once(f[k - 1]) /\ list[k] \notin ToSet(f[k - 1]) => Once(f[k])
        BY <2>2, <3>2, Appended
      <3>4. Remains(f[k], list, gone, k)
        BY <2>1, <2>4, <2>6, <3>1, <3>3 DEF Remains
      <3> QED BY <2>2, <3>4 DEF S
    <2> QED BY <2>5, <2>6
  <1> HIDE DEF S
  <1>7. n \in S
    BY <1>1, <1>5, <1>6, CountedUp
  <1> QED BY <1>2, <1>7 DEF S

-----------------------------------------------------------------------------
(* A thread that looks for messages, or sleeps, has seen all there are,
   unless it will be woken. *)
Waits == {"more", "test", "wait"}

Quiet(t) ==
  at[t] \in Waits /\ ~event[t] /\ ~Waker(t) =>
    /\ \A d \in delayed[t] : d.at >= until[t]
    /\ at[t] \in {"test", "wait"} => messages[t] = << >>
    /\ at[t] = "wait" => ~stop[t]

(* The places where a message can be. *)
Boxes == ({"cur", "delayed", "queue"} \X Threads) \union ({"job"} \X Actors)

Carried(x) == IF at[x] \in {"post", "push"} THEN job[x].msg ELSE NoMsg

Holds(b, m) ==
  \/ b[1] = "cur" /\ cur[b[2]] = m
  \/ b[1] = "delayed" /\ \E d \in delayed[b[2]] : d.msg = m
  \/ b[1] = "queue" /\ m \in ToSet(messages[b[2]])
  \/ b[1] = "job" /\ Carried(b[2]) = m

Nowhere(m) == \A b \in Boxes : ~ Holds(b, m)
In(m, b) == \A c \in Boxes : Holds(c, m) <=> c = b

Located(m) ==
  \/ fate[m] = "given" /\ \E b \in Boxes : In(m, b)
  \/ fate[m] # "given" /\ Nowhere(m)

(* No queue has a message twice, and those of destroyed threads are empty. *)
DelayedOnce(t) == \A d, e \in delayed[t] : d.msg = e.msg => d = e

QueuesRight(t) ==
  /\ DelayedOnce(t) /\ Once(messages[t])
  /\ t \in dead => messages[t] = << >> /\ delayed[t] = {}

ThreadInv ==
  /\ JobInv
  /\ \A t \in Threads : Quiet(t)
  /\ \A m \in Ids : Located(m)
  /\ \A t \in Threads : QueuesRight(t)

(* Only x acts. *)
Alone(x) == \A y \in Actors : y # x => at'[y] = at[y] /\ job'[y] = job[y]

(* What other threads see of a step of x. *)
Spared(t) ==
  /\ stop'[t] => stop[t]
  /\ event[t] => event'[t]
  /\ until'[t] = until[t]
  /\ delayed'[t] \subseteq delayed[t]
  /\ messages[t] = << >> => messages'[t] = << >>

LEMMA WakersStay ==
  ASSUME NEW x \in Actors, Alone(x), at[x] # "wake", NEW t, Waker(t)
  PROVE  Waker(t)'
  BY DEF Alone, Waker

LEMMA QuietKept ==
  ASSUME NEW t \in Threads, Quiet(t), at'[t] = at[t], Spared(t),
         Waker(t) => Waker(t)'
  PROVE  Quiet(t)'
  <1> SUFFICES ASSUME at'[t] \in Waits, ~event'[t], ~Waker(t)'
               PROVE  /\ \A d \in delayed'[t] : d.at >= until'[t]
                      /\ at'[t] \in {"test", "wait"} => messages'[t] = << >>
                      /\ at'[t] = "wait" => ~stop'[t]
    BY DEF Quiet
  <1>1. at[t] \in Waits /\ ~event[t] /\ ~Waker(t)
    BY DEF Spared
  <1> QED BY <1>1 DEF Quiet, Spared

LEMMA QuietOthers ==
  ASSUME ThreadInv, NEW x \in Actors, Alone(x), at[x] # "wake",
         at'[x] \notin Waits, \A t \in Threads : t # x => Spared(t)
  PROVE  \A t \in Threads : Quiet(t)'
  <1> SUFFICES ASSUME NEW t \in Threads
               PROVE  Quiet(t)'
    OBVIOUS
  <1>1. CASE t = x
    BY <1>1 DEF Quiet
  <1>2. CASE t # x
    <2>1. at'[t] = at[t] /\ Quiet(t)
      BY <1>2, Constants DEF Alone, ThreadInv
    <2>2. Waker(t) => Waker(t)'
      BY WakersStay
    <2> QED BY <1>2, <2>1, <2>2, QuietKept
  <1> QED BY <1>1, <1>2

(* Messages that no step touches. *)
LEMMA LocatedStays ==
  ASSUME NEW m, Located(m), fate'[m] = fate[m],
         \A b \in Boxes : Holds(b, m)' <=> Holds(b, m)
  PROVE  Located(m)'
  BY DEF Located, Nowhere, In

LEMMA BoxesStay ==
  ASSUME ThreadInv, UNCHANGED <<cur, messages, delayed, fate, dead>>,
         \A x \in Actors : Carried(x)' = Carried(x)
  PROVE  /\ \A m \in Ids : Located(m)'
         /\ \A t \in Threads : QueuesRight(t)'
  <1>1. ASSUME NEW m \in Ids
        PROVE  Located(m)'
    <2>1. \A b \in Boxes : b[1] = "job" => b[2] \in Actors
      BY DEF Boxes
    <2>2. \A b \in Boxes : Holds(b, m)' <=> Holds(b, m)
      BY <2>1 DEF Holds
    <2> QED BY <2>2, LocatedStays DEF ThreadInv
  <1>2. \A t \in Threads : QueuesRight(t)'
    BY DEF ThreadInv, QueuesRight, DelayedOnce
  <1> QED BY <1>1, <1>2

-----------------------------------------------------------------------------
(* One lemma for each action. *)

(* A new message is given to t. *)
LEMMA GiveStep ==
  ASSUME ThreadInv, NEW x \in Actors, NEW m \in Ids, NEW t \in Threads,
         NEW how \in {"post", "dispose", "delay", "send"}, NEW when \in Nat,
         at[x] = "run", t \notin dead, fate[m] = "new",
         Give(x, m, t, how, when, "post"),
         UNCHANGED <<cur, messages, delayed, next_num, stop, event, until, dead, now>>
  PROVE  ThreadInv'
  <1>1. /\ at' \in [Actors -> Steps] /\ job' \in [Actors -> JobTypes]
        /\ fate' \in [Ids -> {"new", "given", "done", "deleted"}]
        /\ at'[x] = "post" /\ job'[x].msg = m /\ job'[x].to = t
        /\ \A y \in Actors : y # x => at'[y] = at[y] /\ job'[y] = job[y]
        /\ \A n \in Ids : fate'[n] = IF n = m THEN "given" ELSE fate[n]
    BY Given DEF ThreadInv
  <1>2. ThreadTypes'
    BY <1>1 DEF ThreadInv, JobInv, ThreadTypes
  <1>3. JobInv'
    <2>1. \A y \in Actors : HandsOver(y)'
      BY <1>1, Constants DEF ThreadInv, JobInv, HandsOver
    <2>2. \A s \in Threads : Idle(s)'
      BY <1>1, Constants DEF ThreadInv, JobInv, Idle, Between
    <2> QED BY <1>2, <2>1, <2>2 DEF JobInv
  <1>4. \A s \in Threads : Quiet(s)'
    <2>1. Alone(x) /\ at[x] # "wake" /\ at'[x] \notin Waits
      BY <1>1 DEF Alone, Waits
    <2>2. \A s \in Threads : Spared(s)
      BY DEF Spared
    <2> QED BY <2>1, <2>2, QuietOthers
  <1>5. \A n \in Ids : Located(n)'
    <2>1. \A y \in Actors : Carried(y)' = IF y = x THEN m ELSE Carried(y)
      BY <1>1 DEF Carried
    <2>2. Carried(x) = NoMsg
      BY DEF Carried
    <2>3. \A b \in Boxes : b[1] = "job" => b[2] \in Actors /\ (b[2] = x <=> b = <<"job", x>>)
      BY DEF Boxes
    <2>4. <<"job", x>> \in Boxes
      BY DEF Boxes
    <2>5. ASSUME NEW n \in Ids, n # m
          PROVE  Located(n)'
      <3>1. \A b \in Boxes : Holds(b, n)' <=> Holds(b, n)
        BY <2>1, <2>2, <2>3, <2>5, Constants DEF Holds
      <3> QED BY <1>1, <2>5, <3>1, LocatedStays DEF ThreadInv
    <2>6. Located(m)'
      <3>1. Nowhere(m)
        BY DEF ThreadInv, Located
      <3>2. \A b \in Boxes : Holds(b, m)' <=> b = <<"job", x>>
        BY <2>1, <2>3, <2>4, <3>1 DEF Nowhere, Holds
      <3> QED BY <1>1, <2>4, <3>2 DEF Located, In
    <2> QED BY <2>5, <2>6
  <1>6. \A s \in Threads : QueuesRight(s)'
    BY DEF ThreadInv, QueuesRight, DelayedOnce
  <1> QED BY <1>3, <1>4, <1>5, <1>6 DEF ThreadInv

LEMMA CallPostStep ==
  ASSUME ThreadInv, NEW x \in Actors, NEW m \in Ids, NEW t \in Threads,
         NEW how \in {"post", "dispose", "delay"}, NEW delay \in 0 .. 1,
         CallPost(x, m, t, how, delay)
  PROVE  ThreadInv'
  <1>1. now + delay \in Nat
    BY DEF ThreadInv, JobInv, ThreadTypes
  <1>2. at[x] = "run" /\ t \notin dead /\ fate[m] = "new"
    BY Constants DEF CallPost, Called
  <1>3. /\ Give(x, m, t, how, now + delay, "post")
        /\ UNCHANGED <<cur, messages, delayed, next_num, stop, event, until, dead, now>>
    BY DEF CallPost
  <1> DEFINE when == now + delay
  <1> HIDE DEF when
  <1>4. when \in Nat /\ Give(x, m, t, how, when, "post")
    BY <1>1, <1>3 DEF when
  <1> QED BY <1>2, <1>3, <1>4, GiveStep

(* A message that is in no place is settled. *)
LEMMA SettledUnseen ==
  ASSUME ThreadInv, NEW m \in Ids, fate[m] = "new", NEW how \in {"done", "deleted"},
         Settle({m}, how),
         UNCHANGED <<at, job, cur, messages, delayed, next_num, stop, event, until, dead, now>>
  PROVE  ThreadInv'
  <1>1. /\ fate' \in [Ids -> {"new", "given", "done", "deleted"}]
        /\ \A n \in Ids : fate'[n] = IF n \in {m} THEN how ELSE fate[n]
    BY Settled DEF ThreadInv, JobInv
  <1>2. JobInv'
    BY <1>1 DEF ThreadInv, JobInv, ThreadTypes, HandsOver, Idle
  <1>3. \A t \in Threads : Quiet(t)'
    BY DEF ThreadInv, Quiet, Waker
  <1>4. \A t \in Threads : QueuesRight(t)'
    BY DEF ThreadInv, QueuesRight, DelayedOnce
  <1>5. ASSUME NEW n \in Ids
        PROVE  Located(n)'
    <2>1. \A b \in Boxes : Holds(b, n)' <=> Holds(b, n)
      BY DEF Holds, Carried
    <2>2. CASE n = m
      BY <1>1, <2>1, <2>2 DEF ThreadInv, Located, Nowhere
    <2>3. CASE n # m
      BY <1>1, <2>1, <2>3, LocatedStays DEF ThreadInv
    <2> QED BY <2>2, <2>3
  <1> QED BY <1>2, <1>3, <1>4, <1>5 DEF ThreadInv

LEMMA CallSendStep ==
  ASSUME ThreadInv, NEW x \in Actors, NEW m \in Ids, NEW t \in Threads, CallSend(x, m, t)
  PROVE  ThreadInv'
  <1>1. at[x] = "run" /\ t \notin dead /\ fate[m] = "new"
    BY Constants DEF CallSend, Called
  <1>2. UNCHANGED <<cur, messages, delayed, next_num, stop, event, until, dead, now>>
    BY DEF CallSend
  <1>3. CASE UNCHANGED <<at, job, fate>>
    <2>1. JobInv'
      BY <1>2, <1>3 DEF ThreadInv, JobInv, ThreadTypes, HandsOver, Idle
    <2>2. \A s \in Threads : Quiet(s)'
      BY <1>2, <1>3 DEF ThreadInv, Quiet, Waker
    <2>3. \A y \in Actors : Carried(y)' = Carried(y)
      BY <1>3 DEF Carried
    <2> QED BY <1>2, <1>3, <2>1, <2>2, <2>3, BoxesStay DEF ThreadInv
  <1>4. CASE UNCHANGED <<at, job>> /\ Settle({m}, IF stop[t] THEN "deleted" ELSE "done")
    <2> DEFINE how == IF stop[t] THEN "deleted" ELSE "done"
    <2>1. how \in {"done", "deleted"}
      OBVIOUS
    <2> HIDE DEF how
    <2>2. Settle({m}, how)
      BY <1>4 DEF how
    <2> QED BY <1>1, <1>2, <1>4, <2>1, <2>2, SettledUnseen
  <1>5. CASE Give(x, m, t, "send", 0, "post")
    BY <1>1, <1>2, <1>5, GiveStep
  <1> QED BY <1>3, <1>4, <1>5 DEF CallSend

(* A step of x that moves no message. *)
LEMMA LightStep ==
  ASSUME ThreadInv, NEW x \in Actors, Alone(x), at[x] # "wake", at'[x] \notin Waits,
         at' \in [Actors -> Steps], job' \in [Actors -> JobTypes], HandsOver(x)',
         Carried(x)' = Carried(x),
         x \in Threads /\ at'[x] \in Between => at[x] \in Between,
         stop' \in [Threads -> BOOLEAN], event' \in [Actors -> BOOLEAN], until' \in [Threads -> Nat],
         \A t \in Threads : t # x => Spared(t),
         UNCHANGED <<cur, messages, delayed, next_num, fate, dead, now>>
  PROVE  ThreadInv'
  <1>1. ThreadTypes'
    BY DEF ThreadInv, JobInv, ThreadTypes
  <1>2. \A y \in Actors : HandsOver(y)'
    BY DEF Alone, ThreadInv, JobInv, HandsOver
  <1>3. \A t \in Threads : Idle(t)'
    BY Constants DEF Alone, ThreadInv, JobInv, Idle
  <1>4. \A t \in Threads : Quiet(t)'
    BY QuietOthers
  <1>5. \A y \in Actors : Carried(y)' = Carried(y)
    BY DEF Alone, Carried
  <1> QED BY <1>1, <1>2, <1>3, <1>4, <1>5, BoxesStay DEF ThreadInv, JobInv

LEMMA SendLoopStep ==
  ASSUME ThreadInv, NEW x \in Actors, SendLoop(x)
  PROVE  ThreadInv'
  <1>0. ThreadTypes /\ HandsOver(x)
    BY DEF ThreadInv, JobInv
  <1>1. NoJob \in JobTypes /\ NoJob.to = Main /\ Main \notin dead
    BY <1>0, Constants DEF NoJob, JobTypes, ThreadTypes
  <1> DEFINE where == IF ready[x] THEN "run" ELSE "nap"
  <1>2. where \in Steps /\ where \in {"run", "nap"}
    BY DEF Steps
  <1>3. Goto(x, where)
    BY DEF SendLoop
  <1> HIDE DEF where
  <1>4. at' \in [Actors -> Steps] /\ at[x] = "sleep" /\ at'[x] \in {"run", "nap"}
        /\ \A y \in Actors : y # x => at'[y] = at[y]
    BY <1>0, <1>2, <1>3, Went DEF SendLoop
  <1>5. job' \in [Actors -> JobTypes] /\ job'[x] \in {job[x], NoJob}
        /\ \A y \in Actors : y # x => job'[y] = job[y]
    BY <1>0, <1>1 DEF SendLoop, ThreadTypes
  <1>6. HandsOver(x)'
    BY <1>0, <1>1, <1>4, <1>5 DEF HandsOver, SendLoop
  <1>7. Carried(x)' = Carried(x)
    BY <1>4 DEF Carried
  <1>8. \A t \in Threads : Spared(t)
    BY DEF Spared, SendLoop
  <1>9. Alone(x) /\ at[x] # "wake" /\ at'[x] \notin Waits /\ at'[x] \notin Between
    BY <1>4, <1>5 DEF Alone, Waits, Between
  <1>10. stop' \in [Threads -> BOOLEAN] /\ event' \in [Actors -> BOOLEAN] /\ until' \in [Threads -> Nat]
    BY <1>0 DEF ThreadTypes, SendLoop
  <1> QED BY <1>4, <1>5, <1>6, <1>7, <1>8, <1>9, <1>10, LightStep DEF SendLoop

LEMMA NapStep ==
  ASSUME ThreadInv, NEW x \in Actors, Nap(x)
  PROVE  ThreadInv'
  <1>0. ThreadTypes /\ HandsOver(x)
    BY DEF ThreadInv, JobInv
  <1>1. at' \in [Actors -> Steps] /\ at[x] = "nap" /\ at'[x] = "sleep"
        /\ \A y \in Actors : y # x => at'[y] = at[y]
    BY <1>0, Went DEF Nap, Steps
  <1>2. job' \in [Actors -> JobTypes] /\ Alone(x) /\ at[x] # "wake" /\ at'[x] \notin Waits
        /\ at'[x] \notin Between
    BY <1>0, <1>1 DEF Nap, Alone, ThreadTypes, Waits, Between
  <1>3. HandsOver(x)'
    BY <1>0, <1>1 DEF HandsOver, Nap
  <1>4. Carried(x)' = Carried(x)
    BY <1>1 DEF Carried
  <1>5. \A t \in Threads : t # x => Spared(t)
    BY <1>0, Constants DEF Spared, Nap, ThreadTypes
  <1>6. (ready[x] /\ x # Main) \in BOOLEAN
    BY Zenon
  <1>7. stop' \in [Threads -> BOOLEAN] /\ event' \in [Actors -> BOOLEAN] /\ until' \in [Threads -> Nat]
    BY <1>0, <1>6 DEF ThreadTypes, Nap
  <1> QED BY <1>1, <1>2, <1>3, <1>4, <1>5, <1>7, LightStep DEF Nap

LEMMA WaitStep ==
  ASSUME ThreadInv, NEW t \in Threads, Wait(t)
  PROVE  ThreadInv'
  <1>0. ThreadTypes /\ HandsOver(t) /\ t \in Actors
    BY Constants DEF ThreadInv, JobInv
  <1>1. at' \in [Actors -> Steps] /\ at[t] = "wait" /\ at'[t] = "get"
        /\ \A y \in Actors : y # t => at'[y] = at[y]
    BY <1>0, Went DEF Wait, Steps
  <1>2. job' \in [Actors -> JobTypes] /\ Alone(t) /\ at[t] # "wake" /\ at'[t] \notin Waits
        /\ at[t] \in Between
    BY <1>0, <1>1 DEF Wait, Alone, ThreadTypes, Waits, Between
  <1>3. HandsOver(t)'
    BY <1>0, <1>1 DEF HandsOver, Wait
  <1>4. Carried(t)' = Carried(t)
    BY <1>1 DEF Carried
  <1>5. \A s \in Threads : s # t => Spared(s)
    BY <1>0, Constants DEF Spared, Wait, ThreadTypes
  <1>6. stop' \in [Threads -> BOOLEAN] /\ event' \in [Actors -> BOOLEAN] /\ until' \in [Threads -> Nat]
    BY <1>0, Constants DEF ThreadTypes, Wait
  <1> QED BY <1>0, <1>1, <1>2, <1>3, <1>4, <1>5, <1>6, LightStep DEF Wait

LEMMA StartStep ==
  ASSUME ThreadInv, NEW t \in Threads, Start(t)
  PROVE  ThreadInv'
  <1>0. ThreadTypes /\ HandsOver(t) /\ t \in Actors
    BY Constants DEF ThreadInv, JobInv
  <1>1. at' \in [Actors -> Steps] /\ at[t] = "off" /\ at'[t] = "get"
        /\ \A y \in Actors : y # t => at'[y] = at[y]
    BY <1>0, Went DEF Start, Steps
  <1>2. job' \in [Actors -> JobTypes] /\ Alone(t) /\ at[t] # "wake" /\ at'[t] \notin Waits
        /\ at[t] \in Between
    BY <1>0, <1>1 DEF Start, Alone, ThreadTypes, Waits, Between
  <1>3. HandsOver(t)'
    BY <1>0, <1>1 DEF HandsOver, Start
  <1>4. Carried(t)' = Carried(t)
    BY <1>1 DEF Carried
  <1>5. \A s \in Threads : s # t => Spared(s)
    BY <1>0 DEF Spared, Start, ThreadTypes
  <1>6. stop' \in [Threads -> BOOLEAN] /\ event' \in [Actors -> BOOLEAN] /\ until' \in [Threads -> Nat]
    BY <1>0 DEF ThreadTypes, Start
  <1> QED BY <1>0, <1>1, <1>2, <1>3, <1>4, <1>5, <1>6, LightStep DEF Start

LEMMA JoinStep ==
  ASSUME ThreadInv, NEW t \in Threads, Join(t)
  PROVE  ThreadInv'
  <1>0. ThreadTypes /\ HandsOver(t) /\ t \in Actors
    BY Constants DEF ThreadInv, JobInv
  <1>1. at' \in [Actors -> Steps] /\ at[t] = "ended" /\ at'[t] = "off"
        /\ \A y \in Actors : y # t => at'[y] = at[y]
    BY <1>0, Went DEF Join, Steps
  <1>2. job' \in [Actors -> JobTypes] /\ Alone(t) /\ at[t] # "wake" /\ at'[t] \notin Waits
        /\ at[t] \in Between
    BY <1>0, <1>1 DEF Join, Alone, ThreadTypes, Waits, Between
  <1>3. HandsOver(t)'
    BY <1>0, <1>1 DEF HandsOver, Join
  <1>4. Carried(t)' = Carried(t)
    BY <1>1 DEF Carried
  <1>5. \A s \in Threads : Spared(s)
    BY DEF Spared, Join
  <1>6. stop' \in [Threads -> BOOLEAN] /\ event' \in [Actors -> BOOLEAN] /\ until' \in [Threads -> Nat]
    BY <1>0 DEF ThreadTypes, Join
  <1> QED BY <1>0, <1>1, <1>2, <1>3, <1>4, <1>5, <1>6, LightStep DEF Join

LEMMA TestQuittingStep ==
  ASSUME ThreadInv, NEW t \in Threads, TestQuitting(t)
  PROVE  ThreadInv'
  <1>0. ThreadTypes /\ t \in Actors
    BY Constants DEF ThreadInv, JobInv
  <1> DEFINE where == IF stop[t] THEN "ended" ELSE "wait"
  <1>1. where \in Steps /\ where \in {"ended", "wait"} /\ (where = "wait" => ~stop[t])
    BY DEF Steps
  <1>2. Goto(t, where)
    BY DEF TestQuitting
  <1> HIDE DEF where
  <1>3. at' \in [Actors -> Steps] /\ at[t] = "test" /\ at'[t] = where
        /\ \A y \in Actors : y # t => at'[y] = at[y]
    BY <1>0, <1>1, <1>2, Went DEF TestQuitting
  <1>4. UNCHANGED <<job, cur, messages, delayed, next_num, stop, event, until, fate, dead, now>>
    BY DEF TestQuitting
  <1>5. JobInv'
    BY <1>0, <1>1, <1>3, <1>4, Constants
    DEF ThreadInv, JobInv, ThreadTypes, HandsOver, Idle, Between
  <1>6. \A x \in Actors : Carried(x)' = Carried(x)
    BY <1>1, <1>3, <1>4 DEF Carried
  <1>7. \A s \in Threads : Waker(s) => Waker(s)'
    BY <1>0, <1>3, <1>4, WakersStay DEF Alone
  <1>8. ASSUME NEW s \in Threads, s # t
        PROVE  Quiet(s)'
    <2>1. Quiet(s) /\ Spared(s) /\ at'[s] = at[s]
      BY <1>3, <1>4, <1>8, Constants DEF ThreadInv, Spared
    <2> QED BY <1>7, <2>1, QuietKept
  <1>9. Quiet(t)'
    BY <1>1, <1>3, <1>4, <1>7 DEF ThreadInv, Quiet, Waits
  <1> QED BY <1>4, <1>5, <1>6, <1>8, <1>9, BoxesStay DEF ThreadInv

LEMMA TickStep ==
  ASSUME ThreadInv, Tick
  PROVE  ThreadInv'
  <1>1. JobInv'
    BY DEF ThreadInv, JobInv, ThreadTypes, HandsOver, Idle, Tick
  <1>2. \A t \in Threads : Quiet(t)'
    BY DEF ThreadInv, Quiet, Waker, Tick
  <1>3. \A y \in Actors : Carried(y)' = Carried(y)
    BY DEF Carried, Tick
  <1> QED BY <1>1, <1>2, <1>3, BoxesStay DEF ThreadInv, Tick

LEMMA WakeUpStep ==
  ASSUME ThreadInv, NEW x \in Actors, WakeUp(x)
  PROVE  ThreadInv'
  <1>0. JobInv /\ ThreadTypes /\ HandsOver(x) /\ at[x] = "wake" /\ job[x].to \in Threads
    BY DEF ThreadInv, JobInv, HandsOver, WakeUp
  <1>1. /\ at' \in [Actors -> Steps] /\ job' \in [Actors -> JobTypes]
        /\ at'[x] \in {"sleep", "run"} /\ job'[x].to \notin dead
        /\ \A y \in Actors : y # x => at'[y] = at[y] /\ job'[y] = job[y]
    BY <1>0, WentOn DEF WakeUp
  <1>2. UNCHANGED <<cur, messages, delayed, next_num, stop, until, fate, dead, now>>
    BY DEF WakeUp
  <1>3. event' \in [Actors -> BOOLEAN] /\ event'[job[x].to]
        /\ \A y \in Actors : event[y] => event'[y]
    BY <1>0, Constants DEF WakeUp, ThreadTypes
  <1>4. JobInv'
    <2>1. ThreadTypes'
      BY <1>0, <1>1, <1>2, <1>3 DEF ThreadTypes
    <2>2. \A y \in Actors : HandsOver(y)'
      BY <1>0, <1>1, <1>2 DEF JobInv, HandsOver
    <2>3. \A t \in Threads : Idle(t)'
      BY <1>0, <1>1, <1>2, Constants DEF JobInv, Idle, Between
    <2> QED BY <2>1, <2>2, <2>3 DEF JobInv
  <1>5. \A y \in Actors : Carried(y)' = Carried(y)
    BY <1>0, <1>1 DEF Carried
  <1>6. ASSUME NEW t \in Threads
        PROVE  Quiet(t)'
    <2>1. CASE t = x \/ t = job[x].to
      BY <1>1, <1>3, <2>1 DEF Quiet, Waits
    <2>2. CASE t # x /\ t # job[x].to
      <3>1. Waker(t) => Waker(t)'
        BY <1>1, <2>2 DEF Waker
      <3>2. Quiet(t) /\ Spared(t) /\ at'[t] = at[t]
        BY <1>1, <1>2, <1>3, <2>2, Constants DEF ThreadInv, Spared
      <3> QED BY <3>1, <3>2, QuietKept
    <2> QED BY <2>1, <2>2
  <1> QED BY <1>2, <1>4, <1>5, <1>6, BoxesStay DEF ThreadInv

LEMMA QuitStep ==
  ASSUME ThreadInv, NEW x \in Actors, NEW t \in Threads, Quit(x, t)
  PROVE  ThreadInv'
  <1>0. JobInv /\ ThreadTypes /\ at[x] = "run" /\ t \notin dead
    BY DEF ThreadInv, JobInv, Quit, Called
  <1> DEFINE j == [NoJob EXCEPT !.to = t]
  <1>1. j \in JobTypes /\ j.to = t
    BY Constants DEF NoJob, JobTypes
  <1>2. job' = [job EXCEPT ![x] = j] /\ Goto(x, "wake") /\ stop' = [stop EXCEPT ![t] = TRUE]
    BY DEF Quit
  <1> HIDE DEF j
  <1>3. at' \in [Actors -> Steps] /\ at'[x] = "wake" /\ job' \in [Actors -> JobTypes]
        /\ job'[x].to = t
        /\ \A y \in Actors : y # x => at'[y] = at[y] /\ job'[y] = job[y]
    BY <1>0, <1>1, <1>2, Went DEF ThreadTypes, Steps
  <1>4. UNCHANGED <<cur, messages, delayed, next_num, event, until, fate, dead, now>>
    BY DEF Quit
  <1>5. JobInv'
    <2>1. ThreadTypes'
      BY <1>0, <1>2, <1>3, <1>4 DEF ThreadTypes
    <2>2. \A y \in Actors : HandsOver(y)'
      BY <1>0, <1>3, <1>4 DEF JobInv, HandsOver
    <2>3. \A s \in Threads : Idle(s)'
      BY <1>0, <1>3, <1>4, Constants DEF JobInv, Idle, Between
    <2> QED BY <2>1, <2>2, <2>3 DEF JobInv
  <1>6. \A y \in Actors : Carried(y)' = Carried(y)
    BY <1>0, <1>3 DEF Carried
  <1>7. ASSUME NEW s \in Threads
        PROVE  Quiet(s)'
    <2>1. CASE s = x
      BY <1>3, <2>1 DEF Quiet, Waits
    <2>2. CASE s = t
      <3>1. Waker(s)'
        BY <1>3, <2>2 DEF Waker
      <3> QED BY <3>1 DEF Quiet
    <2>3. CASE s # x /\ s # t
      <3>1. Waker(s) => Waker(s)'
        BY <1>0, <1>3, WakersStay DEF Alone
      <3>2. Quiet(s) /\ Spared(s) /\ at'[s] = at[s]
        BY <1>0, <1>2, <1>3, <1>4, <2>3, Constants DEF ThreadInv, Spared, ThreadTypes
      <3> QED BY <3>1, <3>2, QuietKept
    <2> QED BY <2>1, <2>2, <2>3
  <1> QED BY <1>4, <1>5, <1>6, <1>7, BoxesStay DEF ThreadInv

(* The place of a message that is found somewhere. *)
LEMMA OnlyThere ==
  ASSUME NEW m, Located(m), NEW b \in Boxes, Holds(b, m)
  PROVE  fate[m] = "given" /\ In(m, b)
  BY DEF Located, Nowhere, In

LEMMA JobBoxes ==
  /\ \A x \in Actors : <<"job", x>> \in Boxes
  /\ \A b \in Boxes : b[1] = "job" => b[2] \in Actors /\ b = <<"job", b[2]>>
  /\ \A t \in Threads :
       <<"cur", t>> \in Boxes /\ <<"delayed", t>> \in Boxes /\ <<"queue", t>> \in Boxes
  /\ \A b \in Boxes : b[1] # "job" => b[2] \in Threads
  /\ \A b \in Boxes : b = <<b[1], b[2]>>
  BY DEF Boxes

LEMMA PostStep ==
  ASSUME ThreadInv, NEW x \in Actors, Post(x)
  PROVE  ThreadInv'
  <1>0. JobInv /\ ThreadTypes /\ HandsOver(x) /\ at[x] = "post" /\ job[x].to \in Threads
        /\ job[x].msg \in Ids
    BY DEF ThreadInv, JobInv, HandsOver, Post
  <1>1. UNCHANGED <<cur, messages, delayed, next_num, stop, until, dead, now>>
    BY DEF Post
  <1>2. CASE ~ stop[job[x].to]
    <2>1. Goto(x, "push") /\ UNCHANGED <<fate, event, job>>
      BY <1>2 DEF Post
    <2>2. at' \in [Actors -> Steps] /\ at'[x] = "push"
          /\ \A y \in Actors : y # x => at'[y] = at[y]
      BY <1>0, <2>1, Went DEF Steps
    <2>3. HandsOver(x)' /\ Carried(x)' = Carried(x)
      BY <1>0, <1>1, <2>1, <2>2 DEF HandsOver, Carried
    <2>4. Alone(x) /\ at[x] # "wake" /\ at'[x] \notin Waits /\ at'[x] \notin Between
      BY <1>0, <2>1, <2>2 DEF Alone, Waits, Between
    <2>5. \A t \in Threads : Spared(t)
      BY <1>1, <2>1 DEF Spared
    <2>6. job' \in [Actors -> JobTypes] /\ stop' \in [Threads -> BOOLEAN]
          /\ event' \in [Actors -> BOOLEAN] /\ until' \in [Threads -> Nat]
      BY <1>0, <1>1, <2>1 DEF ThreadTypes
    <2> QED BY <1>1, <2>1, <2>2, <2>3, <2>4, <2>5, <2>6, LightStep
  <1>3. CASE stop[job[x].to]
    <2> DEFINE m == job[x].msg
    <2>1. Settle({m}, "deleted") /\ ReleaseSenders({m}) /\ GoOn(x)
      BY <1>3 DEF Post
    <2>2. Carried(x) = m /\ m \in Ids
      BY <1>0 DEF Carried
    <2> HIDE DEF m
    <2>3. /\ fate' \in [Ids -> {"new", "given", "done", "deleted"}]
          /\ \A n \in Ids : fate'[n] = IF n \in {m} THEN "deleted" ELSE fate[n]
      BY <1>0, <2>1, Settled
    <2>4. event' \in [Actors -> BOOLEAN] /\ \A y \in Actors : event[y] => event'[y]
      BY <1>0, <2>1, SendersReleased
    <2>5. /\ at' \in [Actors -> Steps] /\ job' \in [Actors -> JobTypes]
          /\ at'[x] \in {"sleep", "run"} /\ job'[x].to \notin dead
          /\ \A y \in Actors : y # x => at'[y] = at[y] /\ job'[y] = job[y]
      BY <1>0, <2>1, WentOn
    <2>6. JobInv'
      <3>1. ThreadTypes'
        BY <1>0, <1>1, <2>3, <2>4, <2>5 DEF ThreadTypes
      <3>2. \A y \in Actors : HandsOver(y)'
        BY <1>0, <1>1, <2>5 DEF JobInv, HandsOver
      <3>3. \A t \in Threads : Idle(t)'
        BY <1>0, <1>1, <2>5, Constants DEF JobInv, Idle, Between
      <3> QED BY <3>1, <3>2, <3>3 DEF JobInv
    <2>7. \A t \in Threads : Quiet(t)'
      <3>1. Alone(x) /\ at[x] # "wake" /\ at'[x] \notin Waits
        BY <1>0, <2>5 DEF Alone, Waits
      <3>2. \A t \in Threads : Spared(t)
        BY <1>1, <2>4, Constants DEF Spared
      <3> QED BY <3>1, <3>2, QuietOthers
    <2>8. \A t \in Threads : QueuesRight(t)'
      BY <1>1 DEF ThreadInv, QueuesRight, DelayedOnce
    <2>9. ASSUME NEW n \in Ids
          PROVE  Located(n)'
      <3>1. Located(n)
        BY DEF ThreadInv
      <3>2. \A y \in Actors : Carried(y)' = IF y = x THEN NoMsg ELSE Carried(y)
        BY <2>5 DEF Carried
      <3>3. CASE n # m
        <4>1. \A b \in Boxes : Holds(b, n)' <=> Holds(b, n)
          BY <1>1, <2>2, <3>2, <3>3, JobBoxes, Constants DEF Holds
        <4> QED BY <2>3, <3>1, <3>3, <4>1, LocatedStays
      <3>4. CASE n = m
        <4>1. Holds(<<"job", x>>, n)
          BY <2>2, <3>4 DEF Holds
        <4>2. In(n, <<"job", x>>)
          BY <3>1, <4>1, JobBoxes, OnlyThere
        <4>3. Nowhere(n)'
          BY <1>1, <3>2, <4>2, JobBoxes, Constants DEF Nowhere, In, Holds
        <4> QED BY <2>3, <3>4, <4>3 DEF Located
      <3> QED BY <3>3, <3>4
    <2> QED BY <2>6, <2>7, <2>8, <2>9 DEF ThreadInv
  <1> QED BY <1>2, <1>3

LEMMA PushStep ==
  ASSUME ThreadInv, NEW x \in Actors, Push(x)
  PROVE  ThreadInv'
  <1>19. PICK t \in Threads, m \in Ids : t = job[x].to /\ m = job[x].msg
    BY DEF ThreadInv, JobInv, HandsOver, Push
  <1> DEFINE e == [at |-> job[x].at, num |-> next_num[t], msg |-> m]
             b == IF job[x].how = "delay" THEN <<"delayed", t>> ELSE <<"queue", t>>
  <1>0. JobInv /\ ThreadTypes /\ HandsOver(x) /\ at[x] = "push" /\ t \notin dead
    BY <1>19 DEF ThreadInv, JobInv, HandsOver, Push
  <1>1. UNCHANGED <<job, cur, stop, event, until, fate, dead, now>> /\ Goto(x, "wake")
    BY DEF Push
  <1>2. at' \in [Actors -> Steps] /\ at'[x] = "wake" /\ \A y \in Actors : y # x => at'[y] = at[y]
    BY <1>0, <1>1, Went DEF Steps
  <1>3. e \in DelayedTypes /\ e.msg = m
    BY <1>0, <1>19 DEF DelayedTypes, ThreadTypes, JobTypes
  <1>4. Carried(x) = m
    BY <1>0, <1>19 DEF Carried
  <1>5. Holds(<<"job", x>>, m) /\ Located(m)
    BY <1>0, <1>4 DEF Holds, ThreadInv
  <1>6. fate[m] = "given" /\ In(m, <<"job", x>>)
    BY <1>5, JobBoxes, OnlyThere
  <1>7. ~ Holds(<<"queue", t>>, m) /\ ~ Holds(<<"delayed", t>>, m)
    BY <1>0, <1>6, JobBoxes DEF In
  <1>8. m \notin ToSet(messages[t]) /\ \A d \in delayed[t] : d.msg # m
    BY <1>7 DEF Holds
  <1>9. /\ next_num' \in [Threads -> Nat]
        /\ delayed' \in [Threads -> SUBSET DelayedTypes] /\ messages' \in [Threads -> Seq(Ids)]
        /\ \A s \in Threads : s # t => delayed'[s] = delayed[s] /\ messages'[s] = messages[s]
        /\ \/ /\ b = <<"delayed", t>>
              /\ delayed'[t] = delayed[t] \union {e} /\ messages'[t] = messages[t]
           \/ /\ b = <<"queue", t>>
              /\ delayed'[t] = delayed[t] /\ messages'[t] = Append(messages[t], m)
    <2>1. CASE job[x].how = "delay"
      <3>1. /\ delayed' = [delayed EXCEPT ![t] = @ \union {e}]
            /\ next_num' = [next_num EXCEPT ![t] = @ + 1] /\ messages' = messages
        BY <1>19, <2>1 DEF Push
      <3> HIDE DEF e
      <3> QED BY <1>0, <1>3, <2>1, <3>1 DEF ThreadTypes
    <2>2. CASE job[x].how # "delay"
      <3>1. /\ messages' = [messages EXCEPT ![t] = Append(@, m)]
            /\ delayed' = delayed /\ next_num' = next_num
        BY <1>19, <2>2 DEF Push
      <3> HIDE DEF e
      <3> QED BY <1>0, <2>2, <3>1 DEF ThreadTypes
    <2> QED BY <2>1, <2>2
  <1>10. t = job'[x].to
    BY <1>1, <1>19
  <1>11. b \in Boxes
    BY <1>0, JobBoxes
  <1> HIDE DEF e, b
  <1>12. JobInv'
    <2>1. ThreadTypes'
      BY <1>0, <1>1, <1>2, <1>9 DEF ThreadTypes
    <2>2. \A y \in Actors : HandsOver(y)'
      BY <1>0, <1>1, <1>2 DEF JobInv, HandsOver
    <2>3. \A s \in Threads : Idle(s)'
      BY <1>0, <1>1, <1>2, Constants DEF JobInv, Idle, Between
    <2> QED BY <2>1, <2>2, <2>3 DEF JobInv
  <1>13. Waker(t)'
    BY <1>2, <1>10 DEF Waker
  <1>14. ASSUME NEW s \in Threads
         PROVE  Quiet(s)'
    <2>1. CASE s = x
      BY <1>2, <2>1 DEF Quiet, Waits
    <2>2. CASE s = t
      <3>1. Waker(s)'
        BY <1>2, <1>10, <2>2 DEF Waker
      <3> QED BY <3>1 DEF Quiet
    <2>3. CASE s # x /\ s # t
      <3>1. Waker(s) => Waker(s)'
        BY <1>0, <1>1, <1>2, WakersStay DEF Alone
      <3>2. Quiet(s) /\ Spared(s) /\ at'[s] = at[s]
        BY <1>1, <1>2, <1>9, <2>3, Constants DEF ThreadInv, Spared
      <3> QED BY <3>1, <3>2, QuietKept
    <2> QED BY <2>1, <2>2, <2>3
  <1>15. /\ messages[t] \in Seq(Ids)
         /\ \A k : k \in ToSet(Append(messages[t], m)) <=> k \in ToSet(messages[t]) \/ k = m
         /\ Once(messages[t]) => Once(Append(messages[t], m))
    <2>1. messages[t] \in Seq(Ids)
      BY <1>0 DEF ThreadTypes
    <2> QED BY <1>0, <1>8, <2>1, Appended
  <1>16. ASSUME NEW s \in Threads
         PROVE  QueuesRight(s)'
    <2>1. QueuesRight(s)
      BY DEF ThreadInv
    <2>2. CASE s # t
      BY <1>1, <1>9, <2>1, <2>2 DEF QueuesRight, DelayedOnce
    <2>3. CASE s = t
      <3>1. DelayedOnce(s)'
        BY <1>3, <1>8, <1>9, <2>1, <2>3 DEF QueuesRight, DelayedOnce
      <3>2. Once(messages'[s])
        BY <1>9, <1>15, <2>1, <2>3 DEF QueuesRight
      <3> QED BY <1>0, <1>1, <2>3, <3>1, <3>2 DEF QueuesRight
    <2> QED BY <2>2, <2>3
  <1>17. \A y \in Actors : Carried(y)' = IF y = x THEN NoMsg ELSE Carried(y)
    BY <1>1, <1>2 DEF Carried
  <1>18. ASSUME NEW n \in Ids
         PROVE  Located(n)'
    <2>1. Located(n)
      BY DEF ThreadInv
    <2>2. \A s \in Threads :
            /\ n \in ToSet(messages'[s]) <=> n \in ToSet(messages[s]) \/ (n = m /\ b = <<"queue", s>>)
            /\ (\E d \in delayed'[s] : d.msg = n) <=>
                 (\E d \in delayed[s] : d.msg = n) \/ (n = m /\ b = <<"delayed", s>>)
      <3> TAKE s \in Threads
      <3>1. CASE s # t
        <4>1. b # <<"queue", s>> /\ b # <<"delayed", s>>
          BY <1>9, <3>1
        <4> QED BY <1>9, <3>1, <4>1
      <3>2. CASE s = t
        <4>1. CASE b = <<"delayed", t>>
          <5>1. delayed'[t] = delayed[t] \union {e} /\ messages'[t] = messages[t]
                /\ b # <<"queue", t>>
            BY <1>9, <4>1
          <5> QED BY <1>3, <3>2, <4>1, <5>1
        <4>2. CASE b = <<"queue", t>>
          <5>1. delayed'[t] = delayed[t] /\ messages'[t] = Append(messages[t], m)
                /\ b # <<"delayed", t>>
            BY <1>9, <4>2
          <5> QED BY <1>15, <3>2, <4>2, <5>1
        <4> QED BY <1>9, <4>1, <4>2
      <3> QED BY <3>1, <3>2
    <2>3. \A c \in Boxes : Holds(c, n)' <=>
            IF n = m THEN c = b ELSE Holds(c, n)
      <3>1. CASE n # m
        BY <1>1, <1>4, <1>17, <2>2, <3>1, JobBoxes, Constants DEF Holds
      <3>2. CASE n = m
        <4>1. \A c \in Boxes : c # <<"job", x>> => ~ Holds(c, m)
          BY <1>6 DEF In
        <4>2. ASSUME NEW c \in Boxes
              PROVE  Holds(c, m)' <=> c = b
          <5>1. CASE c[1] = "job"
            <6>1. c[2] \in Actors /\ c = <<"job", c[2]>> /\ c # b
              BY <1>9, <5>1, JobBoxes
            <6>2. c[2] # x => Carried(c[2]) # m
              BY <4>1, <6>1 DEF Holds
            <6>3. Carried(c[2])' # m
              BY <1>17, <6>1, <6>2, Constants
            <6> QED BY <5>1, <6>1, <6>3 DEF Holds
          <5>2. CASE c[1] # "job"
            <6>1. c[2] \in Threads /\ c = <<c[1], c[2]>> /\ ~ Holds(c, m)
              BY <4>1, <5>2, JobBoxes
            <6>2. c[1] = "cur" => (Holds(c, m)' <=> c = b)
              BY <1>1, <1>9, <6>1 DEF Holds
            <6>3. c[1] = "queue" => (Holds(c, m)' <=> c = b)
              BY <2>2, <3>2, <6>1 DEF Holds
            <6>4. c[1] = "delayed" => (Holds(c, m)' <=> c = b)
              BY <2>2, <3>2, <6>1 DEF Holds
            <6>5. c[1] \in {"cur", "queue", "delayed"}
              BY <5>2 DEF Boxes
            <6> QED BY <6>2, <6>3, <6>4, <6>5
          <5> QED BY <5>1, <5>2
        <4> QED BY <3>2, <4>2
      <3> QED BY <3>1, <3>2
    <2>4. CASE n # m
      BY <1>1, <2>1, <2>3, <2>4, LocatedStays
    <2>5. CASE n = m
      BY <1>1, <1>6, <1>11, <2>3, <2>5 DEF Located, In
    <2> QED BY <2>4, <2>5
  <1> QED BY <1>12, <1>14, <1>16, <1>18 DEF ThreadInv

LEMMA DispatchedStep ==
  ASSUME ThreadInv, NEW t \in Threads, Dispatched(t)
  PROVE  ThreadInv'
  <1>0. JobInv /\ ThreadTypes /\ HandsOver(t) /\ at[t] = "run" /\ t \in Actors
    BY Constants DEF ThreadInv, JobInv, Dispatched
  <1>1. PICK m \in Ids \union {NoMsg} : m = cur[t]
    BY <1>0 DEF ThreadTypes
  <1>2. Settle({m}, "done") /\ ReleaseSenders({m}) /\ Goto(t, "get")
        /\ cur' = [cur EXCEPT ![t] = NoMsg]
    BY <1>1 DEF Dispatched
  <1>3. UNCHANGED <<job, messages, delayed, next_num, stop, until, dead, now>>
    BY DEF Dispatched
  <1>4. /\ fate' \in [Ids -> {"new", "given", "done", "deleted"}]
        /\ \A n \in Ids : fate'[n] = IF n \in {m} THEN "done" ELSE fate[n]
    BY <1>0, <1>2, Settled
  <1>5. event' \in [Actors -> BOOLEAN] /\ \A y \in Actors : event[y] => event'[y]
    BY <1>0, <1>2, SendersReleased
  <1>6. /\ at' \in [Actors -> Steps] /\ at'[t] = "get"
        /\ \A y \in Actors : y # t => at'[y] = at[y]
    BY <1>0, <1>2, Went DEF Steps
  <1>7. /\ cur' \in [Threads -> Ids \union {NoMsg}]
        /\ \A s \in Threads : cur'[s] = IF s = t THEN NoMsg ELSE cur[s]
    BY <1>0, <1>2 DEF ThreadTypes
  <1>8. JobInv'
    <2>1. ThreadTypes'
      BY <1>0, <1>3, <1>4, <1>5, <1>6, <1>7 DEF ThreadTypes
    <2>2. \A y \in Actors : HandsOver(y)'
      BY <1>0, <1>3, <1>6 DEF JobInv, HandsOver
    <2>3. \A s \in Threads : Idle(s)'
      BY <1>0, <1>6, <1>7, Constants DEF JobInv, Idle
    <2> QED BY <2>1, <2>2, <2>3 DEF JobInv
  <1>9. \A s \in Threads : Quiet(s)'
    <2>1. Alone(t) /\ at[t] # "wake" /\ at'[t] \notin Waits
      BY <1>0, <1>3, <1>6 DEF Alone, Waits
    <2>2. \A s \in Threads : Spared(s)
      BY <1>3, <1>5, Constants DEF Spared
    <2> QED BY <1>0, <2>1, <2>2, QuietOthers
  <1>10. \A s \in Threads : QueuesRight(s)'
    BY <1>3 DEF ThreadInv, QueuesRight, DelayedOnce
  <1>11. \A y \in Actors : Carried(y)' = Carried(y)
    BY <1>0, <1>3, <1>6 DEF Carried
  <1>12. ASSUME NEW n \in Ids
         PROVE  Located(n)'
    <2>1. Located(n)
      BY DEF ThreadInv
    <2>2. ASSUME NEW b \in Boxes
          PROVE  Holds(b, n)' <=> Holds(b, n) /\ b # <<"cur", t>>
      <3>1. CASE b[1] = "cur"
        BY <1>7, <3>1, JobBoxes, Constants DEF Holds
      <3>2. CASE b[1] # "cur"
        BY <1>3, <1>11, <3>2, JobBoxes DEF Holds
      <3> QED BY <3>1, <3>2
    <2>3. CASE n # m
      <3>1. ~ Holds(<<"cur", t>>, n)
        BY <1>1, <2>3 DEF Holds
      <3> QED BY <1>4, <2>1, <2>2, <2>3, <3>1, LocatedStays
    <2>4. CASE n = m
      <3>1. Holds(<<"cur", t>>, n)
        BY <1>1, <2>4 DEF Holds
      <3>2. In(n, <<"cur", t>>)
        BY <2>1, <3>1, JobBoxes, OnlyThere
      <3>3. Nowhere(n)'
        BY <2>2, <3>2 DEF Nowhere, In
      <3> QED BY <1>4, <2>4, <3>3 DEF Located
    <2> QED BY <2>3, <2>4
  <1> QED BY <1>8, <1>9, <1>10, <1>12 DEF ThreadInv

(* ClearInternal takes what matches out of both queues of t. *)
Cleared(t, gone) ==
  /\ gone \subseteq Ids
  /\ messages' \in [Threads -> Seq(Ids)] /\ delayed' \in [Threads -> SUBSET DelayedTypes]
  /\ fate' \in [Ids -> {"new", "given", "done", "deleted"}]
  /\ event' \in [Actors -> BOOLEAN] /\ \A y \in Actors : event[y] => event'[y]
  /\ \A n \in Ids : fate'[n] = IF n \in gone THEN "deleted" ELSE fate[n]
  /\ \A n \in gone : n \in ToSet(messages[t]) \/ \E d \in delayed[t] : d.msg = n
  /\ \A s \in Threads : s # t => messages'[s] = messages[s] /\ delayed'[s] = delayed[s]
  /\ \A d : d \in delayed'[t] <=> d \in delayed[t] /\ d.msg \notin gone
  /\ \A n : n \in ToSet(messages'[t]) <=> n \in ToSet(messages[t]) /\ n \notin gone
  /\ Once(messages[t]) => Once(messages'[t])

LEMMA ClearInternalClears ==
  ASSUME ThreadTypes, NEW t \in Threads, NEW h, ClearInternal(t, h)
  PROVE  \E gone : /\ Cleared(t, gone)
                   /\ h = "any" => \A n : /\ n \in ToSet(messages[t]) => n \in gone
                                          /\ \A d \in delayed[t] : d.msg \in gone
  <1>1. messages[t] \in Seq(Ids) /\ delayed[t] \subseteq DelayedTypes
    BY DEF ThreadTypes
  <1>2. PICK gone : gone = { m \in ToSet(messages[t]) \union { d.msg : d \in delayed[t] } : Matches(h, m) }
    OBVIOUS
  <1>3. /\ messages' = [messages EXCEPT ![t] = Without(messages[t], gone)]
        /\ delayed' = [delayed EXCEPT ![t] = { d \in delayed[t] : d.msg \notin gone }]
        /\ Settle(gone, "deleted") /\ ReleaseSenders(gone)
    BY <1>2 DEF ClearInternal
  <1>4. /\ fate' \in [Ids -> {"new", "given", "done", "deleted"}]
        /\ \A n \in Ids : fate'[n] = IF n \in gone THEN "deleted" ELSE fate[n]
    BY <1>3, Settled
  <1>5. event' \in [Actors -> BOOLEAN] /\ \A y \in Actors : event[y] => event'[y]
    BY <1>3, SendersReleased
  <1> DEFINE q == Without(messages[t], gone)
  <1>6. Remains(q, messages[t], gone, Len(messages[t]))
    BY <1>1, WithoutRemains
  <1>7. \A n : (\E i \in 1 .. Len(messages[t]) : n = messages[t][i]) <=> n \in ToSet(messages[t])
    BY <1>1 DEF ToSet
  <1> HIDE DEF q
  <1>8. /\ q \in Seq(Ids) /\ (Once(messages[t]) => Once(q))
        /\ \A n : n \in ToSet(q) <=> n \in ToSet(messages[t]) /\ n \notin gone
    BY <1>6, <1>7 DEF Remains
  <1>9. /\ messages' \in [Threads -> Seq(Ids)] /\ messages'[t] = q
        /\ \A s \in Threads : s # t => messages'[s] = messages[s]
    BY <1>3, <1>8 DEF ThreadTypes, q
  <1>10. /\ delayed' \in [Threads -> SUBSET DelayedTypes]
         /\ delayed'[t] = { d \in delayed[t] : d.msg \notin gone }
         /\ \A s \in Threads : s # t => delayed'[s] = delayed[s]
    BY <1>3 DEF ThreadTypes
  <1>11. \A d \in delayed[t] : d.msg \in Ids
    BY <1>1 DEF DelayedTypes
  <1>12. ToSet(messages[t]) \subseteq Ids
    BY <1>1 DEF ToSet
  <1>13. /\ gone \subseteq Ids
         /\ \A n \in gone : n \in ToSet(messages[t]) \/ \E d \in delayed[t] : d.msg = n
    BY <1>2, <1>11, <1>12
  <1>14. Cleared(t, gone)
    BY <1>4, <1>5, <1>8, <1>9, <1>10, <1>13 DEF Cleared
  <1>15. h = "any" => \A n : /\ n \in ToSet(messages[t]) => n \in gone
                             /\ \A d \in delayed[t] : d.msg \in gone
    BY <1>2 DEF Matches
  <1> QED BY <1>14, <1>15

LEMMA ClearedLocated ==
  ASSUME ThreadInv, NEW t \in Threads, NEW gone, Cleared(t, gone), UNCHANGED <<at, job, cur>>
  PROVE  /\ \A n \in Ids : Located(n)'
         /\ \A s \in Threads : DelayedOnce(s)' /\ Once(messages'[s])
  <1>1. ASSUME NEW n \in Ids
        PROVE  Located(n)'
    <2>1. Located(n)
      BY DEF ThreadInv
    <2>2. ASSUME NEW b \in Boxes
          PROVE  Holds(b, n)' <=> /\ Holds(b, n)
                                  /\ ~ (n \in gone /\ b \in {<<"queue", t>>, <<"delayed", t>>})
      <3>1. CASE b[1] = "queue"
        BY <3>1, JobBoxes DEF Cleared, Holds
      <3>2. CASE b[1] = "delayed"
        BY <3>2, JobBoxes DEF Cleared, Holds
      <3>3. CASE b[1] \notin {"queue", "delayed"}
        BY <3>3 DEF Holds, Carried
      <3> QED BY <3>1, <3>2, <3>3
    <2>3. CASE n \notin gone
      BY <2>1, <2>2, <2>3, LocatedStays DEF Cleared
    <2>4. CASE n \in gone
      <3>1. PICK b \in {<<"queue", t>>, <<"delayed", t>>} : Holds(b, n)
        BY <2>4 DEF Cleared, Holds
      <3>2. In(n, b)
        BY <2>1, <3>1, JobBoxes, OnlyThere
      <3>3. Nowhere(n)'
        BY <2>2, <2>4, <3>1, <3>2 DEF Nowhere, In
      <3> QED BY <2>4, <3>3 DEF Located, Cleared
    <2> QED BY <2>3, <2>4
  <1>2. ASSUME NEW s \in Threads
        PROVE  DelayedOnce(s)' /\ Once(messages'[s])
    BY DEF ThreadInv, QueuesRight, DelayedOnce, Cleared
  <1> QED BY <1>1, <1>2

LEMMA EmptyQueue ==
  ASSUME NEW q \in Seq(Ids)
  PROVE  q = << >> <=> \A n : n \notin ToSet(q)
  <1>1. q # << >> => q[1] \in ToSet(q)
    BY DEF ToSet
  <1>2. ToSet(<< >>) = {}
    BY DEF ToSet
  <1> QED BY <1>1, <1>2

LEMMA ClearedSpares ==
  ASSUME ThreadTypes, NEW t \in Threads, NEW gone, Cleared(t, gone),
         NEW s \in Threads, stop'[s] => stop[s], until' = until
  PROVE  Spared(s)
  <1>1. messages[s] \in Seq(Ids) /\ messages'[s] \in Seq(Ids)
    BY DEF ThreadTypes, Cleared
  <1>2. messages[s] = << >> => messages'[s] = << >>
    <2>1. \A n : n \in ToSet(messages'[s]) => n \in ToSet(messages[s])
      BY DEF Cleared
    <2> QED BY <1>1, <2>1, EmptyQueue
  <1>3. event[s] => event'[s]
    BY Constants DEF Cleared
  <1>4. delayed'[s] \subseteq delayed[s]
    BY DEF Cleared
  <1> QED BY <1>2, <1>3, <1>4 DEF Spared

LEMMA ClearThreadStep ==
  ASSUME ThreadInv, NEW x \in Actors, NEW t \in Threads, NEW h, ClearThread(x, t, h)
  PROVE  ThreadInv'
  <1>0. JobInv /\ ThreadTypes /\ t \notin dead
    BY DEF ThreadInv, JobInv, ClearThread, Called
  <1>1. PICK gone : Cleared(t, gone)
    BY <1>0, ClearInternalClears DEF ClearThread
  <1>2. UNCHANGED <<at, job, cur, next_num, stop, until, dead, now>>
    BY DEF ClearThread
  <1>3. JobInv'
    BY <1>0, <1>1, <1>2 DEF JobInv, ThreadTypes, HandsOver, Idle, Cleared
  <1>4. ASSUME NEW s \in Threads
        PROVE  Quiet(s)'
    <2>1. Spared(s)
      BY <1>0, <1>1, <1>2, ClearedSpares
    <2>2. Quiet(s) /\ at'[s] = at[s] /\ (Waker(s) => Waker(s)')
      BY <1>2 DEF ThreadInv, Waker
    <2> QED BY <2>1, <2>2, QuietKept
  <1>5. /\ \A n \in Ids : Located(n)'
        /\ \A s \in Threads : DelayedOnce(s)' /\ Once(messages'[s])
    BY <1>1, <1>2, ClearedLocated
  <1>6. \A s \in Threads : QueuesRight(s)'
    BY <1>0, <1>1, <1>2, <1>5 DEF ThreadInv, QueuesRight, Cleared
  <1> QED BY <1>3, <1>4, <1>5, <1>6 DEF ThreadInv

LEMMA DestroyStep ==
  ASSUME ThreadInv, NEW t \in Threads, Destroy(t)
  PROVE  ThreadInv'
  <1>0. JobInv /\ ThreadTypes /\ t \notin dead /\ at[t] = "off" /\ \A x \in Actors : job[x].to # t
    BY DEF ThreadInv, JobInv, Destroy
  <1>1. PICK gone : /\ Cleared(t, gone)
                    /\ \A n : /\ n \in ToSet(messages[t]) => n \in gone
                              /\ \A d \in delayed[t] : d.msg \in gone
    <2>1. ClearInternal(t, "any")
      BY DEF Destroy
    <2> QED BY <1>0, <2>1, ClearInternalClears
  <1>2. UNCHANGED <<at, job, cur, next_num, until, now>>
        /\ dead' = dead \union {t} /\ stop' = [stop EXCEPT ![t] = TRUE]
    BY DEF Destroy
  <1>3. JobInv'
    <2>1. ThreadTypes'
      BY <1>0, <1>1, <1>2 DEF ThreadTypes, Cleared
    <2>2. \A x \in Actors : HandsOver(x)'
      BY <1>0, <1>2 DEF JobInv, HandsOver
    <2>3. \A s \in Threads : Idle(s)'
      BY <1>0, <1>2 DEF JobInv, Idle
    <2> QED BY <2>1, <2>2, <2>3 DEF JobInv
  <1>4. ASSUME NEW s \in Threads
        PROVE  Quiet(s)'
    <2>1. CASE s = t
      BY <1>0, <1>2, <2>1 DEF Quiet, Waits
    <2>2. CASE s # t
      <3>1. stop'[s] => stop[s]
        BY <1>0, <1>2, <2>2 DEF ThreadTypes
      <3>2. Spared(s)
        <4>1. until' = until /\ Cleared(t, gone)
          BY <1>1, <1>2
        <4> QED BY <1>0, <3>1, <4>1, ClearedSpares
      <3>3. Quiet(s) /\ at'[s] = at[s] /\ (Waker(s) => Waker(s)')
        BY <1>2 DEF ThreadInv, Waker
      <3> QED BY <3>2, <3>3, QuietKept
    <2> QED BY <2>1, <2>2
  <1>5. /\ \A n \in Ids : Located(n)'
        /\ \A s \in Threads : DelayedOnce(s)' /\ Once(messages'[s])
    <2>1. UNCHANGED <<at, job, cur>> /\ Cleared(t, gone)
      BY <1>1, <1>2
    <2> QED BY <2>1, ClearedLocated
  <1>6. messages'[t] = << >> /\ delayed'[t] = {}
    <2>1. \A n : n \notin ToSet(messages'[t])
      BY <1>1 DEF Cleared
    <2>2. messages'[t] \in Seq(Ids)
      BY <1>1 DEF Cleared
    <2>3. messages'[t] = << >>
      BY <2>1, <2>2, EmptyQueue
    <2>4. \A d : d \in delayed'[t] <=> d \in delayed[t] /\ d.msg \notin gone
      BY <1>1 DEF Cleared
    <2>5. \A d \in delayed[t] : d.msg \in gone
      BY <1>1
    <2> QED BY <2>3, <2>4, <2>5
  <1>7. \A s \in Threads : QueuesRight(s)'
    BY <1>1, <1>2, <1>5, <1>6 DEF ThreadInv, QueuesRight, Cleared
  <1> QED BY <1>3, <1>4, <1>5, <1>7 DEF ThreadInv

(* Sequences of messages. *)
LEMMA Joined ==
  ASSUME NEW q \in Seq(Ids), NEW r \in Seq(Ids), Once(q), Once(r),
         \A n \in ToSet(q) : n \notin ToSet(r)
  PROVE  /\ q \o r \in Seq(Ids) /\ Once(q \o r)
         /\ \A n : n \in ToSet(q \o r) <=> n \in ToSet(q) \/ n \in ToSet(r)
  <1> DEFINE a == q \o r
             k == Len(q)
             l == Len(r)
  <1>1. /\ a \in Seq(Ids) /\ DOMAIN a = 1 .. k + l /\ k \in Nat /\ l \in Nat
        /\ DOMAIN q = 1 .. k /\ DOMAIN r = 1 .. l
        /\ \A i \in 1 .. k : a[i] = q[i]
        /\ \A i \in k + 1 .. k + l : a[i] = r[i - k] /\ i - k \in 1 .. l
        /\ \A i \in 1 .. l : a[i + k] = r[i] /\ i + k \in 1 .. k + l
    OBVIOUS
  <1> HIDE DEF a, k, l
  <1>2. \A n : n \in ToSet(a) <=> n \in ToSet(q) \/ n \in ToSet(r)
    <2>1. ASSUME NEW n, n \in ToSet(a)
          PROVE  n \in ToSet(q) \/ n \in ToSet(r)
      <3>1. PICK i \in 1 .. k + l : n = a[i]
        BY <1>1, <2>1 DEF ToSet
      <3>2. CASE i \in 1 .. k
        BY <1>1, <3>1, <3>2 DEF ToSet
      <3>3. CASE i \in k + 1 .. k + l
        BY <1>1, <3>1, <3>3 DEF ToSet
      <3> QED BY <1>1, <3>2, <3>3
    <2>2. ASSUME NEW n, n \in ToSet(q)
          PROVE  n \in ToSet(a)
      <3>1. PICK i \in 1 .. k : n = q[i]
        BY <1>1, <2>2 DEF ToSet
      <3>2. i \in 1 .. k + l /\ n = a[i]
        BY <1>1, <3>1
      <3> QED BY <1>1, <3>2 DEF ToSet
    <2>3. ASSUME NEW n, n \in ToSet(r)
          PROVE  n \in ToSet(a)
      <3>1. PICK i \in 1 .. l : n = r[i]
        BY <1>1, <2>3 DEF ToSet
      <3>2. i + k \in 1 .. k + l /\ n = a[i + k]
        BY <1>1, <3>1
      <3> QED BY <1>1, <3>2 DEF ToSet
    <2> QED BY <2>1, <2>2, <2>3
  <1>3. Once(a)
    <2> SUFFICES ASSUME NEW i \in 1 .. k + l, NEW j \in 1 .. k + l, a[i] = a[j]
                 PROVE  i = j
      BY <1>1 DEF Once
    <2>1. CASE i \in 1 .. k /\ j \in 1 .. k
      BY <1>1, <2>1 DEF Once
    <2>2. CASE i \in k + 1 .. k + l /\ j \in k + 1 .. k + l
      <3>1. i - k \in DOMAIN r /\ j - k \in DOMAIN r /\ r[i - k] = r[j - k]
        BY <1>1, <2>2
      <3>2. i - k = j - k
        BY <3>1 DEF Once
      <3> QED BY <1>1, <3>2
    <2>3. CASE i \in 1 .. k /\ j \in k + 1 .. k + l
      <3>1. a[i] \in ToSet(q) /\ a[j] \in ToSet(r)
        BY <1>1, <2>3 DEF ToSet
      <3> QED BY <3>1
    <2>4. CASE i \in k + 1 .. k + l /\ j \in 1 .. k
      <3>1. a[j] \in ToSet(q) /\ a[i] \in ToSet(r)
        BY <1>1, <2>4 DEF ToSet
      <3> QED BY <3>1
    <2> QED BY <1>1, <2>1, <2>2, <2>3, <2>4
  <1> QED BY <1>1, <1>2, <1>3 DEF a

LEMMA Taken ==
  ASSUME NEW q \in Seq(Ids), Once(q), q # << >>
  PROVE  /\ Head(q) \in Ids /\ Tail(q) \in Seq(Ids) /\ Once(Tail(q))
         /\ \A n : n \in ToSet(Tail(q)) <=> n \in ToSet(q) /\ n # Head(q)
         /\ Head(q) \in ToSet(q)
  <1> DEFINE r == Tail(q)
             k == Len(q)
  <1>1. /\ r \in Seq(Ids) /\ k \in Nat \ {0} /\ DOMAIN q = 1 .. k /\ DOMAIN r = 1 .. k - 1
        /\ \A i \in 1 .. k - 1 : r[i] = q[i + 1] /\ i + 1 \in 1 .. k
        /\ \A i \in 2 .. k : r[i - 1] = q[i] /\ i - 1 \in 1 .. k - 1
        /\ Head(q) = q[1] /\ 1 \in 1 .. k /\ q[1] \in Ids
    OBVIOUS
  <1> HIDE DEF r, k
  <1>2. Once(r)
    <2> SUFFICES ASSUME NEW i \in 1 .. k - 1, NEW j \in 1 .. k - 1, r[i] = r[j]
                 PROVE  i = j
      BY <1>1 DEF Once
    <2>1. i + 1 \in DOMAIN q /\ j + 1 \in DOMAIN q /\ q[i + 1] = q[j + 1]
      BY <1>1
    <2>2. i + 1 = j + 1
      BY <2>1 DEF Once
    <2> QED BY <1>1, <2>2
  <1>3. ASSUME NEW n, n \in ToSet(r)
        PROVE  n \in ToSet(q) /\ n # q[1]
    <2>1. PICK i \in 1 .. k - 1 : n = r[i]
      BY <1>1, <1>3 DEF ToSet
    <2>2. i + 1 \in 1 .. k /\ n = q[i + 1] /\ i + 1 # 1
      BY <1>1, <2>1
    <2> QED BY <1>1, <2>2 DEF ToSet, Once
  <1>4. ASSUME NEW n, n \in ToSet(q), n # q[1]
        PROVE  n \in ToSet(r)
    <2>1. PICK i \in 1 .. k : n = q[i]
      BY <1>1, <1>4 DEF ToSet
    <2>2. i \in 2 .. k
      BY <1>1, <1>4, <2>1
    <2> QED BY <1>1, <2>1, <2>2 DEF ToSet
  <1>5. Head(q) \in ToSet(q)
    BY <1>1 DEF ToSet
  <1> QED BY <1>1, <1>2, <1>3, <1>4, <1>5 DEF r

(* The delayed messages that are due, in their order. *)
Messages(due) == [i \in DOMAIN due |-> due[i].msg]

LEMMA SortedMessages ==
  ASSUME NEW S, S \subseteq DelayedTypes, \A d, e \in S : d.msg = e.msg => d = e,
         NEW due \in Sorted(S)
  PROVE  /\ Messages(due) \in Seq(Ids) /\ Once(Messages(due))
         /\ \A n : n \in ToSet(Messages(due)) <=> \E d \in S : d.msg = n
  <1>1. due \in Seq(S) /\ ToSet(due) = S
        /\ \A i, j \in DOMAIN due : i < j => Sooner(due[i], due[j])
    BY DEF Sorted, BoundedSeq, SeqOf
  <1>2. \A i \in DOMAIN due : due[i] \in S /\ due[i].msg \in Ids
                              /\ due[i].at \in Nat /\ due[i].num \in Nat
    BY <1>1 DEF DelayedTypes
  <1>3. Messages(due) \in Seq(Ids) /\ DOMAIN Messages(due) = DOMAIN due
        /\ \A i \in DOMAIN due : Messages(due)[i] = due[i].msg
    BY <1>1, <1>2 DEF Messages
  <1>4. Once(Messages(due))
    <2> SUFFICES ASSUME NEW i \in DOMAIN due, NEW j \in DOMAIN due, due[i].msg = due[j].msg
                 PROVE  i = j
      BY <1>3 DEF Once
    <2>1. due[i] = due[j] /\ due[i].at = due[j].at /\ due[i].num = due[j].num
      BY <1>2
    <2>2. ~ Sooner(due[i], due[j]) /\ ~ Sooner(due[j], due[i])
      BY <1>2, <2>1 DEF Sooner
    <2>3. i \in Int /\ j \in Int
      BY <1>1
    <2> QED BY <1>1, <2>2, <2>3
  <1>5. \A n : n \in ToSet(Messages(due)) <=> \E d \in S : d.msg = n
    BY <1>1, <1>2, <1>3 DEF ToSet
  <1> QED BY <1>3, <1>4, <1>5

(* What Get finds: S are the delayed messages that are due, all what the queue
   holds with them. *)
Found(t, S, all) ==
  /\ S \subseteq delayed[t]
  /\ all \in Seq(Ids) /\ Once(all)
  /\ \A n : n \in ToSet(all) <=> n \in ToSet(messages[t]) \/ \E d \in S : d.msg = n

(* What Get does with it. *)
Took(t, S, all) ==
  /\ delayed' = [delayed EXCEPT ![t] = delayed[t] \ S]
  /\ messages' = [messages EXCEPT ![t] = IF all = << >> THEN all ELSE Tail(all)]
  /\ \/ /\ all = << >> /\ Goto(t, "test")
        /\ UNCHANGED <<cur, fate>>
     \/ /\ all # << >> /\ Settle({Head(all)}, "deleted") /\ Goto(t, "more")
        /\ UNCHANGED cur
     \/ /\ all # << >> /\ cur' = [cur EXCEPT ![t] = Head(all)] /\ Goto(t, "run")
        /\ UNCHANGED fate

LEMMA GetFinds ==
  ASSUME ThreadInv, NEW t \in Threads, NEW S, S \subseteq delayed[t], NEW due \in Sorted(S)
  PROVE  Found(t, S, messages[t] \o Messages(due))
  <1>1. messages[t] \in Seq(Ids) /\ Once(messages[t]) /\ DelayedOnce(t)
        /\ delayed[t] \subseteq DelayedTypes
    BY DEF ThreadInv, QueuesRight, JobInv, ThreadTypes
  <1>2. S \subseteq DelayedTypes /\ \A d, e \in S : d.msg = e.msg => d = e
    BY <1>1 DEF DelayedOnce
  <1>3. /\ Messages(due) \in Seq(Ids) /\ Once(Messages(due))
        /\ \A n : n \in ToSet(Messages(due)) <=> \E d \in S : d.msg = n
    BY <1>2, SortedMessages
  <1>4. ASSUME NEW n \in ToSet(messages[t]), NEW d \in S, d.msg = n
        PROVE  FALSE
    <2>1. n \in Ids
      BY <1>2, <1>4 DEF DelayedTypes
    <2>2. Holds(<<"queue", t>>, n) /\ Holds(<<"delayed", t>>, n) /\ Located(n)
      BY <1>4, <2>1 DEF Holds, ThreadInv
    <2>3. In(n, <<"queue", t>>) /\ <<"delayed", t>> \in Boxes
      BY <2>2, JobBoxes, OnlyThere
    <2> QED BY <2>2, <2>3 DEF In
  <1>5. \A n \in ToSet(messages[t]) : n \notin ToSet(Messages(due))
    BY <1>3, <1>4
  <1> DEFINE q == messages[t]
             r == Messages(due)
  <1>6. q \in Seq(Ids) /\ Once(q) /\ r \in Seq(Ids) /\ Once(r) /\ \A n \in ToSet(q) : n \notin ToSet(r)
    BY <1>1, <1>3, <1>5
  <1> HIDE DEF q, r
  <1>7. /\ q \o r \in Seq(Ids) /\ Once(q \o r)
        /\ \A n : n \in ToSet(q \o r) <=> n \in ToSet(q) \/ n \in ToSet(r)
    BY <1>6, Joined
  <1> QED BY <1>3, <1>7 DEF Found, q, r

LEMMA TookLocated ==
  ASSUME ThreadInv, NEW t \in Threads, at[t] \in {"get", "more"}, NEW S, NEW all,
         Found(t, S, all), Took(t, S, all), UNCHANGED <<job, dead>>
  PROVE  /\ \A n \in Ids : Located(n)'
         /\ \A s \in Threads : QueuesRight(s)'
         /\ messages' \in [Threads -> Seq(Ids)]
         /\ \A s \in Threads : s # t => messages'[s] = messages[s]
         /\ all = << >> => messages'[t] = << >>
  <1>0. ThreadTypes /\ cur[t] = NoMsg /\ t \in Actors
    BY Constants DEF ThreadInv, JobInv, Idle, Between
  <1> DEFINE q == IF all = << >> THEN all ELSE Tail(all)
  <1>1. all # << >> => /\ Head(all) \in Ids /\ Tail(all) \in Seq(Ids) /\ Once(Tail(all))
                       /\ \A n : n \in ToSet(Tail(all)) <=> n \in ToSet(all) /\ n # Head(all)
                       /\ Head(all) \in ToSet(all)
    BY Taken DEF Found
  <1>2. ToSet(<< >>) = {} /\ Once(<< >>) /\ << >> \in Seq(Ids)
    BY DEF ToSet, Once
  <1>3. q \in Seq(Ids) /\ Once(q) /\ (all = << >> => q = << >>)
        /\ \A n : n \in ToSet(q) <=> n \in ToSet(all) /\ ~ (all # << >> /\ n = Head(all))
    BY <1>1, <1>2
  <1>4. messages' = [messages EXCEPT ![t] = q]
    BY DEF Took
  <1> HIDE DEF q
  <1>5. messages' \in [Threads -> Seq(Ids)] /\ messages'[t] = q
        /\ \A s \in Threads : s # t => messages'[s] = messages[s]
    BY <1>0, <1>3, <1>4 DEF ThreadTypes
  <1>6. delayed'[t] = delayed[t] \ S /\ \A s \in Threads : s # t => delayed'[s] = delayed[s]
    BY <1>0 DEF ThreadTypes, Took
  <1>7. \A x \in Actors : Carried(x)' = Carried(x)
    <2>1. \A x \in Actors : x # t => at'[x] = at[x]
      BY <1>0 DEF Took, Goto, ThreadTypes
    <2>2. at'[t] \in {"test", "more", "run"}
      BY <1>0 DEF Took, Goto, ThreadTypes
    <2> QED BY <2>1, <2>2 DEF Carried
  <1>8. ASSUME NEW s \in Threads
        PROVE  QueuesRight(s)'
    <2>1. QueuesRight(s)
      BY DEF ThreadInv
    <2>2. CASE s # t
      BY <1>5, <1>6, <2>1, <2>2 DEF QueuesRight, DelayedOnce
    <2>3. CASE s = t
      <3>1. DelayedOnce(s)'
        BY <1>6, <2>1, <2>3 DEF QueuesRight, DelayedOnce
      <3>2. s \in dead' => messages'[s] = << >> /\ delayed'[s] = {}
        <4> SUFFICES ASSUME s \in dead
                     PROVE  messages'[s] = << >> /\ delayed'[s] = {}
          OBVIOUS
        <4>1. messages[t] = << >> /\ delayed[t] = {} /\ S = {}
          BY <2>1, <2>3 DEF QueuesRight, Found
        <4>2. \A n : n \notin ToSet(all)
          BY <1>2, <4>1 DEF Found
        <4>3. all = << >>
          BY <4>2, EmptyQueue DEF Found
        <4> QED BY <1>3, <1>5, <1>6, <2>3, <4>1, <4>3
      <3> QED BY <1>3, <1>5, <2>3, <3>1, <3>2 DEF QueuesRight
    <2> QED BY <2>2, <2>3
  <1>9. ASSUME NEW n \in Ids
        PROVE  Located(n)'
    <2>0. Located(n) /\ DelayedOnce(t)
      BY DEF ThreadInv, QueuesRight
    <2>1. CASE n \notin ToSet(all)
      <3>1. fate'[n] = fate[n] /\ cur'[t] # n /\ \A s \in Threads : s # t => cur'[s] = cur[s]
        BY <1>0, <1>1, <2>1, Constants DEF Took, Settle, ThreadTypes
      <3>2. (\E d \in delayed'[t] : d.msg = n) <=> (\E d \in delayed[t] : d.msg = n)
        BY <1>6, <2>1 DEF Found
      <3>3. n \notin ToSet(messages[t]) /\ n \notin ToSet(messages'[t])
        BY <1>3, <1>5, <2>1 DEF Found
      <3>4. ASSUME NEW b \in Boxes
            PROVE  Holds(b, n)' <=> Holds(b, n)
        <4>1. CASE b[1] = "cur"
          BY <1>0, <3>1, <4>1, JobBoxes, Constants DEF Holds
        <4>2. CASE b[1] = "delayed"
          BY <1>6, <3>2, <4>2, JobBoxes DEF Holds
        <4>3. CASE b[1] = "queue"
          BY <1>5, <3>3, <4>3, JobBoxes DEF Holds
        <4>4. CASE b[1] = "job"
          BY <1>7, <4>4, JobBoxes DEF Holds
        <4> QED BY <4>1, <4>2, <4>3, <4>4 DEF Boxes
      <3> QED BY <2>0, <3>1, <3>4, LocatedStays
    <2>2. CASE n \in ToSet(all)
      <3>1. PICK c \in {<<"queue", t>>, <<"delayed", t>>} : Holds(c, n)
        BY <2>2 DEF Found, Holds
      <3>2. fate[n] = "given" /\ In(n, c)
        BY <2>0, <3>1, JobBoxes, OnlyThere
      <3>3. \A d \in delayed'[t] : d.msg # n
        <4> SUFFICES ASSUME NEW d \in delayed[t], d \notin S, d.msg = n
                     PROVE  FALSE
          BY <1>6
        <4>1. Holds(<<"delayed", t>>, n)
          BY DEF Holds
        <4>2. c = <<"delayed", t>>
          BY <3>2, <4>1, JobBoxes DEF In
        <4>3. ~ Holds(<<"queue", t>>, n)
          BY <3>2, <4>2, JobBoxes DEF In
        <4>4. n \notin ToSet(messages[t])
          BY <4>3 DEF Holds
        <4>5. PICK e \in S : e.msg = n
          BY <2>2, <4>4 DEF Found
        <4> QED BY <2>0, <4>5 DEF DelayedOnce, Found
      <3>4. ASSUME NEW b \in Boxes, b \notin {<<"queue", t>>, <<"cur", t>>}
            PROVE  ~ Holds(b, n)'
        <4>1. b # c => ~ Holds(b, n)
          BY <3>2 DEF In
        <4>2. CASE b[1] = "cur"
          <5>1. b[2] \in Threads /\ b[2] # t /\ b # c
            BY <3>4, <4>2, JobBoxes
          <5>2. cur'[b[2]] = cur[b[2]]
            BY <1>0, <5>1 DEF Took, ThreadTypes
          <5> QED BY <4>1, <4>2, <5>1, <5>2 DEF Holds
        <4>3. CASE b[1] = "delayed"
          <5>1. CASE b[2] = t
            BY <3>3, <4>3, <5>1 DEF Holds
          <5>2. CASE b[2] # t
            BY <1>6, <4>1, <4>3, <5>2, JobBoxes DEF Holds
          <5> QED BY <5>1, <5>2
        <4>4. CASE b[1] = "queue"
          BY <1>5, <3>4, <4>1, <4>4, JobBoxes DEF Holds
        <4>5. CASE b[1] = "job"
          BY <1>7, <4>1, <4>5, JobBoxes DEF Holds
        <4> QED BY <4>2, <4>3, <4>4, <4>5 DEF Boxes
      <3>5. all # << >>
        BY <1>2, <2>2
      <3>6. Holds(<<"queue", t>>, n)' <=> n # Head(all)
        BY <1>3, <1>5, <2>2, <3>5 DEF Holds
      <3>7. /\ at'[t] \in {"more", "run"}
            /\ fate'[n] = IF n = Head(all) /\ at'[t] = "more" THEN "deleted" ELSE fate[n]
            /\ cur'[t] = IF at'[t] = "more" THEN NoMsg ELSE Head(all)
        BY <1>0, <3>5 DEF Took, Goto, Settle, ThreadTypes
      <3>8. Holds(<<"cur", t>>, n)' <=> n = Head(all) /\ at'[t] # "more"
        BY <3>7, Constants DEF Holds
      <3>9. CASE n # Head(all)
        <4>1. In(n, <<"queue", t>>)'
          BY <3>4, <3>6, <3>8, <3>9, JobBoxes DEF In
        <4> QED BY <3>2, <3>7, <3>9, <4>1, JobBoxes DEF Located
      <3>10. CASE n = Head(all) /\ at'[t] # "more"
        <4>1. In(n, <<"cur", t>>)'
          BY <3>4, <3>6, <3>8, <3>10, JobBoxes DEF In
        <4> QED BY <3>2, <3>7, <3>10, <4>1, JobBoxes DEF Located
      <3>11. CASE n = Head(all) /\ at'[t] = "more"
        <4>1. Nowhere(n)'
          BY <3>4, <3>6, <3>8, <3>11 DEF Nowhere
        <4> QED BY <3>7, <3>11, <4>1 DEF Located
      <3> QED BY <3>9, <3>10, <3>11
    <2> QED BY <2>1, <2>2
  <1> QED BY <1>3, <1>5, <1>8, <1>9

(* The time until which Get lets the thread sleep. *)
LEMMA Earliest ==
  ASSUME NEW rest, rest \subseteq DelayedTypes, rest # {}
  PROVE  LET k == CHOOSE k \in { d.at : d \in rest } : \A d \in rest : k <= d.at
         IN  k \in Nat /\ \A d \in rest : d.at >= k
  <1> DEFINE T == { d.at : d \in rest }
  <1>1. T \subseteq Nat /\ T # {}
    BY DEF DelayedTypes
  <1>2. PICK n \in T : \A k \in T : n <= k
    BY <1>1, LeastNumber
  <1>3. \E k \in { d.at : d \in rest } : \A d \in rest : k <= d.at
    BY <1>2
  <1> DEFINE k == CHOOSE k \in { d.at : d \in rest } : \A d \in rest : k <= d.at
  <1>4. k \in T /\ \A d \in rest : k <= d.at
    BY <1>3
  <1> HIDE DEF k
  <1>5. \A d \in rest : d.at \in Nat
    BY DEF DelayedTypes
  <1>6. k \in Nat /\ \A d \in rest : d.at >= k
    BY <1>1, <1>4, <1>5
  <1> QED BY <1>6 DEF k

(* The body of Get, for what stays delayed and what is due. *)
GetWith(t, rest, due) ==
  LET all == messages[t] \o Messages(due)
  IN
  /\ at[t] \in {"get", "more"}
  /\ delayed' = [delayed EXCEPT ![t] = rest]
  /\ until' = [until EXCEPT ![t] =
                 IF ~ (at[t] = "get") THEN @
                 ELSE IF rest = {} THEN Forever
                 ELSE CHOOSE k \in { d.at : d \in rest } : \A d \in rest : k <= d.at]
  /\ messages' = [messages EXCEPT ![t] = IF all = << >> THEN all ELSE Tail(all)]
  /\ \/ /\ all = << >> /\ Goto(t, "test")
        /\ UNCHANGED <<cur, fate>>
     \/ /\ all # << >> /\ given[Head(all)].how = "dispose"
        /\ Settle({Head(all)}, "deleted") /\ Goto(t, "more")
        /\ UNCHANGED cur
     \/ /\ all # << >> /\ given[Head(all)].how # "dispose"
        /\ cur' = [cur EXCEPT ![t] = Head(all)] /\ Goto(t, "run")
        /\ UNCHANGED fate
  /\ UNCHANGED <<calls, job, next_num, stop, event, ready, given, dead, send_graph, dchecks, aborted, now>>

LEMMA GetStep ==
  ASSUME ThreadInv, NEW t \in Threads, Get(t)
  PROVE  ThreadInv'
  <1>0. JobInv /\ ThreadTypes /\ t \in Actors /\ at[t] \in {"get", "more"}
    BY Constants DEF ThreadInv, JobInv, Get
  <1>1. PICK S : S = IF at[t] = "get" THEN Due(t) ELSE {}
    OBVIOUS
  <1>2. PICK rest : rest = delayed[t] \ S
    OBVIOUS
  <1>3. rest = (IF at[t] = "get" THEN delayed[t] \ Due(t) ELSE delayed[t])
        /\ S \subseteq delayed[t]
    BY <1>1, <1>2 DEF Due
  <1>4. PICK due \in Sorted(S) :
          /\ delayed' = [delayed EXCEPT ![t] = rest]
          /\ until' = [until EXCEPT ![t] =
                         IF at[t] # "get" THEN @
                         ELSE IF rest = {} THEN Forever
                         ELSE CHOOSE k \in { d.at : d \in rest } : \A d \in rest : k <= d.at]
          /\ Took(t, S, messages[t] \o Messages(due))
    <2>1. \E due \in Sorted(IF at[t] = "get" THEN Due(t) ELSE {}) :
            GetWith(t, IF at[t] = "get" THEN delayed[t] \ Due(t) ELSE delayed[t], due)
      BY Zenon DEF Get, GetWith, Messages
    <2>2. \E due \in Sorted(S) : GetWith(t, rest, due)
      BY <1>1, <1>3, <2>1
    <2>3. PICK due \in Sorted(S) : GetWith(t, rest, due)
      BY <2>2
    <2>4. Took(t, S, messages[t] \o Messages(due))
      BY <1>2, <2>3 DEF GetWith, Took
    <2> QED BY <2>3, <2>4 DEF GetWith
  <1>5. PICK all : all = messages[t] \o Messages(due)
    OBVIOUS
  <1>6. Found(t, S, all) /\ Took(t, S, all)
    BY <1>3, <1>4, <1>5, GetFinds
  <1>7. UNCHANGED <<job, next_num, stop, event, dead, now>>
    BY DEF Get
  <1>8. /\ \A n \in Ids : Located(n)'
        /\ \A s \in Threads : QueuesRight(s)'
        /\ messages' \in [Threads -> Seq(Ids)]
        /\ \A s \in Threads : s # t => messages'[s] = messages[s]
        /\ all = << >> => messages'[t] = << >>
    BY <1>0, <1>6, <1>7, TookLocated
  <1>9. rest \subseteq delayed[t] /\ rest \subseteq DelayedTypes
    BY <1>0, <1>2 DEF ThreadTypes
  <1>10. delayed' \in [Threads -> SUBSET DelayedTypes] /\ delayed'[t] = rest
         /\ \A s \in Threads : s # t => delayed'[s] = delayed[s]
    BY <1>0, <1>4, <1>9 DEF ThreadTypes
  <1>11. until' \in [Threads -> Nat] /\ (\A s \in Threads : s # t => until'[s] = until[s])
         /\ IF at[t] = "get" THEN \A d \in rest : d.at >= until'[t]
            ELSE until'[t] = until[t] /\ rest = delayed[t]
    <2>1. CASE at[t] # "get"
      BY <1>0, <1>3, <1>4, <2>1 DEF ThreadTypes
    <2>2. CASE at[t] = "get" /\ rest = {}
      BY <1>0, <1>4, <2>2, Constants DEF ThreadTypes
    <2>3. CASE at[t] = "get" /\ rest # {}
      <3> DEFINE k == CHOOSE k \in { d.at : d \in rest } : \A d \in rest : k <= d.at
      <3>1. k \in Nat /\ \A d \in rest : d.at >= k
        BY <1>9, <2>3, Earliest
      <3>2. until' = [until EXCEPT ![t] = k]
        BY <1>4, <2>3
      <3> HIDE DEF k
      <3> QED BY <1>0, <2>3, <3>1, <3>2 DEF ThreadTypes
    <2> QED BY <2>1, <2>2, <2>3
  <1>12. at' \in [Actors -> Steps] /\ at'[t] \in {"test", "more", "run"}
         /\ (at'[t] = "test" => all = << >>) /\ \A y \in Actors : y # t => at'[y] = at[y]
    BY <1>0, <1>6 DEF Took, Goto, ThreadTypes, Steps
  <1>13. /\ cur' \in [Threads -> Ids \union {NoMsg}] /\ (at'[t] # "run" => cur'[t] = cur[t])
         /\ \A s \in Threads : s # t => cur'[s] = cur[s]
    <2>1. all # << >> => Head(all) \in Ids
      BY <1>6, Taken DEF Found
    <2> QED BY <1>0, <1>6, <2>1 DEF Took, Goto, ThreadTypes
  <1>14. fate' \in [Ids -> {"new", "given", "done", "deleted"}]
    BY <1>0, <1>6, Settled DEF Took, ThreadTypes
  <1>15. JobInv'
    <2>1. ThreadTypes'
      BY <1>0, <1>7, <1>8, <1>10, <1>11, <1>12, <1>13, <1>14 DEF ThreadTypes
    <2>2. \A y \in Actors : HandsOver(y)'
      BY <1>0, <1>7, <1>12 DEF JobInv, HandsOver
    <2>3. \A s \in Threads : Idle(s)'
      BY <1>0, <1>12, <1>13, Constants DEF JobInv, Idle, Between
    <2> QED BY <2>1, <2>2, <2>3 DEF JobInv
  <1>16. \A s \in Threads : Waker(s) => Waker(s)'
    BY <1>0, <1>7, <1>12, WakersStay DEF Alone
  <1>17. ASSUME NEW s \in Threads, s # t
         PROVE  Quiet(s)'
    <2>1. Quiet(s) /\ Spared(s) /\ at'[s] = at[s]
      BY <1>7, <1>8, <1>10, <1>11, <1>12, <1>17, Constants DEF ThreadInv, Spared
    <2> QED BY <1>16, <2>1, QuietKept
  <1>18. Quiet(t)'
    <2> SUFFICES ASSUME at'[t] \in Waits, ~event'[t], ~Waker(t)'
                 PROVE  /\ \A d \in delayed'[t] : d.at >= until'[t]
                        /\ at'[t] \in {"test", "wait"} => messages'[t] = << >>
                        /\ at'[t] = "wait" => ~stop'[t]
      BY DEF Quiet
    <2>1. at'[t] \in {"test", "wait"} => messages'[t] = << >>
      BY <1>8, <1>12
    <2>2. \A d \in delayed'[t] : d.at >= until'[t]
      <3>1. CASE at[t] = "get"
        BY <1>10, <1>11, <3>1
      <3>2. CASE at[t] = "more"
        <4>1. at[t] \in Waits /\ ~event[t] /\ ~Waker(t) /\ Quiet(t)
          BY <1>7, <1>16, <3>2 DEF Waits, ThreadInv
        <4> QED BY <1>10, <1>11, <3>2, <4>1 DEF Quiet
      <3> QED BY <1>0, <3>1, <3>2
    <2> QED BY <1>12, <2>1, <2>2
  <1> QED BY <1>8, <1>15, <1>17, <1>18 DEF ThreadInv

-----------------------------------------------------------------------------
LEMMA ThreadStarts == ThreadInit => ThreadInv
  <1> SUFFICES ASSUME ThreadInit
               PROVE  ThreadInv
    OBVIOUS
  <1>1. JobInv
    BY InitJobs
  <1>2. \A x \in Actors : at[x] \in {"run", "off"}
    BY DEF ThreadInit
  <1>3. \A t \in Threads : cur[t] = NoMsg /\ messages[t] = << >> /\ delayed[t] = {} /\ t \notin dead
    BY DEF ThreadInit
  <1>4. ToSet(<< >>) = {} /\ Once(<< >>)
    BY DEF ToSet, Once
  <1>5. \A t \in Threads : Quiet(t)
    BY <1>2, Constants DEF Quiet, Waits
  <1>6. \A t \in Threads : QueuesRight(t)
    BY <1>3, <1>4 DEF QueuesRight, DelayedOnce
  <1>7. ASSUME NEW m \in Ids
        PROVE  Located(m)
    <2>1. fate[m] = "new"
      BY DEF ThreadInit
    <2>2. \A x \in Actors : Carried(x) = NoMsg
      BY <1>2 DEF Carried
    <2>3. Nowhere(m)
      BY <1>3, <1>4, <2>2, JobBoxes, Constants DEF Nowhere, Holds
    <2> QED BY <2>1, <2>3 DEF Located
  <1> QED BY <1>1, <1>5, <1>6, <1>7 DEF ThreadInv

LEMMA ProceedStep ==
  ASSUME ThreadInv, NEW x \in Actors, Proceed(x)
  PROVE  ThreadInv'
  BY PostStep, PushStep, WakeUpStep, SendLoopStep, NapStep DEF Proceed

LEMMA ThreadStep == ThreadInv /\ [ThreadNext]_threadVars => ThreadInv'
  <1> SUFFICES ASSUME ThreadInv, [ThreadNext]_threadVars
               PROVE  ThreadInv'
    OBVIOUS
  <1>1. CASE UNCHANGED threadVars
    <2>1. JobInv'
      BY <1>1 DEF threadVars, ThreadInv, JobInv, ThreadTypes, HandsOver, Idle
    <2>2. \A t \in Threads : Quiet(t)'
      BY <1>1 DEF threadVars, ThreadInv, Quiet, Waker
    <2>3. \A y \in Actors : Carried(y)' = Carried(y)
      BY <1>1 DEF threadVars, Carried
    <2> QED BY <1>1, <2>1, <2>2, <2>3, BoxesStay DEF ThreadInv, threadVars
  <1>2. ASSUME NEW x \in Actors, NEW t \in Threads, NEW m \in Ids, CallSend(x, m, t)
        PROVE  ThreadInv'
    BY <1>2, CallSendStep
  <1>3. ASSUME NEW x \in Actors, NEW t \in Threads, NEW m \in Ids,
               NEW how \in {"post", "dispose", "delay"}, NEW delay \in 0 .. 1,
               CallPost(x, m, t, how, delay)
        PROVE  ThreadInv'
    BY <1>3, CallPostStep
  <1>4. ASSUME NEW x \in Actors, NEW t \in Threads, Quit(x, t)
        PROVE  ThreadInv'
    BY <1>4, QuitStep
  <1>5. ASSUME NEW x \in Actors, NEW t \in Threads, NEW h \in {"post", "delay"}, ClearThread(x, t, h)
        PROVE  ThreadInv'
    BY <1>5, ClearThreadStep
  <1>6. ASSUME NEW t \in Threads, Start(t) \/ Join(t) \/ Destroy(t)
        PROVE  ThreadInv'
    BY <1>6, StartStep, JoinStep, DestroyStep
  <1>7. ASSUME NEW t \in Threads, ThreadProceeds(t)
        PROVE  ThreadInv'
    <2>1. t \in Actors
      BY Constants
    <2> QED BY <1>7, <2>1, ProceedStep, GetStep, TestQuittingStep, WaitStep, DispatchedStep
        DEF ThreadProceeds
  <1>8. CASE Proceed(Main)
    BY <1>8, Constants, ProceedStep
  <1>9. CASE Tick
    BY <1>9, TickStep
  <1> QED BY <1>1, <1>2, <1>3, <1>4, <1>5, <1>6, <1>7, <1>8, <1>9 DEF ThreadNext

LEMMA ThreadAlways == ThreadSpec => []ThreadInv
  BY ThreadStarts, ThreadStep, PTL DEF ThreadSpec

(***************************************************************************)
(* A thread sleeps only when it has nothing to do, whatever other threads  *)
(* post, quit and clear between the steps of its loop: no wakeup of a      *)
(* rtc::Event is lost, although Send's waits consume some.                 *)
(***************************************************************************)
THEOREM NoWakeupLost == ThreadSpec => []SleepersAreIdle
  <1>1. ThreadInv => SleepersAreIdle
    BY DEF ThreadInv, Quiet, Waits, SleepersAreIdle
  <1> QED BY <1>1, ThreadAlways, PTL

(* Where a message is, from the box that holds it. *)
Dispatches(m, p) == \E t \in Threads : Holds(<<"cur", t>>, m) /\ p = <<"dispatch", t>>
Carries(m, p) == \E x \in Actors : Holds(<<"job", x>>, m) /\ p = <<"job", x>>
Delays(m, p) == \E t \in Threads : \E d \in delayed[t] : d.msg = m /\ p = <<"delayed", t, d>>
Queues(m, p) ==
  \E t \in Threads : \E i \in DOMAIN messages[t] : messages[t][i] = m /\ p = <<"queue", t, i>>

LEMMA PlacesOfBoxes ==
  ASSUME NEW m \in Ids, NEW p
  PROVE  p \in Places(m) <=> Dispatches(m, p) \/ Carries(m, p) \/ Delays(m, p) \/ Queues(m, p)
  <1> DEFINE A == { <<"dispatch", t>> : t \in { s \in Threads : cur[s] = m } }
             B == { <<"job", x>> : x \in { y \in Actors : job[y].msg = m /\ at[y] \in {"post", "push"} } }
             C == UNION { { <<"delayed", t, d>> : d \in { e \in delayed[t] : e.msg = m } } : t \in Threads }
             D == UNION { { <<"queue", t, i>> : i \in { j \in DOMAIN messages[t] : messages[t][j] = m } } :
                            t \in Threads }
  <1>1. \A t \in Threads : Holds(<<"cur", t>>, m) <=> cur[t] = m
    BY DEF Holds
  <1>2. \A x \in Actors : Holds(<<"job", x>>, m) <=> job[x].msg = m /\ at[x] \in {"post", "push"}
    BY Constants DEF Holds, Carried
  <1>3. p \in A <=> Dispatches(m, p)
    BY <1>1 DEF Dispatches
  <1>4. p \in B <=> Carries(m, p)
    <2>1. p \in B <=> \E x \in { y \in Actors : job[y].msg = m /\ at[y] \in {"post", "push"} } :
                        p = <<"job", x>>
      BY Zenon
    <2> QED BY <1>2, <2>1 DEF Carries
  <1>5. p \in C <=> Delays(m, p)
    BY DEF Delays
  <1>6. p \in D <=> Queues(m, p)
    BY DEF Queues
  <1>7. Places(m) = A \union B \union C \union D
    BY DEF Places
  <1> HIDE DEF A, B, C, D
  <1> QED BY <1>3, <1>4, <1>5, <1>6, <1>7

LEMMA OnePlace ==
  ASSUME ThreadInv, NEW m \in Ids
  PROVE  IF fate[m] = "given" THEN \E p : Places(m) = {p} ELSE Places(m) = {}
  <1>0. Located(m) /\ \A t \in Threads : QueuesRight(t)
    BY DEF ThreadInv
  <1>1. /\ \A t \in Threads : Holds(<<"delayed", t>>, m) <=> \E d \in delayed[t] : d.msg = m
        /\ \A t \in Threads : Holds(<<"queue", t>>, m) <=> \E i \in DOMAIN messages[t] : messages[t][i] = m
    BY DEF Holds, ToSet
  <1>2. ASSUME fate[m] # "given"
        PROVE  Places(m) = {}
    <2>1. \A b \in Boxes : ~ Holds(b, m)
      BY <1>0, <1>2 DEF Located, Nowhere
    <2>2. /\ \A t \in Threads : ~ Holds(<<"cur", t>>, m)
          /\ \A x \in Actors : ~ Holds(<<"job", x>>, m)
          /\ \A t \in Threads : ~ (\E d \in delayed[t] : d.msg = m)
          /\ \A t \in Threads : ~ (\E i \in DOMAIN messages[t] : messages[t][i] = m)
      BY <1>1, <2>1, JobBoxes
    <2>3. ASSUME NEW p
          PROVE  p \notin Places(m)
      <3>1. ~ Dispatches(m, p) /\ ~ Carries(m, p)
        BY <2>2 DEF Dispatches, Carries
      <3>2. ~ Delays(m, p) /\ ~ Queues(m, p)
        BY <2>2 DEF Delays, Queues
      <3> QED BY <3>1, <3>2, PlacesOfBoxes
    <2> QED BY <2>3
  <1>3. ASSUME fate[m] = "given"
        PROVE  \E p : Places(m) = {p}
    <2>1. PICK b \in Boxes : In(m, b)
      BY <1>0, <1>3 DEF Located
    <2>2. /\ \A t \in Threads : Holds(<<"cur", t>>, m) <=> b = <<"cur", t>>
          /\ \A x \in Actors : Holds(<<"job", x>>, m) <=> b = <<"job", x>>
          /\ \A t \in Threads : (\E d \in delayed[t] : d.msg = m) <=> b = <<"delayed", t>>
          /\ \A t \in Threads :
               (\E i \in DOMAIN messages[t] : messages[t][i] = m) <=> b = <<"queue", t>>
      BY <1>1, <2>1, JobBoxes DEF In
    <2>3. CASE b[1] = "cur"
      <3>1. PICK t \in Threads : b = <<"cur", t>>
        BY <2>3, JobBoxes
      <3>4. /\ \A s : b # <<"job", s>>
            /\ \A s : b # <<"delayed", s>>
            /\ \A s : b # <<"queue", s>>
        BY <3>1
      <3>5. \A s : <<"cur", s>> = b => s = t
        BY <3>1
      <3>6. \A p : p \in Places(m) <=> p = <<"dispatch", t>>
        <4> TAKE p
        <4>1. ASSUME p \in Places(m)
              PROVE  p = <<"dispatch", t>>
          <5>1. ~ Carries(m, p)
            BY <2>2, <3>4 DEF Carries
          <5>2. ~ Delays(m, p)
            BY <2>2, <3>4 DEF Delays
          <5>3. ~ Queues(m, p)
            BY <2>2, <3>4 DEF Queues
          <5>4. Dispatches(m, p)
            BY <4>1, <5>1, <5>2, <5>3, PlacesOfBoxes
          <5> QED BY <2>2, <3>5, <5>4 DEF Dispatches
        <4>2. <<"dispatch", t>> \in Places(m)
          BY <2>2, <3>1, PlacesOfBoxes DEF Dispatches
        <4> QED BY <4>1, <4>2
      <3>7. Places(m) = {<<"dispatch", t>>}
        BY <3>6
      <3> QED BY <3>7
    <2>4. CASE b[1] = "job"
      <3>1. PICK x \in Actors : b = <<"job", x>>
        BY <2>4, JobBoxes
      <3>4. /\ \A s : b # <<"cur", s>>
            /\ \A s : b # <<"delayed", s>>
            /\ \A s : b # <<"queue", s>>
        BY <3>1
      <3>5. \A s : <<"job", s>> = b => s = x
        BY <3>1
      <3>6. \A p : p \in Places(m) <=> p = <<"job", x>>
        <4> TAKE p
        <4>1. ASSUME p \in Places(m)
              PROVE  p = <<"job", x>>
          <5>1. ~ Dispatches(m, p)
            BY <2>2, <3>4 DEF Dispatches
          <5>2. ~ Delays(m, p)
            BY <2>2, <3>4 DEF Delays
          <5>3. ~ Queues(m, p)
            BY <2>2, <3>4 DEF Queues
          <5>4. Carries(m, p)
            BY <4>1, <5>1, <5>2, <5>3, PlacesOfBoxes
          <5> QED BY <2>2, <3>5, <5>4 DEF Carries
        <4>2. <<"job", x>> \in Places(m)
          BY <2>2, <3>1, PlacesOfBoxes DEF Carries
        <4> QED BY <4>1, <4>2
      <3>7. Places(m) = {<<"job", x>>}
        BY <3>6
      <3> QED BY <3>7
    <2>5. CASE b[1] = "delayed"
      <3>1. PICK t \in Threads : b = <<"delayed", t>>
        BY <2>5, JobBoxes
      <3>2. PICK d \in delayed[t] : d.msg = m
        BY <2>2, <3>1
      <3>3. \A e \in delayed[t] : e.msg = m => e = d
        BY <1>0, <3>2 DEF QueuesRight, DelayedOnce
      <3>4. /\ \A s : b # <<"cur", s>>
            /\ \A s : b # <<"job", s>>
            /\ \A s : b # <<"queue", s>>
        BY <3>1
      <3>5. \A s : <<"delayed", s>> = b => s = t
        BY <3>1
      <3>6. \A p : p \in Places(m) <=> p = <<"delayed", t, d>>
        <4> TAKE p
        <4>1. ASSUME p \in Places(m)
              PROVE  p = <<"delayed", t, d>>
          <5>1. ~ Dispatches(m, p)
            BY <2>2, <3>4 DEF Dispatches
          <5>2. ~ Carries(m, p)
            BY <2>2, <3>4 DEF Carries
          <5>3. ~ Queues(m, p)
            BY <2>2, <3>4 DEF Queues
          <5>4. Delays(m, p)
            BY <4>1, <5>1, <5>2, <5>3, PlacesOfBoxes
          <5> QED BY <3>2, <3>3, <2>2, <3>5, <5>4 DEF Delays
        <4>2. <<"delayed", t, d>> \in Places(m)
          BY <3>2, <3>3, <2>2, <3>1, PlacesOfBoxes DEF Delays
        <4> QED BY <4>1, <4>2
      <3>7. Places(m) = {<<"delayed", t, d>>}
        BY <3>6
      <3> QED BY <3>7
    <2>6. CASE b[1] = "queue"
      <3>1. PICK t \in Threads : b = <<"queue", t>>
        BY <2>6, JobBoxes
      <3>2. PICK i \in DOMAIN messages[t] : messages[t][i] = m
        BY <2>2, <3>1
      <3>3. \A j \in DOMAIN messages[t] : messages[t][j] = m => j = i
        BY <1>0, <3>2 DEF QueuesRight, Once
      <3>4. /\ \A s : b # <<"cur", s>>
            /\ \A s : b # <<"job", s>>
            /\ \A s : b # <<"delayed", s>>
        BY <3>1
      <3>5. \A s : <<"queue", s>> = b => s = t
        BY <3>1
      <3>6. \A p : p \in Places(m) <=> p = <<"queue", t, i>>
        <4> TAKE p
        <4>1. ASSUME p \in Places(m)
              PROVE  p = <<"queue", t, i>>
          <5>1. ~ Dispatches(m, p)
            BY <2>2, <3>4 DEF Dispatches
          <5>2. ~ Carries(m, p)
            BY <2>2, <3>4 DEF Carries
          <5>3. ~ Delays(m, p)
            BY <2>2, <3>4 DEF Delays
          <5>4. Queues(m, p)
            BY <4>1, <5>1, <5>2, <5>3, PlacesOfBoxes
          <5> QED BY <3>2, <3>3, <2>2, <3>5, <5>4 DEF Queues
        <4>2. <<"queue", t, i>> \in Places(m)
          BY <3>2, <3>3, <2>2, <3>1, PlacesOfBoxes DEF Queues
        <4> QED BY <4>1, <4>2
      <3>7. Places(m) = {<<"queue", t, i>>}
        BY <3>6
      <3> QED BY <3>7
    <2> QED BY <2>3, <2>4, <2>5, <2>6 DEF Boxes
  <1> QED BY <1>2, <1>3

(***************************************************************************)
(* A message given to a thread is in exactly one place, between Post's     *)
(* steps too, until it has been handled or deleted, and in none after: no  *)
(* interleaving of posting, quitting, clearing and destroying handles one  *)
(* twice, loses one or leaves one with a destroyed thread.                 *)
(***************************************************************************)
THEOREM MessagesNeitherLostNorTwice == ThreadSpec => []MessagesSettleOnce
  <1>1. ASSUME ThreadInv
        PROVE  MessagesSettleOnce
    <2> SUFFICES ASSUME NEW m \in Ids
                 PROVE  /\ Cardinality(Places(m)) = (IF fate[m] = "given" THEN 1 ELSE 0)
                        /\ \A t \in dead :
                             m \notin ToSet(messages[t]) \union { d.msg : d \in delayed[t] }
      BY DEF MessagesSettleOnce
    <2>1. Cardinality(Places(m)) = (IF fate[m] = "given" THEN 1 ELSE 0)
      BY <1>1, OnePlace, FS_EmptySet, FS_Singleton
    <2>2. ASSUME NEW t \in dead
          PROVE  m \notin ToSet(messages[t]) \union { d.msg : d \in delayed[t] }
      <3>1. t \in Threads
        BY <1>1 DEF ThreadInv, JobInv, ThreadTypes
      <3>2. messages[t] = << >> /\ delayed[t] = {}
        BY <1>1, <3>1 DEF ThreadInv, QueuesRight
      <3> QED BY <3>2 DEF ToSet
    <2> QED BY <2>1, <2>2
  <1>2. ThreadInv => MessagesSettleOnce
    BY <1>1
  <1> QED BY <1>2, ThreadAlways, PTL

-----------------------------------------------------------------------------
(***************************************************************************)
(* Mutual exclusion.  A thread has the lock from the step that makes it    *)
(* the only one that can go on until the step that lets another one go on: *)
(* in the spinning lock from before owning_thread_ is set until after it   *)
(* is cleared.                                                             *)
(***************************************************************************)
HasLock(t) == depth[t] > 0 \/ lockPc[t] \in {"own", "uncount", "signal"}

LockPcs == {"out", "enter", "swap", "queue", "sleep", "own", "in", "uncount", "signal"}

LockTypes ==
  /\ kind \in LockKinds
  /\ word \in Int /\ semaphore \in Nat /\ recursion \in Int /\ enters \in Nat
  /\ owner \in Lockers \union {NoThread}
  /\ lockPc \in [Lockers -> LockPcs]
  /\ spins \in [Lockers -> Int]
  /\ depth \in [Lockers -> Nat]

(* A thread that waits for the lock is not the one that has it. *)
PlacesRight ==
  \A t \in Lockers :
    /\ lockPc[t] = "in" => depth[t] > 0
    /\ lockPc[t] = "out" => depth[t] = 0
    /\ lockPc[t] \in {"swap", "queue", "sleep"} => depth[t] = 0
    /\ kind # "spinning" => lockPc[t] \in {"out", "enter", "in"}
    /\ ~Recursive /\ lockPc[t] = "enter" => depth[t] = 0
    /\ ~Recursive => depth[t] <= 1

OneHolds == \A t, u \in Lockers : HasLock(t) /\ HasLock(u) => t = u

(* The fields that name the owner. *)
OwnerRight ==
  kind # "global" =>
    /\ \A t \in Lockers : depth[t] > 0 <=> owner = t
    /\ \A t \in Lockers : HasLock(t) => recursion = depth[t]
    /\ (\A t \in Lockers : ~HasLock(t)) => recursion = 0

(* The counter is at least what the holder has added to it, and a signal that
   nobody has taken stands for a lock that nobody has. *)
Weight(t) == depth[t] + (IF lockPc[t] \in {"own", "uncount"} THEN 1 ELSE 0)

CounterRight ==
  kind = "spinning" =>
    /\ word >= 0 /\ semaphore <= 1
    /\ semaphore = 1 => word > 0 /\ \A t \in Lockers : ~HasLock(t)
    /\ \A t \in Lockers : HasLock(t) => word > 0 /\ word >= Weight(t)

GlobalRight ==
  kind = "global" => /\ \A t \in Lockers : HasLock(t) => word = 1
                     /\ word \in {0, 1} /\ recursion = 0 /\ owner = NoThread

LockInv ==
  LockTypes /\ PlacesRight /\ OneHolds /\ OwnerRight /\ CounterRight /\ GlobalRight

(* The lock is free at first. *)
LEMMA LockInvAtFirst == LockInit => LockInv
  BY LockConstants
  DEF LockInit, LockInv, LockTypes, LockPcs, PlacesRight, OneHolds, OwnerRight, CounterRight,
      GlobalRight, HasLock, Weight, Recursive

(* Every step of every thread keeps the invariant. *)
LEMMA LockInvKept ==
  ASSUME LockInv, NEW t \in Lockers, CallEnter(t) \/ TryEnter(t) \/ LockStep(t)
  PROVE  LockInv'
  <1> USE LockConstants
      DEF LockInv, LockTypes, LockPcs, PlacesRight, OneHolds, OwnerRight, CounterRight,
          GlobalRight, HasLock, Weight, Recursive
  <1>1. CASE CallEnter(t)
    <2>1. LockTypes'
      BY <1>1 DEF CallEnter, LockGoto
    <2>2. PlacesRight'
      BY <1>1 DEF CallEnter, LockGoto
    <2>3. OneHolds'
      BY <1>1 DEF CallEnter, LockGoto
    <2>4. OwnerRight'
      BY <1>1 DEF CallEnter, LockGoto
    <2>5. CounterRight'
      BY <1>1 DEF CallEnter, LockGoto
    <2>6. GlobalRight'
      BY <1>1 DEF CallEnter, LockGoto
    <2> QED BY <2>1, <2>2, <2>3, <2>4, <2>5, <2>6 DEF LockInv
  <1>2. CASE TryEnter(t)
    <2>1. LockTypes'
      BY <1>2 DEF TryEnter, LockGoto
    <2>2. PlacesRight'
      BY <1>2 DEF TryEnter, LockGoto
    <2>3. OneHolds'
      BY <1>2 DEF TryEnter, LockGoto
    <2>4. OwnerRight'
      BY <1>2 DEF TryEnter, LockGoto
    <2>5. CounterRight'
      BY <1>2 DEF TryEnter, LockGoto
    <2>6. GlobalRight'
      BY <1>2 DEF TryEnter, LockGoto
    <2> QED BY <2>1, <2>2, <2>3, <2>4, <2>5, <2>6 DEF LockInv
  <1>3. CASE SystemLock(t)
    <2>1. LockTypes'
      BY <1>3 DEF SystemLock, Entered, LockGoto
    <2>2. PlacesRight'
      BY <1>3 DEF SystemLock, Entered, LockGoto
    <2>3. OneHolds'
      BY <1>3 DEF SystemLock, Entered, LockGoto
    <2>4. OwnerRight'
      BY <1>3 DEF SystemLock, Entered, LockGoto
    <2>5. CounterRight'
      BY <1>3 DEF SystemLock, Entered, LockGoto
    <2>6. GlobalRight'
      BY <1>3 DEF SystemLock, Entered, LockGoto
    <2> QED BY <2>1, <2>2, <2>3, <2>4, <2>5, <2>6 DEF LockInv
  <1>4. CASE GlobalLock(t)
    <2>1. LockTypes'
      BY <1>4 DEF GlobalLock, Entered, LockGoto
    <2>2. PlacesRight'
      BY <1>4 DEF GlobalLock, Entered, LockGoto
    <2>3. OneHolds'
      BY <1>4 DEF GlobalLock, Entered, LockGoto
    <2>4. OwnerRight'
      BY <1>4 DEF GlobalLock, Entered, LockGoto
    <2>5. CounterRight'
      BY <1>4 DEF GlobalLock, Entered, LockGoto
    <2>6. GlobalRight'
      BY <1>4 DEF GlobalLock, Entered, LockGoto
    <2> QED BY <2>1, <2>2, <2>3, <2>4, <2>5, <2>6 DEF LockInv
  <1>5. CASE SpinLook(t)
    <2>1. LockTypes'
      BY <1>5 DEF SpinLook, SpinOn, LockGoto
    <2>2. PlacesRight'
      BY <1>5 DEF SpinLook, SpinOn, LockGoto
    <2>3. OneHolds'
      BY <1>5 DEF SpinLook, SpinOn, LockGoto
    <2>4. OwnerRight'
      BY <1>5 DEF SpinLook, SpinOn, LockGoto
    <2>5. CounterRight'
      BY <1>5 DEF SpinLook, SpinOn, LockGoto
    <2>6. GlobalRight'
      BY <1>5 DEF SpinLook, SpinOn, LockGoto
    <2> QED BY <2>1, <2>2, <2>3, <2>4, <2>5, <2>6 DEF LockInv
  <1>6. CASE SpinSwap(t)
    <2>1. LockTypes'
      BY <1>6 DEF SpinSwap, SpinOn, LockGoto
    <2>2. PlacesRight'
      BY <1>6 DEF SpinSwap, SpinOn, LockGoto
    <2>3. OneHolds'
      BY <1>6 DEF SpinSwap, SpinOn, LockGoto
    <2>4. OwnerRight'
      BY <1>6 DEF SpinSwap, SpinOn, LockGoto
    <2>5. CounterRight'
      BY <1>6 DEF SpinSwap, SpinOn, LockGoto
    <2>6. GlobalRight'
      BY <1>6 DEF SpinSwap, SpinOn, LockGoto
    <2> QED BY <2>1, <2>2, <2>3, <2>4, <2>5, <2>6 DEF LockInv
  <1>7. CASE SpinQueue(t)
    <2>1. LockTypes'
      BY <1>7 DEF SpinQueue, LockGoto
    <2>2. PlacesRight'
      BY <1>7 DEF SpinQueue, LockGoto
    <2>3. OneHolds'
      BY <1>7 DEF SpinQueue, LockGoto
    <2>4. OwnerRight'
      BY <1>7 DEF SpinQueue, LockGoto
    <2>5. CounterRight'
      BY <1>7 DEF SpinQueue, LockGoto
    <2>6. GlobalRight'
      BY <1>7 DEF SpinQueue, LockGoto
    <2> QED BY <2>1, <2>2, <2>3, <2>4, <2>5, <2>6 DEF LockInv
  <1>8. CASE SpinWake(t)
    <2>1. LockTypes'
      BY <1>8 DEF SpinWake, LockGoto
    <2>2. PlacesRight'
      BY <1>8 DEF SpinWake, LockGoto
    <2>3. OneHolds'
      BY <1>8 DEF SpinWake, LockGoto
    <2>4. OwnerRight'
      BY <1>8 DEF SpinWake, LockGoto
    <2>5. CounterRight'
      BY <1>8 DEF SpinWake, LockGoto
    <2>6. GlobalRight'
      BY <1>8 DEF SpinWake, LockGoto
    <2> QED BY <2>1, <2>2, <2>3, <2>4, <2>5, <2>6 DEF LockInv
  <1>9. CASE SpinOwn(t)
    <2>1. LockTypes'
      BY <1>9 DEF SpinOwn, Entered, LockGoto
    <2>2. PlacesRight'
      BY <1>9 DEF SpinOwn, Entered, LockGoto
    <2>3. OneHolds'
      BY <1>9 DEF SpinOwn, Entered, LockGoto
    <2>4. OwnerRight'
      BY <1>9 DEF SpinOwn, Entered, LockGoto
    <2>5. CounterRight'
      BY <1>9 DEF SpinOwn, Entered, LockGoto
    <2>6. GlobalRight'
      BY <1>9 DEF SpinOwn, Entered, LockGoto
    <2> QED BY <2>1, <2>2, <2>3, <2>4, <2>5, <2>6 DEF LockInv
  <1>10. CASE SimpleLeave(t)
    <2>1. LockTypes'
      BY <1>10 DEF SimpleLeave, LockGoto
    <2>2. PlacesRight'
      BY <1>10 DEF SimpleLeave, LockGoto
    <2>3. OneHolds'
      BY <1>10 DEF SimpleLeave, LockGoto
    <2>4. OwnerRight'
      BY <1>10 DEF SimpleLeave, LockGoto
    <2>5. CounterRight'
      BY <1>10 DEF SimpleLeave, LockGoto
    <2>6. GlobalRight'
      BY <1>10 DEF SimpleLeave, LockGoto
    <2> QED BY <2>1, <2>2, <2>3, <2>4, <2>5, <2>6 DEF LockInv
  <1>11. CASE SpinLeave(t)
    <2>1. LockTypes'
      BY <1>11 DEF SpinLeave, LockGoto
    <2>2. PlacesRight'
      BY <1>11 DEF SpinLeave, LockGoto
    <2>3. OneHolds'
      BY <1>11 DEF SpinLeave, LockGoto
    <2>4. OwnerRight'
      BY <1>11 DEF SpinLeave, LockGoto
    <2>5. CounterRight'
      BY <1>11 DEF SpinLeave, LockGoto
    <2>6. GlobalRight'
      BY <1>11 DEF SpinLeave, LockGoto
    <2> QED BY <2>1, <2>2, <2>3, <2>4, <2>5, <2>6 DEF LockInv
  <1>12. CASE SpinUncount(t)
    <2>1. LockTypes'
      BY <1>12 DEF SpinUncount, Outside, Inside, LockGoto
    <2>2. PlacesRight'
      BY <1>12 DEF SpinUncount, Outside, Inside, LockGoto
    <2>3. OneHolds'
      BY <1>12 DEF SpinUncount, Outside, Inside, LockGoto
    <2>4. OwnerRight'
      BY <1>12 DEF SpinUncount, Outside, Inside, LockGoto
    <2>5. CounterRight'
      BY <1>12 DEF SpinUncount, Outside, Inside, LockGoto
    <2>6. GlobalRight'
      BY <1>12 DEF SpinUncount, Outside, Inside, LockGoto
    <2> QED BY <2>1, <2>2, <2>3, <2>4, <2>5, <2>6 DEF LockInv
  <1>13. CASE SpinSignal(t)
    <2>1. LockTypes'
      BY <1>13 DEF SpinSignal, Outside, Inside, LockGoto
    <2>2. PlacesRight'
      BY <1>13 DEF SpinSignal, Outside, Inside, LockGoto
    <2>3. OneHolds'
      BY <1>13 DEF SpinSignal, Outside, Inside, LockGoto
    <2>4. OwnerRight'
      BY <1>13 DEF SpinSignal, Outside, Inside, LockGoto
    <2>5. CounterRight'
      BY <1>13 DEF SpinSignal, Outside, Inside, LockGoto
    <2>6. GlobalRight'
      BY <1>13 DEF SpinSignal, Outside, Inside, LockGoto
    <2> QED BY <2>1, <2>2, <2>3, <2>4, <2>5, <2>6 DEF LockInv
  <1> QED
    BY <1>1, <1>2, <1>3, <1>4, <1>5, <1>6, <1>7, <1>8, <1>9, <1>10, <1>11, <1>12, <1>13
    DEF LockStep

(* Threads of which any two are the same are at most one. *)
LEMMA AtMostOne ==
  ASSUME NEW S, \A s, u \in S : s = u
  PROVE  Cardinality(S) <= 1
  <1>1. CASE S = {}
    BY <1>1, FS_EmptySet
  <1>2. CASE S # {}
    <2>1. PICK s \in S : TRUE
      BY <1>2
    <2>2. S = {s}
      BY <2>1
    <2>3. Cardinality(S) = 1
      BY <2>2, FS_Singleton, Zenon
    <2> QED BY <2>3
  <1> QED BY <1>1, <1>2

LEMMA HoldersInside == LockInv => OneInside
  <1> SUFFICES ASSUME LockInv PROVE OneInside
    OBVIOUS
  <1>1. \A s, u \in {t \in Lockers : Inside(t) \/ lockPc[t] = "own"} : s = u
    BY DEF LockInv, OneHolds, HasLock, Inside
  <1> QED BY <1>1, AtMostOne DEF OneInside

(***************************************************************************)
(* For any number of threads, calls and spins: at most one thread is       *)
(* inside a lock, of whichever kind, or past the point where nothing can   *)
(* keep it out; and a thread never waits for a lock that it has itself.    *)
(* RecursiveCriticalSection changes its counter, its owner and its         *)
(* semaphore in separate steps (recursive_critical_section.cc:80-111,      *)
(* 176-184), with those of the other threads in between.                   *)
(***************************************************************************)
NeverWaitsForItself ==
  \A t \in Lockers : lockPc[t] \in {"queue", "sleep"} => ~Inside(t) /\ owner # t

THEOREM LocksAreExclusive == LockSpec => [](OneInside /\ NeverWaitsForItself)
  <1>1. LockInit => LockInv
    BY LockInvAtFirst
  <1>2. LockInv /\ [LockNext]_lockVars => LockInv'
    <2> SUFFICES ASSUME LockInv, [LockNext]_lockVars PROVE LockInv'
      OBVIOUS
    <2>1. CASE LockNext
      BY <2>1, LockInvKept DEF LockNext
    <2>2. CASE UNCHANGED lockVars
      BY <2>2
      DEF lockVars, LockInv, LockTypes, PlacesRight, OneHolds, OwnerRight, CounterRight,
          GlobalRight, HasLock, Weight, Recursive
    <2> QED BY <2>1, <2>2
  <1>3. LockInv => OneInside /\ NeverWaitsForItself
    <2> SUFFICES ASSUME LockInv PROVE NeverWaitsForItself
      BY HoldersInside
    <2>1. \A t \in Lockers : lockPc[t] \in {"queue", "sleep"} => depth[t] = 0 /\ kind = "spinning"
      BY DEF LockInv, PlacesRight
    <2> QED BY <2>1 DEF LockInv, OwnerRight, NeverWaitsForItself, Inside
  <1> QED BY <1>1, <1>2, <1>3, PTL DEF LockSpec

-----------------------------------------------------------------------------
(***************************************************************************)
(* The invoker, for any number of threads and closures.  A closure that is *)
(* counted is held by one thread: in its inbox, by a call that has made it *)
(* and not posted it yet, or by the dispatch that runs it.                 *)
(***************************************************************************)
InvokerSteps == {"idle", "made", "post", "drop", "dropSet", "running", "set"}
InvokerPcs == [at : InvokerSteps, run : Nat, make : Nat, to : InvokerThreads]

InvokerTypes ==
  /\ closures \in Nat /\ closures <= MaxClosures
  /\ inbox \in [InvokerThreads -> Seq(Nat)]
  /\ ivPc \in [InvokerThreads -> InvokerPcs]

RunsOne == \A t \in InvokerThreads :
             (ivPc[t].at = "idle" => ivPc[t].run = 0) /\ (ivPc[t].at = "running" => ivPc[t].run # 0)

HolderKinds == {"inbox", "make", "run"}

HoldsClosure(k, t, c) ==
  \/ k = "inbox" /\ \E i \in 1 .. Len(inbox[t]) : inbox[t][i] = c
  \/ k = "make" /\ ivPc[t].at \in {"made", "post", "drop"} /\ ivPc[t].make = c
  \/ k = "run" /\ ivPc[t].run # 0 /\ ivPc[t].at # "set" /\ ivPc[t].run = c

ClosuresKnown ==
  \A k \in HolderKinds, t \in InvokerThreads : \A c : HoldsClosure(k, t, c) => c \in 1 .. closures

OneHolder ==
  \A k, l \in HolderKinds, t, u \in InvokerThreads : \A c :
    HoldsClosure(k, t, c) /\ HoldsClosure(l, u, c) => k = l /\ t = u

InboxOnce ==
  \A t \in InvokerThreads : \A i, j \in 1 .. Len(inbox[t]) : inbox[t][i] = inbox[t][j] => i = j

ClosuresRight == InvokerTypes /\ RunsOne /\ ClosuresKnown /\ OneHolder /\ InboxOnce

InvokerInv ==
  /\ ClosuresRight
  /\ ivPending = Cardinality(LiveClosures)
  /\ phase = "gone" => LiveClosures = {}

LEMMA LiveAreHeld ==
  ASSUME InvokerTypes
  PROVE  \A c : c \in LiveClosures <=> \E k \in HolderKinds, t \in InvokerThreads : HoldsClosure(k, t, c)
  <1>1. \A t \in InvokerThreads : DOMAIN inbox[t] = 1 .. Len(inbox[t])
    BY DEF InvokerTypes
  <1>2. ASSUME NEW c
        PROVE  c \in LiveClosures <=>
                 \E t \in InvokerThreads :
                   \/ \E i \in DOMAIN inbox[t] : inbox[t][i] = c
                   \/ ivPc[t].at \in {"made", "post", "drop"} /\ ivPc[t].make = c
                   \/ ivPc[t].run # 0 /\ ivPc[t].at # "set" /\ ivPc[t].run = c
    <2> DEFINE A == UNION { {inbox[t][i] : i \in DOMAIN inbox[t]} : t \in InvokerThreads }
               B == {ivPc[t].make : t \in {u \in InvokerThreads : ivPc[u].at \in {"made", "post", "drop"}}}
               C == {ivPc[t].run : t \in {u \in InvokerThreads : ivPc[u].run # 0 /\ ivPc[u].at # "set"}}
    <2>1. c \in A <=> \E t \in InvokerThreads : \E i \in DOMAIN inbox[t] : inbox[t][i] = c
      OBVIOUS
    <2>2. c \in B <=> \E t \in InvokerThreads : ivPc[t].at \in {"made", "post", "drop"} /\ ivPc[t].make = c
      OBVIOUS
    <2>3. c \in C <=> \E t \in InvokerThreads : ivPc[t].run # 0 /\ ivPc[t].at # "set" /\ ivPc[t].run = c
      OBVIOUS
    <2>4. LiveClosures = A \union B \union C
      BY DEF LiveClosures
    <2> HIDE DEF A, B, C
    <2> QED BY <2>1, <2>2, <2>3, <2>4
  <1>3. ASSUME NEW c, NEW t \in InvokerThreads
        PROVE  (\E k \in HolderKinds : HoldsClosure(k, t, c)) <=>
                   \/ \E i \in DOMAIN inbox[t] : inbox[t][i] = c
                   \/ ivPc[t].at \in {"made", "post", "drop"} /\ ivPc[t].make = c
                   \/ ivPc[t].run # 0 /\ ivPc[t].at # "set" /\ ivPc[t].run = c
    BY <1>1 DEF HoldsClosure, HolderKinds
  <1> QED BY <1>2, <1>3

LEMMA LiveAreHeldNext ==
  (InvokerTypes =>
     \A c : c \in LiveClosures <=> \E k \in HolderKinds, t \in InvokerThreads : HoldsClosure(k, t, c))'
  <1>1. InvokerTypes =>
     \A c : c \in LiveClosures <=> \E k \in HolderKinds, t \in InvokerThreads : HoldsClosure(k, t, c)
    BY LiveAreHeld
  <1> QED BY <1>1, PTL

LEMMA LiveAreFinite ==
  ASSUME InvokerTypes, ClosuresKnown
  PROVE  /\ LiveClosures \subseteq 1 .. closures
         /\ IsFiniteSet(LiveClosures)
         /\ Cardinality(LiveClosures) \in Nat
         /\ Cardinality(LiveClosures) = 0 <=> LiveClosures = {}
  <1>1. LiveClosures \subseteq 1 .. closures
    BY LiveAreHeld DEF ClosuresKnown
  <1>2. IsFiniteSet(1 .. closures)
    BY FS_Interval DEF InvokerTypes
  <1>3. IsFiniteSet(LiveClosures)
    BY <1>1, <1>2, FS_Subset
  <1> QED BY <1>1, <1>3, FS_CardinalityType, FS_EmptySet

(* An inbox has as many messages as closures. *)
LEMMA InboxCount ==
  ASSUME ClosuresRight, NEW t \in InvokerThreads
  PROVE  LET held == {c \in 1 .. closures : HoldsClosure("inbox", t, c)}
         IN  IsFiniteSet(held) /\ Cardinality(held) = Len(inbox[t])
  <1> DEFINE q == inbox[t]
             n == Len(q)
             held == {c \in 1 .. closures : HoldsClosure("inbox", t, c)}
             f == [i \in 1 .. n |-> q[i]]
  <1>1. n \in Nat
    BY DEF ClosuresRight, InvokerTypes
  <1>2. /\ \A i \in 1 .. n : q[i] \in held
        /\ \A c \in held : \E i \in 1 .. n : q[i] = c
        /\ \A i, j \in 1 .. n : q[i] = q[j] => i = j
    BY DEF ClosuresRight, ClosuresKnown, InboxOnce, HoldsClosure, HolderKinds
  <1> HIDE DEF q, n, held
  <1>3. f \in Bijection(1 .. n, held)
    BY <1>2 DEF Bijection, Injection, Surjection, IsInjective
  <1>4. IsFiniteSet(1 .. n) /\ Cardinality(1 .. n) = n
    BY <1>1, FS_Interval
  <1>5. IsFiniteSet(held) /\ Cardinality(held) = n
    BY <1>3, <1>4, FS_Bijection DEF ExistsBijection
  <1> QED BY <1>5 DEF held, n, q

(* In a step the closures in gone lose their holders and those in new are held
   by t in the way k. *)
Handed(gone, new, k, t) ==
  \A l \in HolderKinds, u \in InvokerThreads : \A c :
    HoldsClosure(l, u, c)' <=> (HoldsClosure(l, u, c) /\ c \notin gone) \/ (l = k /\ u = t /\ c \in new)

LEMMA HandedRight ==
  ASSUME ClosuresRight, InvokerTypes', closures <= closures',
         NEW gone, NEW new, NEW k \in HolderKinds, NEW t \in InvokerThreads, Handed(gone, new, k, t),
         new \subseteq 1 .. closures', \A c \in new : c \in 1 .. closures => c \in gone
  PROVE  /\ ClosuresKnown' /\ OneHolder'
         /\ LiveClosures' = (LiveClosures \ gone) \union new
  <1>1. closures \in Nat /\ closures' \in Nat
    BY DEF ClosuresRight, InvokerTypes
  <1>2. \A c : c \in 1 .. closures => c \in 1 .. closures'
    BY <1>1
  <1>3. ClosuresKnown'
    BY <1>2 DEF ClosuresKnown, ClosuresRight, Handed
  <1>4. OneHolder'
    BY DEF ClosuresRight, ClosuresKnown, OneHolder, Handed
  <1>5. ASSUME NEW c PROVE c \in LiveClosures' <=> c \in (LiveClosures \ gone) \union new
    <2>1. c \in LiveClosures <=> \E l \in HolderKinds, u \in InvokerThreads : HoldsClosure(l, u, c)
      BY LiveAreHeld DEF ClosuresRight
    <2>2. c \in LiveClosures' <=> \E l \in HolderKinds, u \in InvokerThreads : HoldsClosure(l, u, c)'
      BY LiveAreHeldNext
    <2> QED BY <2>1, <2>2 DEF Handed
  <1> QED BY <1>3, <1>4, <1>5

(* The parts of the invariant that a step does not come by through Handed. *)
PcsRight == InvokerTypes /\ RunsOne /\ InboxOnce

(* Closures change hands. *)
LEMMA HoldersChange ==
  ASSUME InvokerInv, PcsRight', UNCHANGED <<closures, ivPending>>, phase' = "gone" => phase = "gone",
         NEW moved, moved \subseteq LiveClosures,
         NEW k \in HolderKinds, NEW t \in InvokerThreads, Handed(moved, moved, k, t)
  PROVE  InvokerInv'
  <1>1. closures \in Nat /\ LiveClosures \subseteq 1 .. closures
    BY LiveAreFinite DEF InvokerInv, ClosuresRight, InvokerTypes
  <1>2. ClosuresKnown' /\ OneHolder' /\ LiveClosures' = (LiveClosures \ moved) \union moved
    <2>1. /\ ClosuresRight /\ InvokerTypes' /\ closures <= closures'
          /\ moved \subseteq 1 .. closures' /\ \A c \in moved : c \in 1 .. closures => c \in moved
      BY <1>1 DEF InvokerInv, PcsRight
    <2> QED BY <2>1, HandedRight
  <1>3. LiveClosures' = LiveClosures
    BY <1>2
  <1> QED BY <1>2, <1>3 DEF InvokerInv, ClosuresRight, PcsRight

(* A closure is deleted. *)
LEMMA HolderGoes ==
  ASSUME InvokerInv, PcsRight', UNCHANGED <<closures, phase>>, ivPending' = ivPending - 1,
         NEW c \in LiveClosures,
         NEW k \in HolderKinds, NEW t \in InvokerThreads, Handed({c}, {}, k, t)
  PROVE  InvokerInv'
  <1>1. closures \in Nat /\ IsFiniteSet(LiveClosures)
    BY LiveAreFinite DEF InvokerInv, ClosuresRight, InvokerTypes
  <1>2. ClosuresKnown' /\ OneHolder' /\ LiveClosures' = (LiveClosures \ {c}) \union {}
    <2>1. /\ ClosuresRight /\ InvokerTypes' /\ closures <= closures'
          /\ {} \subseteq 1 .. closures' /\ \A d \in {} : d \in 1 .. closures => d \in {c}
      BY <1>1 DEF InvokerInv, PcsRight
    <2> QED BY <2>1, HandedRight
  <1>3. LiveClosures' = LiveClosures \ {c}
    BY <1>2
  <1>4. Cardinality(LiveClosures') = Cardinality(LiveClosures) - 1
    BY <1>1, <1>3, FS_RemoveElement
  <1> QED BY <1>2, <1>3, <1>4 DEF InvokerInv, ClosuresRight, PcsRight

LEMMA AsyncInvokeKeeps ==
  ASSUME InvokerInv, NEW t \in InvokerThreads, NEW to \in InvokerThreads, AsyncInvoke(t, to)
  PROVE  InvokerInv'
  <1> USE DEF InvokerInv, ClosuresRight
  <1>1. ivPc[t] \in InvokerPcs /\ ivPc[t].at \in {"idle", "running"} /\ closures \in Nat
    BY DEF AsyncInvoke, OwnerFree, InvokerTypes
  <1>2. /\ closures < MaxClosures /\ closures' = closures + 1 /\ ivPending' = ivPending + 1
        /\ UNCHANGED <<inbox, phase>>
        /\ ivPc' = [ivPc EXCEPT ![t].at = "made", ![t].make = closures + 1, ![t].to = to]
    BY DEF AsyncInvoke
  <1>3. /\ ivPc'[t] \in InvokerPcs
        /\ ivPc'[t].at = "made" /\ ivPc'[t].make = closures + 1 /\ ivPc'[t].run = ivPc[t].run
        /\ \A u \in InvokerThreads : u # t => ivPc'[u] = ivPc[u]
        /\ DOMAIN ivPc' = InvokerThreads /\ \A u \in InvokerThreads : ivPc'[u] \in InvokerPcs
    <2>1. ivPc'[t] = [at |-> "made", run |-> ivPc[t].run, make |-> closures + 1, to |-> to]
      BY <1>1, <1>2 DEF InvokerTypes, InvokerPcs
    <2>2. DOMAIN ivPc' = InvokerThreads /\ \A u \in InvokerThreads : u # t => ivPc'[u] = ivPc[u]
      BY <1>2 DEF InvokerTypes
    <2>3. ivPc'[t] \in InvokerPcs
      BY <1>1, <2>1 DEF InvokerPcs, InvokerSteps
    <2>4. \A u \in InvokerThreads : ivPc'[u] \in InvokerPcs
      BY <2>2, <2>3 DEF InvokerTypes
    <2>5. ivPc'[t].at = "made" /\ ivPc'[t].make = closures + 1 /\ ivPc'[t].run = ivPc[t].run
      BY <2>1
    <2> QED BY <2>2, <2>3, <2>4, <2>5
  <1>4. InvokerTypes'
    <2>1. ivPc' \in [InvokerThreads -> InvokerPcs]
      BY <1>2, <1>3 DEF InvokerTypes
    <2>2. closures' \in Nat /\ closures' <= MaxClosures
      BY <1>1, <1>2, InvokerConstants
    <2> QED BY <1>2, <2>1, <2>2 DEF InvokerTypes
  <1>5. RunsOne' /\ InboxOnce'
    BY <1>2, <1>3 DEF RunsOne, InboxOnce
  <1>6. Handed({}, {closures + 1}, "make", t)
    BY <1>1, <1>2, <1>3 DEF Handed, HoldsClosure, HolderKinds
  <1>7. closures + 1 \in 1 .. closures' /\ closures + 1 \notin 1 .. closures /\ closures <= closures'
    BY <1>1, <1>2
  <1>8. ClosuresKnown' /\ OneHolder' /\ LiveClosures' = (LiveClosures \ {}) \union {closures + 1}
    <2>1. "make" \in HolderKinds
      BY DEF HolderKinds
    <2>2. {closures + 1} \subseteq 1 .. closures' /\ \A c \in {closures + 1} : c \in 1 .. closures => c \in {}
      BY <1>7
    <2> QED BY <1>4, <1>6, <1>7, <2>1, <2>2, HandedRight
  <1>9. /\ IsFiniteSet(LiveClosures) /\ closures + 1 \notin LiveClosures
        /\ LiveClosures' = LiveClosures \union {closures + 1}
    BY <1>7, <1>8, LiveAreFinite
  <1>10. Cardinality(LiveClosures') = Cardinality(LiveClosures) + 1
    BY <1>9, FS_AddElement
  <1>11. phase # "gone"
    <2>1. CASE ivPc[t].at = "running"
      <3>1. HoldsClosure("run", t, ivPc[t].run)
        BY <2>1 DEF RunsOne, HoldsClosure
      <3> QED BY <3>1, LiveAreHeld DEF HolderKinds
    <2>2. CASE phase = "alive"
      BY <2>2
    <2> QED BY <2>1, <2>2 DEF AsyncInvoke, OwnerFree
  <1> QED BY <1>2, <1>4, <1>5, <1>8, <1>10, <1>11

(* A thread goes on, and no closure changes hands. *)
LEMMA PcStepKeeps ==
  ASSUME InvokerInv, NEW t \in InvokerThreads, DoInvoke(t) \/ DropSet(t) \/ ClosureSet(t)
  PROVE  InvokerInv'
  <1> USE DEF InvokerInv, ClosuresRight
  <1>1. /\ ivPc[t] \in InvokerPcs
        /\ \A u \in InvokerThreads : u # t => ivPc'[u] = ivPc[u]
        /\ UNCHANGED <<closures, ivPending, inbox, phase>>
    BY DEF DoInvoke, DropSet, ClosureSet, InvokerTypes
  <1>2. /\ ivPc' \in [InvokerThreads -> InvokerPcs]
        /\ \/ /\ ivPc[t].at = "made" /\ ivPc'[t].at \in {"drop", "post"}
              /\ ivPc'[t].run = ivPc[t].run /\ ivPc'[t].make = ivPc[t].make
           \/ /\ ivPc[t].at = "dropSet" /\ ivPc'[t].run = ivPc[t].run
              /\ ivPc'[t].at = IF ivPc[t].run = 0 THEN "idle" ELSE "running"
           \/ ivPc[t].at = "set" /\ ivPc'[t].at = "idle" /\ ivPc'[t].run = 0
    <2>1. CASE DoInvoke(t)
      BY <1>1, <2>1 DEF DoInvoke, InvokerTypes, InvokerPcs, InvokerSteps
    <2>2. CASE DropSet(t)
      BY <1>1, <2>2 DEF DropSet, Resumed, InvokerTypes, InvokerPcs, InvokerSteps
    <2>3. CASE ClosureSet(t)
      BY <1>1, <2>3 DEF ClosureSet, IdlePc, InvokerTypes, InvokerPcs, InvokerSteps, InvokerThreads
    <2> QED BY <2>1, <2>2, <2>3
  <1>3. PcsRight'
    BY <1>1, <1>2 DEF PcsRight, InvokerTypes, RunsOne, InboxOnce
  <1>4. Handed({}, {}, "run", t)
    BY <1>1, <1>2 DEF Handed, HoldsClosure
  <1> QED BY <1>1, <1>3, <1>4, HoldersChange DEF HolderKinds

(* A call posts its closure, or deletes it. *)
LEMMA InvokePostKeeps ==
  ASSUME InvokerInv, NEW t \in InvokerThreads, InvokePost(t)
  PROVE  InvokerInv'
  <1> USE DEF InvokerInv, ClosuresRight
  <1> DEFINE to == ivPc[t].to
             m == ivPc[t].make
             q == inbox[to]
  <1>1. /\ ivPc[t] \in InvokerPcs /\ ivPc[t].at = "post" /\ to \in InvokerThreads /\ m \in Nat
        /\ q \in Seq(Nat) /\ Len(q) \in Nat
        /\ UNCHANGED <<closures, ivPending, phase>>
    BY DEF InvokePost, InvokerTypes, InvokerPcs
  <1>2. /\ ivPc' \in [InvokerThreads -> InvokerPcs]
        /\ \A u \in InvokerThreads : u # t => ivPc'[u] = ivPc[u]
        /\ ivPc'[t].run = ivPc[t].run
        /\ ivPc'[t].at = IF ivPc[t].run = 0 THEN "idle" ELSE "running"
    BY <1>1 DEF InvokePost, Resumed, InvokerTypes, InvokerPcs, InvokerSteps
  <1>3. /\ HoldsClosure("make", t, m)
        /\ \A l \in HolderKinds, u \in InvokerThreads : HoldsClosure(l, u, m) => l = "make" /\ u = t
        /\ m \in LiveClosures
    <2>1. HoldsClosure("make", t, m)
      BY <1>1 DEF HoldsClosure
    <2>2. "make" \in HolderKinds
      BY DEF HolderKinds
    <2> QED BY <2>1, <2>2, LiveAreHeld DEF OneHolder
  <1>4. \A i \in 1 .. Len(q) : q[i] # m
    <2>1. ~HoldsClosure("inbox", to, m)
      BY <1>1, <1>3 DEF HolderKinds
    <2> QED BY <2>1 DEF HoldsClosure
  <1>5. /\ \A u \in InvokerThreads : u # to => inbox'[u] = inbox[u]
        /\ inbox'[to] = Append(q, m) /\ inbox' \in [InvokerThreads -> Seq(Nat)]
    BY <1>1 DEF InvokePost, InvokerTypes
  <1>6. /\ Len(inbox'[to]) = Len(q) + 1
        /\ \A i \in 1 .. Len(q) : inbox'[to][i] = q[i]
        /\ inbox'[to][Len(q) + 1] = m
    BY <1>1, <1>5
  <1> HIDE DEF m, q, to
  <1>7. InboxOnce'
    <2>1. \A i, j \in 1 .. Len(inbox'[to]) : inbox'[to][i] = inbox'[to][j] => i = j
      <3>1. \A i, j \in 1 .. Len(q) : q[i] = q[j] => i = j
        BY <1>1 DEF InboxOnce, q
      <3>2. \A i \in 1 .. Len(inbox'[to]) : i \in 1 .. Len(q) \/ i = Len(q) + 1
        BY <1>1, <1>6
      <3> QED BY <1>4, <1>6, <3>1, <3>2
    <2> QED BY <1>5, <2>1 DEF InboxOnce
  <1>8. PcsRight'
    BY <1>1, <1>2, <1>5, <1>7 DEF PcsRight, InvokerTypes, RunsOne
  <1>9. Handed({m}, {m}, "inbox", to)
    <2> SUFFICES ASSUME NEW l \in HolderKinds, NEW u \in InvokerThreads, NEW c
                 PROVE  HoldsClosure(l, u, c)' <=> (HoldsClosure(l, u, c) /\ c # m) \/ (l = "inbox" /\ u = to /\ c = m)
      BY DEF Handed
    <2>1. CASE l = "inbox" /\ u = to
      <3>1. HoldsClosure(l, u, c)' <=> \E i \in 1 .. Len(inbox'[to]) : inbox'[to][i] = c
        BY <2>1 DEF HoldsClosure
      <3>2. HoldsClosure(l, u, c) <=> \E i \in 1 .. Len(q) : q[i] = c
        BY <2>1 DEF HoldsClosure, q
      <3>3. \A i : i \in 1 .. Len(inbox'[to]) <=> i \in 1 .. Len(q) \/ i = Len(q) + 1
        BY <1>1, <1>6
      <3> QED BY <1>4, <1>6, <2>1, <3>1, <3>2, <3>3
    <2>2. CASE l = "inbox" /\ u # to
      <3>1. HoldsClosure(l, u, c)' <=> HoldsClosure(l, u, c)
        BY <1>5, <2>2 DEF HoldsClosure
      <3> QED BY <1>3, <2>2, <3>1
    <2>3. CASE l = "make"
      <3>1. u # t => (HoldsClosure(l, u, c)' <=> HoldsClosure(l, u, c)) /\ ~HoldsClosure(l, u, m)
        BY <1>2, <1>3, <2>3 DEF HoldsClosure
      <3>2. u = t => ~HoldsClosure(l, u, c)' /\ (HoldsClosure(l, u, c) => c = m)
        BY <1>1, <1>2, <2>3 DEF HoldsClosure, m
      <3> QED BY <2>3, <3>1, <3>2
    <2>4. CASE l = "run"
      <3>1. HoldsClosure(l, u, c)' <=> HoldsClosure(l, u, c)
        BY <1>1, <1>2, <2>4 DEF HoldsClosure
      <3> QED BY <1>3, <2>4, <3>1
    <2> QED BY <2>1, <2>2, <2>3, <2>4 DEF HolderKinds
  <1> QED
    <2>1. {m} \subseteq LiveClosures /\ "inbox" \in HolderKinds
      BY <1>3 DEF HolderKinds
    <2> QED BY <1>1, <1>8, <1>9, <2>1, HoldersChange

LEMMA DropUncountKeeps ==
  ASSUME InvokerInv, NEW t \in InvokerThreads, DropUncount(t)
  PROVE  InvokerInv'
  <1> USE DEF InvokerInv, ClosuresRight
  <1> DEFINE m == ivPc[t].make
  <1>1. /\ ivPc[t] \in InvokerPcs /\ ivPc[t].at = "drop" /\ ivPending' = ivPending - 1
        /\ UNCHANGED <<closures, inbox, phase>>
    BY DEF DropUncount, InvokerTypes
  <1>2. /\ ivPc' \in [InvokerThreads -> InvokerPcs]
        /\ \A u \in InvokerThreads : u # t => ivPc'[u] = ivPc[u]
        /\ ivPc'[t].at = "dropSet" /\ ivPc'[t].run = ivPc[t].run
    BY <1>1 DEF DropUncount, InvokerTypes, InvokerPcs, InvokerSteps
  <1>3. /\ HoldsClosure("make", t, m)
        /\ \A l \in HolderKinds, u \in InvokerThreads : HoldsClosure(l, u, m) => l = "make" /\ u = t
        /\ m \in LiveClosures
    <2>1. HoldsClosure("make", t, m)
      BY <1>1 DEF HoldsClosure
    <2>2. "make" \in HolderKinds
      BY DEF HolderKinds
    <2> QED BY <2>1, <2>2, LiveAreHeld DEF OneHolder
  <1>4. \A c : HoldsClosure("make", t, c) <=> c = m
    BY <1>1 DEF HoldsClosure
  <1> HIDE DEF m
  <1>5. PcsRight'
    BY <1>1, <1>2 DEF PcsRight, InvokerTypes, RunsOne, InboxOnce
  <1>6. Handed({m}, {}, "make", t)
    <2> SUFFICES ASSUME NEW l \in HolderKinds, NEW u \in InvokerThreads, NEW c
                 PROVE  HoldsClosure(l, u, c)' <=> HoldsClosure(l, u, c) /\ c # m
      BY DEF Handed
    <2>1. CASE l = "make" /\ u = t
      BY <1>2, <1>4, <2>1 DEF HoldsClosure
    <2>2. CASE ~ (l = "make" /\ u = t)
      <3>1. HoldsClosure(l, u, c)' <=> HoldsClosure(l, u, c)
        BY <1>1, <1>2, <2>2 DEF HoldsClosure
      <3> QED BY <1>3, <2>2, <3>1
    <2> QED BY <2>1, <2>2
  <1> QED BY <1>1, <1>3, <1>5, <1>6, HolderGoes DEF HolderKinds

(* A thread takes a closure out of its inbox, and deletes it after its run. *)
LEMMA OnMessageKeeps ==
  ASSUME InvokerInv, NEW t \in InvokerThreads, OnInvokerMessage(t)
  PROVE  InvokerInv'
  <1> USE DEF InvokerInv, ClosuresRight
  <1> DEFINE q == inbox[t]
             m == q[1]
  <1>1. /\ ivPc[t] \in InvokerPcs /\ ivPc[t].at = "idle" /\ ivPc[t].run = 0
        /\ q \in Seq(Nat) /\ q # << >> /\ Len(q) \in Nat /\ 1 \in 1 .. Len(q)
        /\ m = Head(q) /\ m \in Nat
        /\ UNCHANGED <<closures, ivPending, phase>>
    BY DEF OnInvokerMessage, InvokerTypes, RunsOne
  <1>2. /\ HoldsClosure("inbox", t, m)
        /\ \A l \in HolderKinds, u \in InvokerThreads : HoldsClosure(l, u, m) => l = "inbox" /\ u = t
        /\ m \in LiveClosures /\ m # 0
    <2>1. HoldsClosure("inbox", t, m)
      BY <1>1 DEF HoldsClosure
    <2>2. "inbox" \in HolderKinds
      BY DEF HolderKinds
    <2>3. m \in 1 .. closures /\ closures \in Nat
      BY <2>1, <2>2 DEF ClosuresKnown, InvokerTypes
    <2> QED BY <2>1, <2>2, <2>3, LiveAreHeld DEF OneHolder
  <1>3. /\ ivPc' \in [InvokerThreads -> InvokerPcs]
        /\ \A u \in InvokerThreads : u # t => ivPc'[u] = ivPc[u]
        /\ ivPc'[t].at = "running" /\ ivPc'[t].run = m
    <2>1. ivPc' = [ivPc EXCEPT ![t].at = "running", ![t].run = m]
      BY <1>1 DEF OnInvokerMessage
    <2> HIDE DEF m
    <2>2. ivPc'[t] = [at |-> "running", run |-> m, make |-> ivPc[t].make, to |-> ivPc[t].to]
      BY <1>1, <2>1 DEF InvokerTypes, InvokerPcs
    <2>3. ivPc'[t] \in InvokerPcs
      BY <1>1, <2>2 DEF InvokerPcs, InvokerSteps
    <2>4. ivPc'[t].at = "running" /\ ivPc'[t].run = m
      BY <2>2
    <2>5. DOMAIN ivPc' = InvokerThreads /\ \A u \in InvokerThreads : u # t => ivPc'[u] = ivPc[u]
      BY <2>1 DEF InvokerTypes
    <2>6. \A u \in InvokerThreads : ivPc'[u] \in InvokerPcs
      BY <2>3, <2>5 DEF InvokerTypes
    <2>7. ivPc' = [u \in InvokerThreads |-> ivPc'[u]]
      BY <2>1 DEF InvokerTypes
    <2> QED BY <2>4, <2>5, <2>6, <2>7
  <1>4. /\ \A u \in InvokerThreads : u # t => inbox'[u] = inbox[u]
        /\ inbox'[t] = Tail(q) /\ inbox' \in [InvokerThreads -> Seq(Nat)]
    BY <1>1 DEF OnInvokerMessage, InvokerTypes
  <1>5. /\ Len(inbox'[t]) = Len(q) - 1
        /\ \A i \in 1 .. Len(q) - 1 : inbox'[t][i] = q[i + 1]
    BY <1>1, <1>4
  <1>6. \A i, j \in 1 .. Len(q) : q[i] = q[j] => i = j
    BY DEF InboxOnce
  <1> HIDE DEF q
  <1>7. \A i \in 1 .. Len(q) : i = 1 \/ (i - 1 \in 1 .. Len(q) - 1 /\ (i - 1) + 1 = i)
    BY <1>1
  <1>8. \A i \in 1 .. Len(q) - 1 : i + 1 \in 1 .. Len(q) /\ i + 1 # 1
    BY <1>1
  <1>9. InboxOnce'
    <2>1. ASSUME NEW i \in 1 .. Len(q) - 1, NEW j \in 1 .. Len(q) - 1, inbox'[t][i] = inbox'[t][j]
          PROVE  i = j
      <3>1. i + 1 = j + 1
        BY <1>5, <1>6, <1>8, <2>1
      <3> QED BY <3>1
    <2> QED BY <1>4, <1>5, <2>1 DEF InboxOnce
  <1>10. PcsRight'
    <2> HIDE DEF m
    <2>1. InvokerTypes'
      BY <1>1, <1>3, <1>4 DEF InvokerTypes
    <2>2. RunsOne'
      BY <1>2, <1>3 DEF RunsOne
    <2> QED BY <1>9, <2>1, <2>2 DEF PcsRight
  <1>11. Handed({m}, {m}, "run", t)
    <2> SUFFICES ASSUME NEW l \in HolderKinds, NEW u \in InvokerThreads, NEW c
                 PROVE  HoldsClosure(l, u, c)' <=> (HoldsClosure(l, u, c) /\ c # m) \/ (l = "run" /\ u = t /\ c = m)
      BY DEF Handed
    <2>1. CASE l = "inbox" /\ u = t
      <3>1. HoldsClosure(l, u, c)' <=> \E i \in 1 .. Len(q) - 1 : inbox'[t][i] = c
        BY <1>5, <2>1 DEF HoldsClosure
      <3>2. HoldsClosure(l, u, c) <=> \E i \in 1 .. Len(q) : q[i] = c
        BY <2>1 DEF HoldsClosure, q
      <3>3. ASSUME NEW i \in 1 .. Len(q) - 1, inbox'[t][i] = c
            PROVE  HoldsClosure(l, u, c) /\ c # m
        <4>1. q[i + 1] = c /\ i + 1 \in 1 .. Len(q) /\ i + 1 # 1
          BY <1>5, <1>8, <3>3
        <4>2. c # q[1]
          BY <1>1, <1>6, <4>1
        <4> QED BY <3>2, <4>1, <4>2
      <3>4. ASSUME NEW i \in 1 .. Len(q), q[i] = c, c # m
            PROVE  HoldsClosure(l, u, c)'
        <4>1. i # 1
          BY <3>4
        <4>2. i - 1 \in 1 .. Len(q) - 1 /\ (i - 1) + 1 = i
          BY <1>7, <4>1
        <4>3. inbox'[t][i - 1] = q[(i - 1) + 1]
          BY <1>5, <4>2
        <4>4. inbox'[t][i - 1] = c
          BY <3>4, <4>2, <4>3
        <4> QED BY <3>1, <4>2, <4>4
      <3> QED BY <2>1, <3>1, <3>2, <3>3, <3>4
    <2>2. CASE l = "run" /\ u = t
      BY <1>1, <1>2, <1>3, <2>2 DEF HoldsClosure
    <2>3. CASE ~ (l = "inbox" /\ u = t) /\ ~ (l = "run" /\ u = t)
      <3>1. HoldsClosure(l, u, c)' <=> HoldsClosure(l, u, c)
        BY <1>1, <1>3, <1>4, <2>3 DEF HoldsClosure
      <3> QED BY <1>2, <2>3, <3>1
    <2> QED BY <2>1, <2>2, <2>3
  <1> QED
    <2>1. {m} \subseteq LiveClosures /\ "run" \in HolderKinds
      BY <1>2 DEF HolderKinds
    <2> QED BY <1>1, <1>10, <1>11, <2>1, HoldersChange

LEMMA ClosureUncountKeeps ==
  ASSUME InvokerInv, NEW t \in InvokerThreads, ClosureUncount(t)
  PROVE  InvokerInv'
  <1> USE DEF InvokerInv, ClosuresRight
  <1> DEFINE m == ivPc[t].run
  <1>1. /\ ivPc[t] \in InvokerPcs /\ ivPc[t].at = "running" /\ m # 0 /\ ivPending' = ivPending - 1
        /\ UNCHANGED <<closures, inbox, phase>>
    BY DEF ClosureUncount, InvokerTypes, RunsOne
  <1>2. /\ ivPc' \in [InvokerThreads -> InvokerPcs]
        /\ \A u \in InvokerThreads : u # t => ivPc'[u] = ivPc[u]
        /\ ivPc'[t].at = "set"
    BY <1>1 DEF ClosureUncount, InvokerTypes, InvokerPcs, InvokerSteps
  <1>3. /\ HoldsClosure("run", t, m)
        /\ \A l \in HolderKinds, u \in InvokerThreads : HoldsClosure(l, u, m) => l = "run" /\ u = t
        /\ m \in LiveClosures
    <2>1. HoldsClosure("run", t, m)
      BY <1>1 DEF HoldsClosure
    <2>2. "run" \in HolderKinds
      BY DEF HolderKinds
    <2> QED BY <2>1, <2>2, LiveAreHeld DEF OneHolder
  <1>4. \A c : HoldsClosure("run", t, c) <=> c = m
    BY <1>1 DEF HoldsClosure
  <1> HIDE DEF m
  <1>5. PcsRight'
    BY <1>1, <1>2 DEF PcsRight, InvokerTypes, RunsOne, InboxOnce
  <1>6. Handed({m}, {}, "run", t)
    <2> SUFFICES ASSUME NEW l \in HolderKinds, NEW u \in InvokerThreads, NEW c
                 PROVE  HoldsClosure(l, u, c)' <=> HoldsClosure(l, u, c) /\ c # m
      BY DEF Handed
    <2>1. CASE l = "run" /\ u = t
      BY <1>2, <1>4, <2>1 DEF HoldsClosure
    <2>2. CASE ~ (l = "run" /\ u = t)
      <3>1. HoldsClosure(l, u, c)' <=> HoldsClosure(l, u, c)
        BY <1>1, <1>2, <2>2 DEF HoldsClosure
      <3> QED BY <1>3, <2>2, <3>1
    <2> QED BY <2>1, <2>2
  <1> QED BY <1>1, <1>3, <1>5, <1>6, HolderGoes DEF HolderKinds

(* Clear deletes what is in the inbox of a thread. *)
LEMMA DiscardKeeps ==
  ASSUME InvokerInv, NEW t \in InvokerThreads, Discard(t), UNCHANGED <<closures, ivPc>>,
         phase' = "gone" => phase = "gone"
  PROVE  InvokerInv'
  <1> USE DEF InvokerInv, ClosuresRight
  <1> DEFINE held == {c \in 1 .. closures : HoldsClosure("inbox", t, c)}
             n == Len(inbox[t])
  <1>1. /\ \A u \in InvokerThreads : u # t => inbox'[u] = inbox[u]
        /\ inbox'[t] = << >> /\ inbox' \in [InvokerThreads -> Seq(Nat)]
        /\ ivPending' = ivPending - n /\ closures \in Nat
    BY DEF Discard, InvokerTypes
  <1>2. IsFiniteSet(held) /\ Cardinality(held) = n
    BY InboxCount
  <1>3. \A c : HoldsClosure("inbox", t, c) <=> c \in held
    BY DEF ClosuresKnown, HolderKinds
  <1>4. \A l \in HolderKinds, u \in InvokerThreads : \A c \in held : HoldsClosure(l, u, c) => l = "inbox" /\ u = t
    BY <1>3 DEF OneHolder, HolderKinds
  <1> HIDE DEF held
  <1>5. PcsRight'
    <2>1. InboxOnce'
      <3>1. \A i \in 1 .. Len(inbox'[t]) : FALSE
        BY <1>1
      <3> QED BY <1>1, <3>1 DEF InboxOnce
    <2>2. InvokerTypes' /\ RunsOne'
      BY <1>1 DEF InvokerTypes, RunsOne
    <2> QED BY <2>1, <2>2 DEF PcsRight
  <1>6. Handed(held, {}, "inbox", t)
    <2> SUFFICES ASSUME NEW l \in HolderKinds, NEW u \in InvokerThreads, NEW c
                 PROVE  HoldsClosure(l, u, c)' <=> HoldsClosure(l, u, c) /\ c \notin held
      BY DEF Handed
    <2>1. CASE l = "inbox" /\ u = t
      <3>1. ~HoldsClosure(l, u, c)'
        BY <1>1, <2>1 DEF HoldsClosure
      <3> QED BY <1>3, <2>1, <3>1
    <2>2. CASE ~ (l = "inbox" /\ u = t)
      <3>1. HoldsClosure(l, u, c)' <=> HoldsClosure(l, u, c)
        BY <1>1, <2>2 DEF HoldsClosure
      <3> QED BY <1>4, <2>2, <3>1
    <2> QED BY <2>1, <2>2
  <1>7. ClosuresKnown' /\ OneHolder' /\ LiveClosures' = (LiveClosures \ held) \union {}
    <2>1. /\ ClosuresRight /\ InvokerTypes' /\ closures <= closures' /\ "inbox" \in HolderKinds
          /\ {} \subseteq 1 .. closures' /\ \A d \in {} : d \in 1 .. closures => d \in held
      BY <1>1, <1>5 DEF PcsRight, HolderKinds
    <2> QED BY <1>6, <2>1, HandedRight
  <1>8. /\ LiveClosures' = LiveClosures \ held /\ IsFiniteSet(LiveClosures)
        /\ LiveClosures \intersect held = held
    <2>1. held \subseteq LiveClosures
      BY <1>3, LiveAreHeld DEF HolderKinds
    <2> QED BY <1>7, <2>1, LiveAreFinite
  <1>9. Cardinality(LiveClosures') = Cardinality(LiveClosures) - n
    <2>1. Cardinality(LiveClosures \ held) = Cardinality(LiveClosures) - Cardinality(LiveClosures \intersect held)
      BY <1>8, FS_Difference
    <2> HIDE DEF n
    <2> QED BY <1>2, <1>8, <2>1, Zenon
  <1> QED BY <1>1, <1>5, <1>7, <1>8, <1>9 DEF PcsRight

(* The invoker counts the closures there are, and when its destructor has
   returned there is none that could touch it. *)
THEOREM InvokerCountsClosures ==
  InvokerSpec => [](ivPending = Cardinality(LiveClosures) /\ (phase = "gone" => LiveClosures = {}))
  <1>1. InvokerInit => InvokerInv
    <2> SUFFICES ASSUME InvokerInit PROVE InvokerInv
      OBVIOUS
    <2>1. InvokerTypes
      BY InvokerConstants DEF InvokerInit, InvokerTypes, IdlePc, InvokerPcs, InvokerSteps, InvokerThreads
    <2>2. \A t \in InvokerThreads : inbox[t] = << >> /\ ivPc[t].at = "idle" /\ ivPc[t].run = 0
      BY DEF InvokerInit, IdlePc
    <2>3. \A k \in HolderKinds, t \in InvokerThreads : \A c : ~HoldsClosure(k, t, c)
      BY <2>2 DEF HoldsClosure
    <2>4. LiveClosures = {}
      BY <2>1, <2>3, LiveAreHeld
    <2> QED BY <2>1, <2>2, <2>3, <2>4, FS_EmptySet
            DEF InvokerInit, InvokerInv, ClosuresRight, RunsOne, ClosuresKnown, OneHolder, InboxOnce
  <1>2. InvokerInv /\ [InvokerNext]_invokerVars => InvokerInv'
    <2> SUFFICES ASSUME InvokerInv, [InvokerNext]_invokerVars PROVE InvokerInv'
      OBVIOUS
    <2>1. ASSUME UNCHANGED <<closures, ivPending, inbox, ivPc>>, phase' = "gone" => LiveClosures = {}
          PROVE  InvokerInv'
      <3>1. LiveClosures' = LiveClosures
        BY <2>1 DEF LiveClosures
      <3>2. InvokerTypes' /\ RunsOne' /\ InboxOnce'
        BY <2>1 DEF InvokerInv, ClosuresRight, InvokerTypes, RunsOne, InboxOnce
      <3>3. \A k, t, c : HoldsClosure(k, t, c)' <=> HoldsClosure(k, t, c)
        BY <2>1 DEF HoldsClosure
      <3>4. ClosuresKnown' /\ OneHolder'
        BY <2>1, <3>3 DEF InvokerInv, ClosuresRight, ClosuresKnown, OneHolder
      <3> QED BY <2>1, <3>1, <3>2, <3>4 DEF InvokerInv, ClosuresRight
    <2>2. CASE UNCHANGED invokerVars
      BY <2>1, <2>2 DEF invokerVars, InvokerInv
    <2>3. CASE \E t, to \in InvokerThreads : AsyncInvoke(t, to)
      BY <2>3, AsyncInvokeKeeps
    <2>4. CASE \E t \in InvokerThreads : InvokerStep(t)
      BY <2>4, PcStepKeeps, InvokePostKeeps, DropUncountKeeps, OnMessageKeeps, ClosureUncountKeeps DEF InvokerStep
    <2>5. CASE InvokerClear \/ InvokerDestroy \/ DestroyWait
      BY <2>1, <2>5 DEF InvokerClear, InvokerDestroy, DestroyWait, InvokerInv
    <2>6. CASE \E t \in InvokerThreads : ClearQueue(t)
      BY <2>6, DiscardKeeps DEF ClearQueue
    <2>7. CASE DestroyClearOwn
      <3>1. Owner \in InvokerThreads
        BY DEF InvokerThreads
      <3> QED BY <2>7, <3>1, DiscardKeeps DEF DestroyClearOwn
    <2>8. CASE DestroyLoad
      <3>1. Cardinality(LiveClosures) \in Nat /\ (Cardinality(LiveClosures) = 0 <=> LiveClosures = {})
        BY LiveAreFinite DEF InvokerInv, ClosuresRight
      <3>2. phase' = "gone" => ~ (ivPending > 0)
        BY <2>8 DEF DestroyLoad
      <3>3. phase' = "gone" => LiveClosures = {}
        BY <3>1, <3>2 DEF InvokerInv
      <3> QED BY <2>1, <2>8, <3>3 DEF DestroyLoad
    <2> QED BY <2>2, <2>3, <2>4, <2>5, <2>6, <2>7, <2>8 DEF InvokerNext, InvokerDestructor
  <1> QED BY <1>1, <1>2, PTL DEF InvokerSpec, InvokerInv

-----------------------------------------------------------------------------
(* The samples of a histogram, and a function that sums them up as Total does. *)
Bag(f) == IsFiniteSet(DOMAIN f) /\ f \in [DOMAIN f -> Nat]

Pick(s) == CHOOSE x \in s : TRUE

Sums(h, f, S) ==
  h = [s \in SUBSET S |-> IF s = {} THEN 0 ELSE f[Pick(s)] + h[s \ {Pick(s)}]]

(* Among finite sets that are wrong in some way there is a smallest one. *)
LEMMA SmallestSet ==
  ASSUME NEW F, F # {}, \A s \in F : IsFiniteSet(s)
  PROVE  \E s \in F : \A t \in F : Cardinality(s) <= Cardinality(t)
  <1> DEFINE T == { Cardinality(s) : s \in F }
  <1>1. T \subseteq Nat
    BY FS_CardinalityType
  <1>2. T # {}
    OBVIOUS
  <1>3. PICK n \in T : \A k \in T : n <= k
    BY <1>1, <1>2, LeastNumber
  <1> QED BY <1>3

LEMMA PickedSmaller ==
  ASSUME NEW S, IsFiniteSet(S), NEW s \in SUBSET S, NEW x \in s
  PROVE  /\ s \ {x} \in SUBSET S /\ IsFiniteSet(s)
         /\ Cardinality(s) \in Nat /\ Cardinality(s \ {x}) \in Nat
         /\ Cardinality(s \ {x}) = Cardinality(s) - 1
  <1>1. IsFiniteSet(s)
    BY FS_Subset
  <1>2. IsFiniteSet(s \ {x}) /\ Cardinality(s \ {x}) = Cardinality(s) - 1
    BY <1>1, FS_RemoveElement
  <1>3. Cardinality(s) \in Nat /\ Cardinality(s \ {x}) \in Nat
    BY <1>1, <1>2, FS_CardinalityType
  <1> QED BY <1>1, <1>2, <1>3

LEMMA PickIn ==
  ASSUME NEW s, s # {}
  PROVE  Pick(s) \in s
  BY DEF Pick

(* There is such a function, made for the sets of one size after the other. *)
UpTo(S, k) == { s \in SUBSET S : Cardinality(s) <= k }

SumsUpTo(h, f, S, k) ==
  h = [s \in UpTo(S, k) |-> IF s = {} THEN 0 ELSE f[Pick(s)] + h[s \ {Pick(s)}]]

LEMMA SumsExistUpTo ==
  ASSUME NEW f, NEW S, IsFiniteSet(S), NEW n \in Nat
  PROVE  \E h : SumsUpTo(h, f, S, n)
  <1> DEFINE T == { k \in Nat : ~ \E h : SumsUpTo(h, f, S, k) }
  <1>1. SUFFICES ASSUME T # {} PROVE FALSE
    OBVIOUS
  <1>2. PICK k \in T : \A j \in T : k <= j
    BY <1>1, LeastNumber
  <1>3. CASE k = 0
    <2> DEFINE h == [s \in UpTo(S, 0) |-> 0]
    <2>1. \A s \in UpTo(S, 0) : s = {}
      <3> SUFFICES ASSUME NEW s \in UpTo(S, 0)
                   PROVE  s = {}
        OBVIOUS
      <3>1. s \in SUBSET S /\ Cardinality(s) <= 0
        BY DEF UpTo
      <3>2. IsFiniteSet(s)
        BY <3>1, FS_Subset
      <3>3. Cardinality(s) \in Nat
        BY <3>2, FS_CardinalityType
      <3>4. Cardinality(s) = 0
        BY <3>1, <3>3
      <3> QED BY <3>2, <3>4, FS_EmptySet
    <2>2. SumsUpTo(h, f, S, 0)
      BY <2>1 DEF SumsUpTo
    <2> HIDE DEF h
    <2> QED BY <1>2, <1>3, <2>2
  <1>4. CASE k # 0
    <2>1. k \in Nat /\ k - 1 \in Nat /\ ~ (k <= k - 1)
      BY <1>2, <1>4
    <2>2. PICK g : SumsUpTo(g, f, S, k - 1)
      BY <1>2, <2>1
    <2> DEFINE body(p, s) == IF s = {} THEN 0 ELSE f[Pick(s)] + p[s \ {Pick(s)}]
               h == [s \in UpTo(S, k) |-> body(g, s)]
    <2>3. \A s \in UpTo(S, k) : s # {} => s \ {Pick(s)} \in UpTo(S, k - 1)
      <3> SUFFICES ASSUME NEW s \in UpTo(S, k), s # {}
                   PROVE  s \ {Pick(s)} \in UpTo(S, k - 1)
        OBVIOUS
      <3>1. s \in SUBSET S /\ Cardinality(s) <= k /\ Pick(s) \in s
        BY PickIn DEF UpTo
      <3>2. /\ s \ {Pick(s)} \in SUBSET S
            /\ Cardinality(s) \in Nat /\ Cardinality(s \ {Pick(s)}) = Cardinality(s) - 1
        BY <3>1, PickedSmaller
      <3> DEFINE c == Cardinality(s)
                 d == Cardinality(s \ {Pick(s)})
      <3>3. c \in Nat /\ d = c - 1 /\ c <= k
        BY <3>1, <3>2
      <3> HIDE DEF c, d
      <3>4. d <= k - 1
        BY <2>1, <3>3
      <3> QED BY <3>2, <3>4 DEF UpTo, d
    <2>4. \A s \in UpTo(S, k - 1) : h[s] = g[s]
      <3> SUFFICES ASSUME NEW s \in UpTo(S, k - 1)
                   PROVE  h[s] = g[s]
        OBVIOUS
      <3>1. g[s] = body(g, s)
        BY <2>2 DEF SumsUpTo
      <3>2. s \in UpTo(S, k)
        <4>1. s \in SUBSET S /\ Cardinality(s) <= k - 1
          BY DEF UpTo
        <4>2. Cardinality(s) \in Nat
          BY <4>1, FS_Subset, FS_CardinalityType
        <4>3. Cardinality(s) <= k
          BY <4>1, <4>2, <2>1
        <4> QED BY <4>1, <4>3 DEF UpTo
      <3> QED BY <3>1, <3>2
    <2>5. \A s \in UpTo(S, k) : body(g, s) = body(h, s)
      <3> SUFFICES ASSUME NEW s \in UpTo(S, k)
                   PROVE  body(g, s) = body(h, s)
        OBVIOUS
      <3> HIDE DEF h
      <3>1. s # {} => g[s \ {Pick(s)}] = h[s \ {Pick(s)}]
        BY <2>3, <2>4
      <3> QED BY <3>1
    <2>6. h = [s \in UpTo(S, k) |-> body(h, s)]
      BY <2>5
    <2>7. SumsUpTo(h, f, S, k)
      BY <2>6 DEF SumsUpTo
    <2> HIDE DEF h
    <2> QED BY <1>2, <2>7
  <1> QED BY <1>3, <1>4

LEMMA SumsExist ==
  ASSUME NEW f, NEW S, IsFiniteSet(S)
  PROVE  \E h : Sums(h, f, S)
  <1>1. Cardinality(S) \in Nat
    BY FS_CardinalityType
  <1>2. UpTo(S, Cardinality(S)) = SUBSET S
    BY FS_Subset DEF UpTo
  <1>3. PICK h : SumsUpTo(h, f, S, Cardinality(S))
    BY <1>1, SumsExistUpTo
  <1>4. Sums(h, f, S)
    BY <1>2, <1>3 DEF Sums, SumsUpTo
  <1> QED BY <1>4

LEMMA TotalSums ==
  ASSUME NEW f, IsFiniteSet(DOMAIN f)
  PROVE  \E h : Sums(h, f, DOMAIN f) /\ Total(f) = h[DOMAIN f]
  <1> DEFINE c == CHOOSE h : h = [s \in SUBSET (DOMAIN f) |->
         IF s = {} THEN 0
         ELSE f[CHOOSE x \in s : TRUE] + h[s \ {CHOOSE x \in s : TRUE}]]
  <1>0. \E h : h = [s \in SUBSET (DOMAIN f) |->
         IF s = {} THEN 0
         ELSE f[CHOOSE x \in s : TRUE] + h[s \ {CHOOSE x \in s : TRUE}]]
    <2>1. PICK g : Sums(g, f, DOMAIN f)
      BY SumsExist
    <2> QED BY <2>1 DEF Sums, Pick
  <1>1. Sums(c, f, DOMAIN f)
    BY <1>0 DEF Sums, Pick
  <1>2. Total(f) = c[DOMAIN f]
    BY DEF Total, FoldFunctionOnSet, MapThenFoldSet
  <1> HIDE DEF c
  <1> QED BY <1>1, <1>2

-----------------------------------------------------------------------------
(* The sum of a set, with its first element, and that it is a number. *)
LEMMA SumOf ==
  ASSUME NEW h, NEW f, NEW S, Sums(h, f, S), NEW s \in SUBSET S
  PROVE  h[s] = IF s = {} THEN 0 ELSE f[Pick(s)] + h[s \ {Pick(s)}]
  BY DEF Sums

LEMMA SumTyped ==
  ASSUME NEW h, NEW f, NEW S, IsFiniteSet(S), Sums(h, f, S), \A x \in S : f[x] \in Nat
  PROVE  \A s \in SUBSET S : h[s] \in Nat
  <1> DEFINE F == { s \in SUBSET S : h[s] \notin Nat }
  <1>1. SUFFICES ASSUME F # {} PROVE FALSE
    OBVIOUS
  <1>2. \A s \in F : IsFiniteSet(s)
    BY FS_Subset
  <1>3. PICK s \in F : \A t \in F : Cardinality(s) <= Cardinality(t)
    BY <1>1, <1>2, SmallestSet
  <1>4. h[s] = IF s = {} THEN 0 ELSE f[Pick(s)] + h[s \ {Pick(s)}]
    BY <1>3, SumOf
  <1>5. s # {} /\ Pick(s) \in s
    BY <1>3, <1>4, PickIn
  <1> DEFINE r == s \ {Pick(s)}
  <1>6. r \in SUBSET S /\ Cardinality(s) \in Nat /\ Cardinality(r) = Cardinality(s) - 1
    BY <1>3, <1>5, PickedSmaller
  <1>7. ~ (Cardinality(s) <= Cardinality(r))
    BY <1>6
  <1>8. h[r] \in Nat
    BY <1>3, <1>6, <1>7
  <1>9. f[Pick(s)] \in Nat
    BY <1>3, <1>5
  <1>10. h[s] = f[Pick(s)] + h[r]
    BY <1>4, <1>5
  <1> HIDE DEF r
  <1>11. h[s] \in Nat
    BY <1>8, <1>9, <1>10
  <1> QED BY <1>3, <1>11

(* The order does not matter: any element can be the first. *)
LEMMA AnyFirst ==
  ASSUME NEW h, NEW f, NEW S, IsFiniteSet(S), Sums(h, f, S), \A x \in S : f[x] \in Nat
  PROVE  \A s \in SUBSET S : \A x \in s : h[s] = f[x] + h[s \ {x}]
  <1> DEFINE F == { s \in SUBSET S : \E x \in s : h[s] # f[x] + h[s \ {x}] }
  <1>1. SUFFICES ASSUME F # {} PROVE FALSE
    OBVIOUS
  <1>2. \A s \in F : IsFiniteSet(s)
    BY FS_Subset
  <1>3. PICK s \in F : \A t \in F : Cardinality(s) <= Cardinality(t)
    BY <1>1, <1>2, SmallestSet
  <1>4. PICK x \in s : h[s] # f[x] + h[s \ {x}]
    BY <1>3
  <1> DEFINE c == Pick(s)
             r == s \ {c}
             q == s \ {x}
  <1>5. c \in s /\ h[s] = f[c] + h[r]
    BY <1>3, <1>4, SumOf, PickIn
  <1>6. x # c
    BY <1>4, <1>5
  <1>7. s \in SUBSET S
    BY <1>3
  <1>8. /\ r \in SUBSET S /\ q \in SUBSET S /\ Cardinality(s) \in Nat
        /\ Cardinality(r) = Cardinality(s) - 1 /\ Cardinality(q) = Cardinality(s) - 1
    BY <1>4, <1>5, <1>7, PickedSmaller
  <1>9. ~ (Cardinality(s) <= Cardinality(r)) /\ ~ (Cardinality(s) <= Cardinality(q))
    BY <1>8
  <1>10. r \notin F /\ q \notin F
    BY <1>3, <1>9
  <1>11. x \in r /\ c \in q
    BY <1>4, <1>5, <1>6
  <1>12. h[r] = f[x] + h[r \ {x}] /\ h[q] = f[c] + h[q \ {c}]
    BY <1>8, <1>10, <1>11
  <1>13. r \ {x} = q \ {c} /\ r \ {x} \in SUBSET S
    BY <1>8
  <1>14. h[r \ {x}] \in Nat /\ f[x] \in Nat /\ f[c] \in Nat
    BY <1>13, <1>7, <1>4, <1>5, SumTyped
  <1> DEFINE a == f[x]
             b == f[c]
             z == h[r \ {x}]
             hs == h[s]
             hr == h[r]
             hq == h[q]
  <1>15. hs = b + hr /\ hr = a + z /\ hq = b + z /\ a \in Nat /\ b \in Nat /\ z \in Nat
    BY <1>5, <1>12, <1>13, <1>14
  <1>16. hs # a + hq
    BY <1>4
  <1> HIDE DEF a, b, z, hs, hr, hq, c, r, q, F
  <1> QED BY <1>15, <1>16

(* Sums of the same numbers are the same. *)
LEMMA SameSums ==
  ASSUME NEW h, NEW f, NEW S, Sums(h, f, S), NEW g, NEW e, NEW U, Sums(g, e, U),
         NEW V, IsFiniteSet(V), V \subseteq S, V \subseteq U, \A x \in V : f[x] = e[x]
  PROVE  h[V] = g[V]
  <1> DEFINE F == { s \in SUBSET V : h[s] # g[s] }
  <1>1. SUFFICES ASSUME F # {} PROVE FALSE
    OBVIOUS
  <1>2. \A s \in F : IsFiniteSet(s)
    BY FS_Subset
  <1>3. PICK s \in F : \A t \in F : Cardinality(s) <= Cardinality(t)
    BY <1>1, <1>2, SmallestSet
  <1>4. /\ h[s] = IF s = {} THEN 0 ELSE f[Pick(s)] + h[s \ {Pick(s)}]
        /\ g[s] = IF s = {} THEN 0 ELSE e[Pick(s)] + g[s \ {Pick(s)}]
    <2>1. s \in SUBSET S /\ s \in SUBSET U
      BY <1>3
    <2>2. h[s] = IF s = {} THEN 0 ELSE f[Pick(s)] + h[s \ {Pick(s)}]
      BY <2>1, SumOf
    <2>3. g[s] = IF s = {} THEN 0 ELSE e[Pick(s)] + g[s \ {Pick(s)}]
      BY <2>1, SumOf
    <2> QED BY <2>2, <2>3
  <1>5. s # {} /\ Pick(s) \in s
    BY <1>3, <1>4, PickIn
  <1> DEFINE r == s \ {Pick(s)}
  <1>6. r \in SUBSET V /\ Cardinality(s) \in Nat /\ Cardinality(r) = Cardinality(s) - 1
    BY <1>3, <1>5, PickedSmaller
  <1>7. ~ (Cardinality(s) <= Cardinality(r))
    BY <1>6
  <1>8. h[r] = g[r]
    BY <1>3, <1>6, <1>7
  <1> QED BY <1>3, <1>4, <1>5, <1>8

LEMMA EmptyTotal ==
  Bag(<< >>) /\ Total(<< >>) = 0
  <1>1. DOMAIN << >> = {}
    OBVIOUS
  <1>2. Bag(<< >>)
    BY <1>1, FS_EmptySet DEF Bag
  <1>3. PICK h : Sums(h, << >>, DOMAIN << >>) /\ Total(<< >>) = h[DOMAIN << >>]
    BY <1>1, FS_EmptySet, TotalSums
  <1>4. h[{}] = 0
    BY <1>1, <1>3 DEF Sums
  <1> QED BY <1>1, <1>2, <1>3, <1>4

LEMMA TotalTyped ==
  ASSUME NEW f, Bag(f)
  PROVE  Total(f) \in Nat
  <1>1. PICK h : Sums(h, f, DOMAIN f) /\ Total(f) = h[DOMAIN f]
    BY TotalSums DEF Bag
  <1> QED BY <1>1, SumTyped DEF Bag

(* A sample that is counted is one more. *)
LEMMA CountedIs ==
  ASSUME NEW f, Bag(f), NEW b
  PROVE  /\ DOMAIN Counted(f, b) = DOMAIN f \union {b}
         /\ Counted(f, b)[b] = IF b \in DOMAIN f THEN f[b] + 1 ELSE 1
         /\ \A x \in DOMAIN f \ {b} : Counted(f, b)[x] = f[x]
         /\ Bag(Counted(f, b))
  <1>1. CASE b \in DOMAIN f
    <2>1. Counted(f, b) = [f EXCEPT ![b] = f[b] + 1] /\ DOMAIN f \union {b} = DOMAIN f
      BY <1>1 DEF Counted
    <2>2. f \in [DOMAIN f -> Nat] /\ f[b] + 1 \in Nat
      BY <1>1 DEF Bag
    <2>3. Counted(f, b) \in [DOMAIN f -> Nat]
      BY <2>1, <2>2
    <2> QED BY <1>1, <2>1, <2>2, <2>3 DEF Bag
  <1>2. CASE b \notin DOMAIN f
    <2>1. Counted(f, b) = [k \in DOMAIN f \union {b} |-> IF k = b THEN 1 ELSE f[k]]
      BY <1>2 DEF Counted
    <2>2. IsFiniteSet(DOMAIN f \union {b})
      BY FS_AddElement DEF Bag
    <2>3. Counted(f, b) \in [DOMAIN f \union {b} -> Nat]
      BY <2>1 DEF Bag
    <2> QED BY <1>2, <2>1, <2>2, <2>3 DEF Bag
  <1> QED BY <1>1, <1>2

LEMMA CountedTotal ==
  ASSUME NEW f, Bag(f), NEW b
  PROVE  Total(Counted(f, b)) = Total(f) + 1
  <1> DEFINE e == Counted(f, b)
             V == DOMAIN f \ {b}
  <1>1. /\ DOMAIN e = DOMAIN f \union {b} /\ \A x \in V : e[x] = f[x]
        /\ e[b] = (IF b \in DOMAIN f THEN f[b] + 1 ELSE 1)
        /\ Bag(e)
    BY CountedIs
  <1> HIDE DEF e
  <1>2. PICK h : Sums(h, f, DOMAIN f) /\ Total(f) = h[DOMAIN f]
    BY TotalSums DEF Bag
  <1>3. PICK g : Sums(g, e, DOMAIN e) /\ Total(e) = g[DOMAIN e]
    BY <1>1, TotalSums DEF Bag
  <1>4. IsFiniteSet(V) /\ V \subseteq DOMAIN f /\ V \subseteq DOMAIN e
    BY <1>1, FS_RemoveElement DEF Bag
  <1>5. h[V] = g[V]
    BY <1>1, <1>2, <1>3, <1>4, SameSums
  <1>6. g[DOMAIN e] = e[b] + g[DOMAIN e \ {b}]
    BY <1>1, <1>3, AnyFirst DEF Bag
  <1>7. DOMAIN e \ {b} = V
    BY <1>1
  <1>8. h[V] \in Nat
    BY <1>2, <1>4, SumTyped DEF Bag
  <1>9. CASE b \in DOMAIN f
    <2>1. h[DOMAIN f] = f[b] + h[V]
      BY <1>2, <1>9, AnyFirst DEF Bag
    <2>2. f[b] \in Nat
      BY <1>9 DEF Bag
    <2> DEFINE v == h[V]
    <2>3. Total(f) = f[b] + v /\ Total(e) = (f[b] + 1) + v /\ v \in Nat
      BY <1>1, <1>2, <1>3, <1>5, <1>6, <1>7, <1>8, <1>9, <2>1
    <2> HIDE DEF v, V
    <2> QED BY <2>2, <2>3 DEF e
  <1>10. CASE b \notin DOMAIN f
    <2>1. V = DOMAIN f
      BY <1>10
    <2> DEFINE v == h[V]
    <2>2. Total(f) = v /\ Total(e) = 1 + v /\ v \in Nat
      BY <1>1, <1>2, <1>3, <1>5, <1>6, <1>7, <1>8, <1>10, <2>1
    <2> HIDE DEF v, V
    <2> QED BY <2>2 DEF e
  <1> QED BY <1>9, <1>10

-----------------------------------------------------------------------------
(* The pointer of a call site or of a thread is none, or that of the histogram
   of its name in the map. *)
Points(h, map, domain, n) == h # NoHist => h = <<map, n>> /\ h \in domain

LoggerOk(l, map, domain) ==
  /\ DOMAIN l = {"at", "name", "value", "ptr"}
  /\ l.at # "idle" => l.name \in HistNames
  /\ l.at = "add" => l.ptr # NoHist
  /\ Points(l.ptr, map, domain, l.name)

Held(map, hs, n) == IF <<map, n>> \in DOMAIN hs THEN Total(hs[<<map, n>>]) ELSE 0

Count(ev, held) ==
  /\ DOMAIN ev = {"added", "capped", "taken"}
  /\ ev.added \in Nat /\ ev.capped \in Nat /\ ev.taken \in Nat
  /\ ev.added = ev.taken + ev.capped + held

Pointers(map, domain, si, lo) ==
  /\ map = 0 => domain = {}
  /\ DOMAIN si = HistNames /\ \A n \in HistNames : Points(si[n], map, domain, n)
  /\ DOMAIN lo = Loggers /\ \A t \in Loggers : LoggerOk(lo[t], map, domain)

Counts(map, hs, ev) ==
  /\ \A h \in DOMAIN hs : Bag(hs[h])
  /\ DOMAIN ev = HistNames /\ \A n \in HistNames : Count(ev[n], Held(map, hs, n))

MetricInv ==
  /\ Pointers(g_map, DOMAIN hists, site, logger)
  /\ Counts(g_map, hists, events)
  /\ \A n \in collector : n \in HistNames /\ <<g_map, n>> \in DOMAIN hists

LEMMA RestingOk ==
  ASSUME NEW map, NEW d
  PROVE  LoggerOk(Resting, map, d)
  BY DEF LoggerOk, Resting, Points

LEMMA PairNotNull ==
  ASSUME NEW a, NEW b
  PROVE  <<a, b>> # NoHist
  BY DEF NoHist

LEMMA MetricsStart ==
  ASSUME MetricInit
  PROVE  MetricInv
  <1>1. DOMAIN hists = {}
    BY DEF MetricInit
  <1>2. Pointers(g_map, DOMAIN hists, site, logger)
    BY <1>1, RestingOk DEF MetricInit, Pointers, Points
  <1>3. Counts(g_map, hists, events)
    <2>1. \A n \in HistNames : Held(g_map, hists, n) = 0
      BY <1>1 DEF Held
    <2>2. \A n \in HistNames : events[n] = [added |-> 0, capped |-> 0, taken |-> 0]
      BY DEF MetricInit
    <2>3. \A n \in HistNames : Count(events[n], 0)
      BY <2>2 DEF Count
    <2>4. DOMAIN events = HistNames
      BY DEF MetricInit
    <2> QED BY <1>1, <2>1, <2>3, <2>4 DEF Counts
  <1>4. collector = {}
    BY DEF MetricInit
  <1> QED BY <1>2, <1>3, <1>4 DEF MetricInv

LEMMA EnableLooksKeeps ==
  ASSUME MetricInv, NEW t \in Enablers, EnableLooks(t)
  PROVE  MetricInv'
  <1>1. UNCHANGED <<g_map, hists, site, logger, collector, events>>
    BY DEF EnableLooks
  <1> QED BY <1>1 DEF MetricInv

LEMMA EnableSwapsKeeps ==
  ASSUME MetricInv, NEW t \in Enablers, EnableSwaps(t)
  PROVE  MetricInv'
  <1>1. UNCHANGED <<hists, site, logger, collector, events>>
    BY DEF EnableSwaps
  <1>2. CASE g_map' = g_map
    BY <1>1, <1>2 DEF MetricInv
  <1>3. CASE g_map' # g_map
    <2>1. DOMAIN hists = {}
      BY <1>3 DEF EnableSwaps, MetricInv, Pointers
    <2>2. Pointers(g_map', DOMAIN hists, site, logger)
      <3>1. \A n \in HistNames : Points(site[n], g_map', DOMAIN hists, n)
        BY <2>1 DEF MetricInv, Pointers, Points
      <3>2. \A u \in Loggers : LoggerOk(logger[u], g_map', DOMAIN hists)
        BY <2>1 DEF MetricInv, Pointers, LoggerOk, Points
      <3> QED BY <2>1, <3>1, <3>2 DEF MetricInv, Pointers
    <2>3. \A n \in HistNames : Held(g_map', hists, n) = 0 /\ Held(g_map, hists, n) = 0
      BY <2>1 DEF Held
    <2>4. Counts(g_map', hists, events)
      BY <2>3 DEF MetricInv, Counts
    <2> QED BY <1>1, <2>1, <2>2, <2>4 DEF MetricInv
  <1> QED BY <1>2, <1>3

(* A logger goes on, the histograms stay. *)
LEMMA LoggerMoves ==
  ASSUME NEW map, NEW d, NEW si, NEW lo, Pointers(map, d, si, lo),
         NEW t \in Loggers, NEW l, LoggerOk(l, map, d)
  PROVE  Pointers(map, d, si, [lo EXCEPT ![t] = l])
  BY DEF Pointers

LEMMA LogStartsKeeps ==
  ASSUME MetricInv, NEW t \in Loggers, NEW n \in HistNames, NEW v \in MetricValues,
         NEW slow \in BOOLEAN, LogStarts(t, n, v, slow)
  PROVE  MetricInv'
  <1>1. UNCHANGED <<g_map, hists, site, collector, events>>
    BY DEF LogStarts
  <1> DEFINE a == IF ~slow /\ site[n] # NoHist THEN "add" ELSE IF slow THEN "find" ELSE "find_cache"
             p == IF slow THEN NoHist ELSE site[n]
             l == [at |-> a, name |-> n, value |-> v, ptr |-> p]
  <1>2. logger' = [logger EXCEPT ![t] = l]
    BY DEF LogStarts
  <1>3. Points(site[n], g_map, DOMAIN hists, n)
    BY DEF MetricInv, Pointers
  <1>4. Points(p, g_map, DOMAIN hists, n)
    BY <1>3 DEF Points
  <1>5. a = "add" => p # NoHist
    OBVIOUS
  <1>6. DOMAIN l = {"at", "name", "value", "ptr"} /\ l.at = a /\ l.name = n /\ l.ptr = p
    OBVIOUS
  <1> HIDE DEF a, p, l
  <1>7. LoggerOk(l, g_map, DOMAIN hists)
    BY <1>4, <1>5, <1>6 DEF LoggerOk
  <1>8. Pointers(g_map, DOMAIN hists, site, logger')
    BY <1>2, <1>7, LoggerMoves DEF MetricInv
  <1> QED BY <1>1, <1>8 DEF MetricInv

(* There are more histograms, all empty. *)
LEMMA MorePointers ==
  ASSUME NEW map, NEW d, NEW si, NEW lo, Pointers(map, d, si, lo),
         NEW e, d \subseteq e, map # 0
  PROVE  Pointers(map, e, si, lo)
  BY DEF Pointers, LoggerOk, Points

LEMMA MoreCounts ==
  ASSUME NEW map, NEW hs, NEW ev, Counts(map, hs, ev), NEW h, h \notin DOMAIN hs
  PROVE  Counts(map, [k \in DOMAIN hs \union {h} |-> IF k = h THEN << >> ELSE hs[k]], ev)
  <1> DEFINE gs == [k \in DOMAIN hs \union {h} |-> IF k = h THEN << >> ELSE hs[k]]
  <1>1. DOMAIN gs = DOMAIN hs \union {h} /\ gs[h] = << >> /\ \A k \in DOMAIN hs : gs[k] = hs[k]
    OBVIOUS
  <1> HIDE DEF gs
  <1>2. \A n \in HistNames : Held(map, gs, n) = Held(map, hs, n)
    <2> SUFFICES ASSUME NEW n \in HistNames
                 PROVE  Held(map, gs, n) = Held(map, hs, n)
      OBVIOUS
    <2>1. CASE <<map, n>> = h
      <3>1. Held(map, gs, n) = Total(<< >>) /\ Held(map, hs, n) = 0
        BY <1>1, <2>1 DEF Held
      <3> QED BY <3>1, EmptyTotal
    <2>2. CASE <<map, n>> # h
      BY <1>1, <2>2 DEF Held
    <2> QED BY <2>1, <2>2
  <1>3. \A k \in DOMAIN gs : Bag(gs[k])
    BY <1>1, EmptyTotal DEF Counts
  <1>4. Counts(map, gs, ev)
    BY <1>2, <1>3 DEF Counts
  <1> QED BY <1>4 DEF gs

LEMMA LogFindsKeeps ==
  ASSUME MetricInv, NEW t \in Loggers, LogFinds(t)
  PROVE  MetricInv'
  <1> DEFINE l == logger[t]
             h == <<g_map, l.name>>
  <1>1. UNCHANGED <<g_map, site, collector, events>> /\ l.at \in {"find", "find_cache"}
    BY DEF LogFinds
  <1>2. LoggerOk(l, g_map, DOMAIN hists) /\ t \in DOMAIN logger
    BY DEF MetricInv, Pointers
  <1>3. l.name \in HistNames
    BY <1>1, <1>2 DEF LoggerOk
  <1>4. CASE g_map = 0
    <2> DEFINE m == IF l.at = "find" THEN Resting ELSE [l EXCEPT !.at = "cache"]
    <2>1. logger' = [logger EXCEPT ![t] = m] /\ UNCHANGED hists
      BY <1>4 DEF LogFinds
    <2>2. LoggerOk(m, g_map, DOMAIN hists)
      <3>1. CASE l.at = "find"
        BY <3>1, RestingOk
      <3>2. CASE l.at # "find"
        <4>1. m = [l EXCEPT !.at = "cache"]
          BY <3>2
        <4>2. DOMAIN m = DOMAIN l /\ m.name = l.name /\ m.ptr = l.ptr /\ m.at = "cache"
          BY <1>2, <4>1 DEF LoggerOk
        <4>3. m.at # "add"
          BY <4>2
        <4> HIDE DEF m, l
        <4> QED BY <1>2, <1>3, <4>2, <4>3 DEF LoggerOk
      <3> QED BY <3>1, <3>2
    <2> HIDE DEF m
    <2>3. Pointers(g_map, DOMAIN hists, site, logger')
      BY <2>1, <2>2, LoggerMoves DEF MetricInv
    <2> QED BY <1>1, <2>1, <2>3 DEF MetricInv
  <1>5. CASE g_map # 0
    <2> DEFINE a == IF l.at = "find" THEN "add" ELSE "cache"
               m == [[l EXCEPT !.at = a] EXCEPT !.ptr = h]
               gs == [k \in DOMAIN hists \union {h} |-> IF k = h THEN << >> ELSE hists[k]]
    <2>1. /\ hists' = IF h \in DOMAIN hists THEN hists ELSE gs
          /\ logger' = [logger EXCEPT ![t].at = IF @ = "find" THEN "add" ELSE "cache",
                                      ![t].ptr = h]
          /\ collector = {}
      BY <1>5 DEF LogFinds
    <2>2. logger' = [logger EXCEPT ![t] = m]
      BY <1>2, <2>1
    <2>3. h \in DOMAIN hists' /\ DOMAIN hists \subseteq DOMAIN hists'
      BY <2>1
    <2>4. Counts(g_map, hists', events)
      <3>1. CASE h \in DOMAIN hists
        BY <2>1, <3>1 DEF MetricInv
      <3>2. CASE h \notin DOMAIN hists
        <4>1. Counts(g_map, gs, events)
          BY <3>2, MoreCounts DEF MetricInv
        <4> QED BY <2>1, <3>2, <4>1
      <3> QED BY <3>1, <3>2
    <2>5. LoggerOk(m, g_map, DOMAIN hists')
      <3>1. DOMAIN m = DOMAIN l /\ m.name = l.name /\ m.ptr = h
        BY <1>2 DEF LoggerOk
      <3>2. h # NoHist
        BY PairNotNull
      <3> HIDE DEF m
      <3> QED BY <1>2, <1>3, <2>3, <3>1, <3>2 DEF LoggerOk, Points
    <2>6. Pointers(g_map, DOMAIN hists', site, logger)
      BY <1>5, <2>3, MorePointers DEF MetricInv
    <2> HIDE DEF m
    <2>7. Pointers(g_map, DOMAIN hists', site, logger')
      BY <2>2, <2>5, <2>6, LoggerMoves
    <2> QED BY <1>1, <2>1, <2>4, <2>7 DEF MetricInv
  <1> QED BY <1>4, <1>5

LEMMA LogCachesKeeps ==
  ASSUME MetricInv, NEW t \in Loggers, LogCaches(t)
  PROVE  MetricInv'
  <1> DEFINE l == logger[t]
             m == IF l.ptr = NoHist THEN Resting ELSE [l EXCEPT !.at = "add"]
             d == DOMAIN hists
             h == IF site[l.name] = NoHist THEN l.ptr ELSE site[l.name]
  <1>1. /\ UNCHANGED <<g_map, hists, collector, events>> /\ l.at = "cache"
        /\ logger' = [logger EXCEPT ![t] = m]
        /\ site' = [site EXCEPT ![l.name] = IF @ = NoHist THEN l.ptr ELSE @]
    BY DEF LogCaches
  <1>2. LoggerOk(l, g_map, d) /\ DOMAIN site = HistNames
    BY DEF MetricInv, Pointers
  <1>3. l.name \in HistNames /\ Points(l.ptr, g_map, d, l.name)
    BY <1>1, <1>2 DEF LoggerOk
  <1>4. LoggerOk(m, g_map, d)
    <2>1. CASE l.ptr = NoHist
      BY <2>1, RestingOk
    <2>2. CASE l.ptr # NoHist
      <3>1. m = [l EXCEPT !.at = "add"]
        BY <2>2
      <3>2. DOMAIN m = DOMAIN l /\ m.name = l.name /\ m.ptr = l.ptr
        BY <1>2, <3>1 DEF LoggerOk
      <3> HIDE DEF m, l
      <3> QED BY <1>2, <1>3, <2>2, <3>2 DEF LoggerOk
    <2> QED BY <2>1, <2>2
  <1>5. site' = [site EXCEPT ![l.name] = h]
    BY <1>1, <1>2, <1>3
  <1>6. Points(h, g_map, d, l.name)
    BY <1>3 DEF MetricInv, Pointers, Points
  <1> HIDE DEF h, m, l, d
  <1>7. Pointers(g_map, d, site', logger)
    <2>1. \A n \in HistNames : Points(site'[n], g_map, d, n)
      BY <1>2, <1>3, <1>5, <1>6 DEF MetricInv, Pointers, d
    <2>2. DOMAIN site' = HistNames
      BY <1>2, <1>5
    <2> QED BY <2>1, <2>2 DEF MetricInv, Pointers, d
  <1>8. Pointers(g_map, d, site', logger')
    BY <1>1, <1>4, <1>7, LoggerMoves
  <1> QED BY <1>1, <1>8 DEF MetricInv, d

(* One histogram and the counts of its name change. *)
LEMMA CountsChange ==
  ASSUME NEW map, NEW hs, NEW ev, Counts(map, hs, ev), NEW n \in HistNames, <<map, n>> \in DOMAIN hs,
         NEW gs, Bag(gs[<<map, n>>]), DOMAIN gs = DOMAIN hs,
         \A k \in DOMAIN hs : k # <<map, n>> => gs[k] = hs[k],
         NEW e, Count(e, Total(gs[<<map, n>>]))
  PROVE  Counts(map, gs, [ev EXCEPT ![n] = e])
  <1> DEFINE h == <<map, n>>
             eu == [ev EXCEPT ![n] = e]
             bag == gs[h]
  <1>1. DOMAIN gs = DOMAIN hs /\ gs[h] = bag /\ \A k \in DOMAIN hs : k # h => gs[k] = hs[k]
    OBVIOUS
  <1>2. DOMAIN eu = HistNames /\ eu[n] = e /\ \A k \in HistNames : k # n => eu[k] = ev[k]
    BY DEF Counts
  <1> HIDE DEF eu
  <1>3. \A k \in HistNames : Count(eu[k], Held(map, gs, k))
    <2> SUFFICES ASSUME NEW k \in HistNames
                 PROVE  Count(eu[k], Held(map, gs, k))
      OBVIOUS
    <2>1. CASE k = n
      <3>1. Held(map, gs, k) = Total(bag)
        BY <1>1, <2>1 DEF Held
      <3> QED BY <1>2, <2>1, <3>1
    <2>2. CASE k # n
      <3>1. Held(map, gs, k) = Held(map, hs, k)
        BY <1>1, <2>2 DEF Held
      <3> QED BY <1>2, <2>2, <3>1 DEF Counts
    <2> QED BY <2>1, <2>2
  <1>4. \A k \in DOMAIN gs : Bag(gs[k])
    BY <1>1 DEF Counts
  <1>5. Counts(map, gs, eu)
    BY <1>2, <1>3, <1>4 DEF Counts
  <1> QED BY <1>5 DEF eu

LEMMA LogAddsKeeps ==
  ASSUME MetricInv, NEW t \in Loggers, LogAdds(t)
  PROVE  MetricInv'
  <1> DEFINE l == logger[t]
             n == l.name
             h == <<g_map, n>>
             bag == hists[l.ptr]
             b == Bucket(l.value)
             c == IF Full(bag, b) THEN 1 ELSE 0
             e == events[n]
             f == [[e EXCEPT !.added = e.added + 1] EXCEPT !.capped = e.capped + c]
             after == IF Full(bag, b) THEN bag ELSE Counted(bag, b)
  <1>1. /\ UNCHANGED <<g_map, site, collector>> /\ l.at = "add"
        /\ hists' = IF Full(bag, b) THEN hists ELSE [hists EXCEPT ![l.ptr] = Counted(bag, b)]
        /\ events' = [events EXCEPT ![n].added = @ + 1, ![n].capped = @ + c]
        /\ logger' = [logger EXCEPT ![t] = Resting]
    BY DEF LogAdds
  <1>2. LoggerOk(l, g_map, DOMAIN hists)
    BY DEF MetricInv, Pointers
  <1>3. n \in HistNames /\ l.ptr = h /\ h \in DOMAIN hists
    BY <1>1, <1>2 DEF LoggerOk, Points
  <1>4. Bag(bag) /\ Count(e, Total(bag)) /\ DOMAIN events = HistNames
    BY <1>3 DEF MetricInv, Counts, Held
  <1>5. events' = [events EXCEPT ![n] = f]
    <2>1. DOMAIN e = {"added", "capped", "taken"}
      BY <1>4 DEF Count
    <2> QED BY <1>1, <1>3, <1>4, <2>1
  <1>6. /\ DOMAIN f = DOMAIN e
        /\ f.added = e.added + 1 /\ f.capped = e.capped + c /\ f.taken = e.taken
    BY <1>4 DEF Count
  <1>7. c \in Nat
    OBVIOUS
  <1>8. Bag(after) /\ Total(after) = Total(bag) + 1 - c
    <2>1. Total(bag) \in Nat
      BY <1>4, TotalTyped
    <2>2. CASE Full(bag, b)
      BY <1>4, <2>1, <2>2
    <2>3. CASE ~ Full(bag, b)
      <3>1. Bag(Counted(bag, b)) /\ Total(Counted(bag, b)) = Total(bag) + 1
        BY <1>4, CountedIs, CountedTotal
      <3>2. c = 0 /\ after = Counted(bag, b)
        BY <2>3
      <3> HIDE DEF bag, b, c, after
      <3> QED BY <2>1, <3>1, <3>2
    <2> QED BY <2>2, <2>3
  <1>9. /\ DOMAIN hists' = DOMAIN hists /\ hists'[h] = after
        /\ \A k \in DOMAIN hists : k # h => hists'[k] = hists[k]
    BY <1>1, <1>3
  <1>10. Count(f, Total(after))
    <2>1. Total(bag) \in Nat
      BY <1>4, TotalTyped
    <2> DEFINE x == Total(bag)
               y == Total(after)
    <2>2. x \in Nat /\ y = x + 1 - c
      BY <1>8, <2>1
    <2>3. /\ e.added \in Nat /\ e.capped \in Nat /\ e.taken \in Nat
          /\ e.added = e.taken + e.capped + x
      BY <1>4 DEF Count
    <2> HIDE DEF x, y, c, f, e, after
    <2>4. /\ f.added \in Nat /\ f.capped \in Nat /\ f.taken \in Nat
          /\ f.added = f.taken + f.capped + y
      BY <1>6, <1>7, <2>2, <2>3
    <2>5. DOMAIN f = {"added", "capped", "taken"}
      BY <1>4, <1>6 DEF Count
    <2> QED BY <2>4, <2>5 DEF Count, y
  <1> HIDE DEF after, f, e, bag, b, c
  <1>11. Counts(g_map, hists', events')
    BY <1>3, <1>5, <1>8, <1>9, <1>10, CountsChange DEF MetricInv
  <1>12. DOMAIN hists' = DOMAIN hists
    BY <1>9
  <1>13. Pointers(g_map, DOMAIN hists, site, logger')
    BY <1>1, RestingOk, LoggerMoves DEF MetricInv
  <1> QED BY <1>1, <1>11, <1>12, <1>13 DEF MetricInv

LEMMA CollectStartsKeeps ==
  ASSUME MetricInv, CollectStarts
  PROVE  MetricInv'
  BY DEF MetricInv, CollectStarts

LEMMA CollectTakesKeeps ==
  ASSUME MetricInv, NEW n \in HistNames, CollectTakes(n)
  PROVE  MetricInv'
  <1> DEFINE h == <<g_map, n>>
             bag == hists[h]
             e == events[n]
             f == [e EXCEPT !.taken = e.taken + Total(bag)]
  <1>1. /\ UNCHANGED <<g_map, site, logger>> /\ n \in collector
        /\ hists' = [hists EXCEPT ![h] = << >>]
        /\ events' = [events EXCEPT ![n].taken = @ + Total(bag)]
        /\ collector' = collector \ {n}
    BY DEF CollectTakes
  <1>2. h \in DOMAIN hists
    BY <1>1 DEF MetricInv
  <1>3. Bag(bag) /\ Count(e, Total(bag)) /\ DOMAIN events = HistNames
    BY <1>2 DEF MetricInv, Counts, Held
  <1>4. events' = [events EXCEPT ![n] = f]
    BY <1>1, <1>3 DEF Count
  <1>5. /\ DOMAIN f = {"added", "capped", "taken"}
        /\ f.added = e.added /\ f.capped = e.capped /\ f.taken = e.taken + Total(bag)
    BY <1>3 DEF Count
  <1>6. Total(bag) \in Nat
    BY <1>3, TotalTyped
  <1>7. Count(f, Total(<< >>))
    <2> DEFINE x == Total(bag)
    <2>1. /\ e.added \in Nat /\ e.capped \in Nat /\ e.taken \in Nat
          /\ e.added = e.taken + e.capped + x
      BY <1>3 DEF Count
    <2>2. x \in Nat /\ f.taken = e.taken + x
      BY <1>5, <1>6
    <2> HIDE DEF x, f, e
    <2>3. /\ f.added \in Nat /\ f.capped \in Nat /\ f.taken \in Nat
          /\ f.added = f.taken + f.capped + 0
      BY <1>5, <2>1, <2>2
    <2> QED BY <1>5, <2>3, EmptyTotal DEF Count
  <1> HIDE DEF bag, e, f
  <1>8. /\ DOMAIN hists' = DOMAIN hists /\ hists'[h] = << >>
        /\ \A k \in DOMAIN hists : k # h => hists'[k] = hists[k]
    BY <1>1, <1>2
  <1>9. Counts(g_map, hists', events')
    BY <1>2, <1>4, <1>7, <1>8, EmptyTotal, CountsChange DEF MetricInv
  <1> QED BY <1>1, <1>8, <1>9 DEF MetricInv

LEMMA MetricsStep ==
  ASSUME MetricInv, [MetricNext]_metricVars
  PROVE  MetricInv'
  <1>1. ASSUME NEW t \in Enablers, EnableLooks(t) \/ EnableSwaps(t)
        PROVE  MetricInv'
    BY <1>1, EnableLooksKeeps, EnableSwapsKeeps
  <1>2. ASSUME NEW t \in Loggers, NEW n \in HistNames, NEW v \in MetricValues, NEW slow \in BOOLEAN,
               LogStarts(t, n, v, slow)
        PROVE  MetricInv'
    BY <1>2, LogStartsKeeps
  <1>3. ASSUME NEW t \in Loggers, LogFinds(t) \/ LogCaches(t) \/ LogAdds(t)
        PROVE  MetricInv'
    BY <1>3, LogFindsKeeps, LogCachesKeeps, LogAddsKeeps
  <1>4. ASSUME NEW n \in HistNames, CollectTakes(n)
        PROVE  MetricInv'
    BY <1>4, CollectTakesKeeps
  <1>5. CASE UNCHANGED metricVars
    BY <1>5 DEF MetricInv, metricVars
  <1> QED BY <1>1, <1>2, <1>3, <1>4, <1>5, CollectStartsKeeps DEF MetricNext

LEMMA MetricsCount ==
  ASSUME MetricInv
  PROVE  SamplesCountedOnce
  <1> SUFFICES ASSUME NEW n \in HistNames
               PROVE  /\ \A h \in {site[n]} \union { logger[t].ptr : t \in { x \in Loggers : logger[x].name = n } } :
                          h # NoHist => h = <<g_map, n>> /\ h \in DOMAIN hists
                      /\ events[n].added = events[n].taken + events[n].capped
                          + (IF <<g_map, n>> \in DOMAIN hists THEN Total(hists[<<g_map, n>>]) ELSE 0)
    BY DEF SamplesCountedOnce
  <1>1. Points(site[n], g_map, DOMAIN hists, n)
    BY DEF MetricInv, Pointers
  <1>2. \A t \in Loggers : logger[t].name = n => Points(logger[t].ptr, g_map, DOMAIN hists, n)
    BY DEF MetricInv, Pointers, LoggerOk
  <1>3. Count(events[n], Held(g_map, hists, n))
    BY DEF MetricInv, Counts
  <1> QED BY <1>1, <1>2, <1>3 DEF Points, Count, Held

LEMMA SamplesAlwaysCounted == MetricSpec => []SamplesCountedOnce
  <1>1. MetricSpec => []MetricInv
    BY MetricsStart, MetricsStep, PTL DEF MetricSpec
  <1> QED BY <1>1, MetricsCount, PTL

-----------------------------------------------------------------------------
(* Captures of trace events. *)
Going == {"waits", "woken", "writes"}

ControlSteps == {"idle", "started", "active", "wake", "join", "shutdown", "unhook"}

Adders == Tracers \union {"control"}

Added == [by : Adders, checked : 0 .. MaxCaptures, capture : 0 .. MaxCaptures, active : BOOLEAN]

Typed(ad, cap, wr, te) ==
  /\ ad \in Seq(Added)
  /\ cap \in 0 .. MaxCaptures
  /\ wr \in [1 .. MaxCaptures -> Seq(Nat)]
  /\ te \in Seq(Nat)

Controls == [at : ControlSteps, next : {"idle", "shutdown"}]
Logs == [at : Going \union {"none", "ended"}, last : BOOLEAN, batch : Seq(Nat)]

TracerTypes ==
  /\ traceLogger \in BOOLEAN /\ active \in BOOLEAN /\ fileOpen \in BOOLEAN /\ shutdown \in BOOLEAN
  /\ control \in Controls
  /\ logging \in Logs
  /\ Typed(added, capture, written, trace_events)

(* What the thread that controls the captures has done tells what the others do. *)
Stage(step, act, open, log, last, sh) ==
  \/ step = "idle" /\ act /\ open /\ log \in Going /\ ~last /\ ~sh
  \/ step \in {"idle", "shutdown", "unhook"} /\ ~act /\ ~open /\ log = "none" /\ ~last /\ ~sh
  \/ step = "started" /\ ~act /\ open /\ log = "none" /\ ~last /\ ~sh
  \/ step = "active" /\ act /\ open /\ log = "none" /\ ~last /\ ~sh
  \/ step = "wake" /\ ~act /\ open /\ log \in Going /\ ~last /\ ~sh
  \/ step = "join" /\ ~act /\ open /\ log \in Going /\ ~last /\ sh
  \/ step = "join" /\ ~act /\ open /\ log \in {"woken", "writes"} /\ last /\ ~sh
  \/ step = "join" /\ ~act /\ ~open /\ log = "ended" /\ last /\ ~sh

(* The events in s are added ones of capture c, each there once. *)
Listed(s, ad, c) ==
  /\ IsInjective(s)
  /\ \A e \in ToSet(s) : e \in 1 .. Len(ad) /\ ad[e].capture = c

Apart(s, t) == ToSet(s) \intersect ToSet(t) = {}

InFiles(ad, wr, bt, te) ==
  \A c \in 1 .. MaxCaptures : Listed(wr[c], ad, c) /\ Apart(wr[c], bt) /\ Apart(wr[c], te)

Pending(ad, cap, bt, te) == Listed(bt, ad, cap) /\ Listed(te, ad, cap) /\ Apart(bt, te)

(* An event of an active capture is in the file, or waits to be written. *)
Place(e, a, cap, open, wr, bt, te) ==
  /\ a.capture <= cap
  /\ a.active => \/ a.capture >= 1 /\ e \in ToSet(wr[a.capture])
                 \/ open /\ a.capture = cap /\ e \in ToSet(bt) \union ToSet(te)

AllPlaced(ad, cap, open, wr, bt, te) ==
  \A e \in 1 .. Len(ad) : Place(e, ad[e], cap, open, wr, bt, te)

Data(ad, cap, open, wr, bt, te) ==
  /\ InFiles(ad, wr, bt, te)
  /\ Pending(ad, cap, bt, te)
  /\ AllPlaced(ad, cap, open, wr, bt, te)

(* What is written last is all that has to be in the file. *)
LastBatch(log, te, ad) ==
  log.last /\ log.at = "writes" => \A e \in ToSet(te) : ~ ad[e].active

(* Only a logger that is there is about to get events. *)
Watched(tr, lg) ==
  /\ tr \in [Tracers -> 0 .. MaxCaptures]
  /\ \A t \in Tracers : tr[t] # 0 => lg

TracerInv ==
  /\ TracerTypes
  /\ Stage(control.at, active, fileOpen, logging.at, logging.last, shutdown)
  /\ logging.at # "writes" => logging.batch = << >>
  /\ fileOpen => capture >= 1 /\ traceLogger
  /\ Watched(tracing, traceLogger)
  /\ Data(added, capture, fileOpen, written, logging.batch, trace_events)
  /\ LastBatch(logging, trace_events, added)

-----------------------------------------------------------------------------
LEMMA AddedToSet ==
  ASSUME NEW s \in Seq(Nat), NEW x \in Nat
  PROVE  ToSet(Append(s, x)) = ToSet(s) \union {x}
  <1> DEFINE t == Append(s, x)
             n == Len(s)
  <1>1. n \in Nat /\ DOMAIN s = 1 .. n /\ DOMAIN t = 1 .. n + 1 /\ t[n + 1] = x /\ \A i \in 1 .. n : t[i] = s[i]
    OBVIOUS
  <1> HIDE DEF t, n
  <1>2. \A i \in DOMAIN t : i \in DOMAIN s \/ i = n + 1
    BY <1>1
  <1>3. DOMAIN s \subseteq DOMAIN t /\ n + 1 \in DOMAIN t
    BY <1>1
  <1>4. ToSet(t) = ToSet(s) \union {x}
    BY <1>1, <1>2, <1>3 DEF ToSet
  <1> QED BY <1>4 DEF t

LEMMA AddedOnce ==
  ASSUME NEW s \in Seq(Nat), NEW x \in Nat, IsInjective(s), x \notin ToSet(s)
  PROVE  IsInjective(Append(s, x))
  <1> DEFINE t == Append(s, x)
             n == Len(s)
  <1>1. n \in Nat /\ DOMAIN s = 1 .. n /\ DOMAIN t = 1 .. n + 1 /\ t[n + 1] = x /\ \A i \in 1 .. n : t[i] = s[i]
    OBVIOUS
  <1> HIDE DEF t, n
  <1>2. \A i \in DOMAIN t : i \in DOMAIN s \/ i = n + 1
    BY <1>1
  <1>3. \A i \in DOMAIN s : s[i] # x
    BY DEF ToSet
  <1>4. IsInjective(t)
    BY <1>1, <1>2, <1>3 DEF IsInjective
  <1> QED BY <1>4 DEF t

LEMMA JoinedToSet ==
  ASSUME NEW s \in Seq(Nat), NEW r \in Seq(Nat)
  PROVE  ToSet(s \o r) = ToSet(s) \union ToSet(r)
  <1> DEFINE t == s \o r
             n == Len(s)
             m == Len(r)
  <1>1. /\ n \in Nat /\ m \in Nat /\ DOMAIN s = 1 .. n /\ DOMAIN r = 1 .. m /\ DOMAIN t = 1 .. n + m
        /\ (\A i \in 1 .. n : t[i] = s[i]) /\ \A i \in 1 .. n + m : i > n => t[i] = r[i - n]
    OBVIOUS
  <1> HIDE DEF t, n, m
  <1>2. ASSUME NEW i \in DOMAIN t
        PROVE  t[i] \in ToSet(s) \union ToSet(r)
    <2>1. CASE i <= n
      <3>1. i \in DOMAIN s
        BY <1>1, <2>1
      <3> QED BY <1>1, <3>1 DEF ToSet
    <2>2. CASE i > n
      <3>1. i - n \in DOMAIN r
        BY <1>1, <2>2
      <3> QED BY <1>1, <2>2, <3>1 DEF ToSet
    <2> QED BY <1>1, <2>1, <2>2
  <1>3. ASSUME NEW i \in DOMAIN s
        PROVE  s[i] \in ToSet(t)
    <2>1. i \in DOMAIN t
      BY <1>1
    <2> QED BY <1>1, <2>1 DEF ToSet
  <1>4. ASSUME NEW i \in DOMAIN r
        PROVE  r[i] \in ToSet(t)
    <2>1. i + n \in DOMAIN t /\ i + n > n /\ (i + n) - n = i
      BY <1>1
    <2>2. t[i + n] = r[i]
      BY <1>1, <2>1
    <2> QED BY <2>1, <2>2 DEF ToSet
  <1>5. ToSet(t) = ToSet(s) \union ToSet(r)
    BY <1>2, <1>3, <1>4 DEF ToSet
  <1> QED BY <1>5 DEF t

LEMMA JoinedOnce ==
  ASSUME NEW s \in Seq(Nat), NEW r \in Seq(Nat), IsInjective(s), IsInjective(r), Apart(s, r)
  PROVE  IsInjective(s \o r)
  <1> DEFINE t == s \o r
             n == Len(s)
             m == Len(r)
  <1>1. /\ n \in Nat /\ m \in Nat /\ DOMAIN s = 1 .. n /\ DOMAIN r = 1 .. m /\ DOMAIN t = 1 .. n + m
        /\ (\A i \in 1 .. n : t[i] = s[i]) /\ \A i \in 1 .. n + m : i > n => t[i] = r[i - n]
    OBVIOUS
  <1> HIDE DEF t, n, m
  <1>2. \A i \in DOMAIN s, j \in DOMAIN r : s[i] # r[j]
    BY DEF Apart, ToSet
  <1>3. \A i \in DOMAIN t : (i \in DOMAIN s /\ t[i] = s[i]) \/ (i - n \in DOMAIN r /\ t[i] = r[i - n])
    <2> SUFFICES ASSUME NEW i \in DOMAIN t
                 PROVE  (i \in DOMAIN s /\ t[i] = s[i]) \/ (i - n \in DOMAIN r /\ t[i] = r[i - n])
      OBVIOUS
    <2> QED BY <1>1
  <1>4. ASSUME NEW i \in DOMAIN t, NEW j \in DOMAIN t, t[i] = t[j]
        PROVE  i = j
    <2>1. CASE i \in DOMAIN s /\ t[i] = s[i] /\ j \in DOMAIN s /\ t[j] = s[j]
      BY <1>4, <2>1 DEF IsInjective
    <2>2. CASE i - n \in DOMAIN r /\ t[i] = r[i - n] /\ j - n \in DOMAIN r /\ t[j] = r[j - n]
      <3>1. i - n = j - n
        BY <1>4, <2>2 DEF IsInjective
      <3>2. i \in Int /\ j \in Int
        BY <1>1
      <3> QED BY <1>1, <3>1, <3>2
    <2> QED BY <1>2, <1>3, <1>4, <2>1, <2>2
  <1>5. IsInjective(t)
    BY <1>4 DEF IsInjective
  <1> QED BY <1>5 DEF t

LEMMA NothingListed ==
  /\ << >> \in Seq(Nat) /\ ToSet(<< >>) = {}
  /\ \A ad, c : Listed(<< >>, ad, c)
  /\ \A s : Apart(s, << >>) /\ Apart(<< >>, s)
  <1>1. << >> \in Seq(Nat) /\ DOMAIN << >> = {}
    OBVIOUS
  <1>2. ToSet(<< >>) = {}
    BY <1>1 DEF ToSet
  <1> QED BY <1>1, <1>2 DEF Listed, IsInjective, Apart

LEMMA AddedTyped ==
  ASSUME NEW ad \in Seq(Added), NEW e \in 1 .. Len(ad)
  PROVE  /\ ad[e] \in Added /\ ad[e].capture \in 0 .. MaxCaptures /\ ad[e].active \in BOOLEAN
         /\ ad[e].checked \in 0 .. MaxCaptures
  <1>1. ad[e] \in Added
    OBVIOUS
  <1> QED BY <1>1 DEF Added

(* An event is added. *)
LEMMA StillListed ==
  ASSUME NEW s, NEW ad, NEW bd, NEW c, Listed(s, ad, c), Len(ad) \in Nat, Len(bd) = Len(ad) + 1,
         \A e \in 1 .. Len(ad) : bd[e] = ad[e]
  PROVE  Listed(s, bd, c)
  <1>1. \A e \in 1 .. Len(ad) : e \in 1 .. Len(bd)
    <2> DEFINE n == Len(ad)
    <2>1. n \in Nat /\ Len(bd) = n + 1
      OBVIOUS
    <2> HIDE DEF n
    <2>2. \A e \in 1 .. n : e \in 1 .. n + 1
      BY <2>1
    <2> QED BY <2>1, <2>2 DEF n
  <1> QED BY <1>1 DEF Listed

LEMMA DataAdds ==
  ASSUME NEW ad, NEW cap, NEW open \in BOOLEAN, NEW wr, NEW bt, NEW te, Typed(ad, cap, wr, te),
         Data(ad, cap, open, wr, bt, te), NEW act \in BOOLEAN, act => open, NEW by, NEW checked
  PROVE  Data(Append(ad, [by |-> by, checked |-> checked, capture |-> cap, active |-> act]),
              cap, open, wr, bt, Append(te, Len(ad) + 1))
  <1> DEFINE new == [by |-> by, checked |-> checked, capture |-> cap, active |-> act]
             bd == Append(ad, new)
             n == Len(ad)
             tf == Append(te, n + 1)
  <1>1. /\ n \in Nat /\ Len(bd) = n + 1 /\ bd[n + 1] = new /\ \A e \in 1 .. n : bd[e] = ad[e]
    BY DEF Typed
  <1>2. new.capture = cap /\ new.active = act
    OBVIOUS
  <1>3. te \in Seq(Nat) /\ n + 1 \in Nat /\ cap \in Nat
    BY <1>1 DEF Typed
  <1> HIDE DEF new, bd, n
  <1>4. ToSet(tf) = ToSet(te) \union {n + 1}
    BY <1>3, AddedToSet
  <1>5. \A s, c : Listed(s, ad, c) => Listed(s, bd, c) /\ n + 1 \notin ToSet(s)
    <2> SUFFICES ASSUME NEW s, NEW c, Listed(s, ad, c)
                 PROVE  Listed(s, bd, c) /\ n + 1 \notin ToSet(s)
      OBVIOUS
    <2>1. Listed(s, bd, c)
      BY <1>1, StillListed DEF n
    <2>2. \A e \in ToSet(s) : e \in 1 .. n
      BY DEF Listed, n
    <2> QED BY <1>1, <2>1, <2>2
  <1>6. InFiles(bd, wr, bt, tf)
    BY <1>4, <1>5 DEF Data, InFiles, Apart
  <1>7. Pending(bd, cap, bt, tf)
    <2>1. Listed(te, ad, cap) /\ Listed(bt, ad, cap) /\ Apart(bt, te)
      BY DEF Data, Pending
    <2>2. IsInjective(tf)
      BY <1>3, <1>5, <2>1, AddedOnce DEF Listed
    <2>3. n + 1 \in 1 .. Len(bd)
      BY <1>1
    <2>4. \A e \in ToSet(tf) : e \in 1 .. Len(bd) /\ bd[e].capture = cap
      <3>1. \A e \in ToSet(te) : e \in 1 .. Len(bd) /\ bd[e].capture = cap
        BY <1>5, <2>1 DEF Listed
      <3>2. bd[n + 1].capture = cap
        BY <1>1, <1>2
      <3> QED BY <1>4, <2>3, <3>1, <3>2
    <2> QED BY <1>4, <1>5, <2>1, <2>2, <2>4 DEF Pending, Listed, Apart
  <1>8. AllPlaced(bd, cap, open, wr, bt, tf)
    <2> SUFFICES ASSUME NEW e \in 1 .. n + 1
                 PROVE  Place(e, bd[e], cap, open, wr, bt, tf)
      BY <1>1 DEF AllPlaced
    <2>1. CASE e \in 1 .. n
      <3>1. Place(e, ad[e], cap, open, wr, bt, te)
        BY <2>1 DEF Data, AllPlaced, n
      <3> QED BY <1>1, <1>4, <2>1, <3>1 DEF Place
    <2>2. CASE e = n + 1
      BY <1>1, <1>2, <1>3, <1>4, <2>2 DEF Place
    <2> QED BY <1>1, <2>1, <2>2
  <1>9. Data(bd, cap, open, wr, bt, tf)
    BY <1>6, <1>7, <1>8 DEF Data
  <1> QED BY <1>9 DEF bd, new, n

(* The batch is swapped out. *)
LEMMA DataSwaps ==
  ASSUME NEW ad, NEW cap, NEW open, NEW wr, NEW te, Data(ad, cap, open, wr, << >>, te)
  PROVE  Data(ad, cap, open, wr, te, << >>)
  <1>1. InFiles(ad, wr, te, << >>)
    BY NothingListed DEF Data, InFiles
  <1>2. Pending(ad, cap, te, << >>)
    BY NothingListed DEF Data, Pending
  <1>3. AllPlaced(ad, cap, open, wr, te, << >>)
    BY NothingListed DEF Data, AllPlaced, Place
  <1> QED BY <1>1, <1>2, <1>3 DEF Data

(* The batch is written. *)
LEMMA DataWrites ==
  ASSUME NEW ad, NEW cap, NEW open, NEW wr, NEW bt \in Seq(Nat), NEW te, Typed(ad, cap, wr, te),
         Data(ad, cap, open, wr, bt, te), cap >= 1
  PROVE  Data(ad, cap, open, [wr EXCEPT ![cap] = @ \o bt], << >>, te)
  <1> DEFINE w == wr[cap] \o bt
             wt == [wr EXCEPT ![cap] = w]
  <1>1. cap \in 1 .. MaxCaptures /\ wr[cap] \in Seq(Nat) /\ cap \in Nat
    BY CapturesBounded DEF Typed
  <1>2. DOMAIN wr = 1 .. MaxCaptures /\ wt[cap] = w /\ \A c \in 1 .. MaxCaptures : c # cap => wt[c] = wr[c]
    BY <1>1 DEF Typed
  <1>3. ToSet(w) = ToSet(wr[cap]) \union ToSet(bt)
    BY <1>1, JoinedToSet
  <1>4. /\ Listed(wr[cap], ad, cap) /\ Listed(bt, ad, cap)
        /\ Apart(wr[cap], bt) /\ Apart(wr[cap], te) /\ Apart(bt, te)
    BY <1>1 DEF Data, InFiles, Pending
  <1>5. IsInjective(w)
    BY <1>1, <1>4, JoinedOnce DEF Listed
  <1> HIDE DEF w, wt
  <1>6. Listed(w, ad, cap) /\ Apart(w, te)
    BY <1>3, <1>4, <1>5 DEF Listed, Apart
  <1>7. InFiles(ad, wt, << >>, te)
    BY <1>2, <1>6, NothingListed DEF Data, InFiles
  <1>8. Pending(ad, cap, << >>, te)
    BY NothingListed DEF Data, Pending
  <1>9. AllPlaced(ad, cap, open, wt, << >>, te)
    <2> SUFFICES ASSUME NEW e \in 1 .. Len(ad)
                 PROVE  Place(e, ad[e], cap, open, wt, << >>, te)
      BY DEF AllPlaced
    <2>1. Place(e, ad[e], cap, open, wr, bt, te)
      BY DEF Data, AllPlaced
    <2>2. ad[e].capture \in 0 .. MaxCaptures
      BY AddedTyped DEF Typed
    <2>3. CASE ad[e].capture = cap
      <3>1. ad[e].active => e \in ToSet(wr[cap]) \union ToSet(bt) \/ (open /\ e \in ToSet(te))
        BY <2>1, <2>3 DEF Place
      <3>2. ad[e].active => e \in ToSet(wt[cap]) \/ (open /\ e \in ToSet(te))
        BY <1>2, <1>3, <3>1
      <3>3. ad[e].capture <= cap /\ ad[e].capture >= 1
        BY <2>3, <1>1
      <3> QED BY <2>3, <3>2, <3>3 DEF Place
    <2>4. CASE ad[e].capture # cap
      <3>1. ad[e].capture >= 1 => wt[ad[e].capture] = wr[ad[e].capture]
        BY <1>2, <2>2, <2>4, CapturesBounded
      <3> QED BY <2>1, <2>4, <3>1 DEF Place
    <2> QED BY <2>3, <2>4
  <1>10. Data(ad, cap, open, wt, << >>, te)
    BY <1>7, <1>8, <1>9 DEF Data
  <1> QED BY <1>10 DEF wt, w

(* The file is closed: nothing that has to be in it waits. *)
LEMMA DataCloses ==
  ASSUME NEW ad, NEW cap, NEW wr, NEW te, Data(ad, cap, TRUE, wr, << >>, te),
         \A e \in ToSet(te) : ~ ad[e].active
  PROVE  Data(ad, cap, FALSE, wr, << >>, te)
  <1>1. AllPlaced(ad, cap, FALSE, wr, << >>, te)
    BY NothingListed DEF Data, AllPlaced, Place
  <1> QED BY <1>1 DEF Data

(* What no file has to hold is dropped. *)
LEMMA DataClears ==
  ASSUME NEW ad, NEW cap, NEW wr, NEW te, Data(ad, cap, FALSE, wr, << >>, te)
  PROVE  Data(ad, cap, FALSE, wr, << >>, << >>)
  <1>1. InFiles(ad, wr, << >>, << >>)
    BY NothingListed DEF Data, InFiles
  <1>2. Pending(ad, cap, << >>, << >>)
    BY NothingListed DEF Data, Pending
  <1>3. AllPlaced(ad, cap, FALSE, wr, << >>, << >>)
    BY NothingListed DEF Data, AllPlaced, Place
  <1> QED BY <1>1, <1>2, <1>3 DEF Data

(* The next capture begins. *)
LEMMA DataOpens ==
  ASSUME NEW ad, NEW cap, NEW wr, NEW te, Typed(ad, cap, wr, te), Data(ad, cap, FALSE, wr, << >>, te)
  PROVE  Data(ad, cap + 1, TRUE, wr, << >>, << >>)
  <1>1. InFiles(ad, wr, << >>, << >>)
    BY NothingListed DEF Data, InFiles
  <1>2. Pending(ad, cap + 1, << >>, << >>)
    BY NothingListed DEF Data, Pending
  <1>3. AllPlaced(ad, cap + 1, TRUE, wr, << >>, << >>)
    <2> SUFFICES ASSUME NEW e \in 1 .. Len(ad)
                 PROVE  Place(e, ad[e], cap + 1, TRUE, wr, << >>, << >>)
      BY DEF AllPlaced
    <2>1. Place(e, ad[e], cap, FALSE, wr, << >>, te)
      BY DEF Data, AllPlaced
    <2>2. ad[e].capture \in 0 .. MaxCaptures
      BY AddedTyped DEF Typed
    <2>4. cap \in 0 .. MaxCaptures
      BY DEF Typed
    <2>3. ad[e].capture <= cap + 1
      BY <2>1, <2>2, <2>4, CapturesBounded DEF Place
    <2> QED BY <2>1, <2>3 DEF Place
  <1> QED BY <1>1, <1>2, <1>3 DEF Data

LEMMA ControlsTyped ==
  /\ ControlIdle \in Controls /\ ControlIdle.at = "idle"
  /\ \A s \in ControlSteps : /\ [ControlIdle EXCEPT !.at = s] \in Controls
                             /\ [ControlIdle EXCEPT !.at = s].at = s
  /\ \A c \in Controls : c.at \in ControlSteps /\ c.next \in {"idle", "shutdown"}
  BY DEF ControlIdle, Controls, ControlSteps

LEMMA LogsTyped ==
  /\ NoLogging \in Logs /\ NoLogging.at = "none" /\ NoLogging.last = FALSE /\ NoLogging.batch = << >>
  /\ \A l \in Logs : l.at \in Going \union {"none", "ended"} /\ l.last \in BOOLEAN /\ l.batch \in Seq(Nat)
  <1>1. << >> \in Seq(Nat)
    BY NothingListed
  <1>2. NoLogging \in Logs
    BY <1>1 DEF NoLogging, Logs
  <1>3. NoLogging.at = "none" /\ NoLogging.last = FALSE /\ NoLogging.batch = << >>
    BY DEF NoLogging
  <1>4. \A l \in Logs : l.at \in Going \union {"none", "ended"} /\ l.last \in BOOLEAN /\ l.batch \in Seq(Nat)
    BY DEF Logs
  <1> QED BY <1>2, <1>3, <1>4

LEMMA LogAt ==
  ASSUME NEW l \in Logs, NEW s \in Going \union {"none", "ended"}
  PROVE  /\ [l EXCEPT !.at = s] \in Logs /\ [l EXCEPT !.at = s].at = s
         /\ [l EXCEPT !.at = s].last = l.last /\ [l EXCEPT !.at = s].batch = l.batch
  BY DEF Logs

LEMMA LogLast ==
  ASSUME NEW l \in Logs, NEW b \in BOOLEAN
  PROVE  /\ [l EXCEPT !.last = b] \in Logs /\ [l EXCEPT !.last = b].at = l.at
         /\ [l EXCEPT !.last = b].last = b /\ [l EXCEPT !.last = b].batch = l.batch
  BY DEF Logs

LEMMA LogBatch ==
  ASSUME NEW l \in Logs, NEW b \in Seq(Nat)
  PROVE  /\ [l EXCEPT !.batch = b] \in Logs /\ [l EXCEPT !.batch = b].at = l.at
         /\ [l EXCEPT !.batch = b].last = l.last /\ [l EXCEPT !.batch = b].batch = b
  BY DEF Logs

LEMMA TracerStarts ==
  ASSUME TracerInit
  PROVE  TracerInv
  <1>1. Typed(added, capture, written, trace_events)
    BY NothingListed, CapturesBounded DEF TracerInit, Typed
  <1>2. TracerTypes
    BY <1>1, ControlsTyped, LogsTyped DEF TracerInit, TracerTypes
  <1>3. Stage(control.at, active, fileOpen, logging.at, logging.last, shutdown)
    BY ControlsTyped, LogsTyped DEF TracerInit, Stage
  <1>4. Data(added, capture, fileOpen, written, logging.batch, trace_events)
    <2>1. added = << >> /\ trace_events = << >> /\ logging.batch = << >>
      BY LogsTyped DEF TracerInit
    <2>2. \A c \in 1 .. MaxCaptures : written[c] = << >>
      BY DEF TracerInit
    <2>3. InFiles(added, written, << >>, << >>)
      BY <2>1, <2>2, NothingListed DEF InFiles
    <2>4. Pending(added, capture, << >>, << >>)
      BY NothingListed DEF Pending
    <2>5. AllPlaced(added, capture, fileOpen, written, << >>, << >>)
      BY <2>1 DEF AllPlaced
    <2> QED BY <2>1, <2>3, <2>4, <2>5 DEF Data
  <1>5. Watched(tracing, traceLogger)
    BY CapturesBounded DEF TracerInit, Watched
  <1> QED BY <1>2, <1>3, <1>4, <1>5, LogsTyped DEF TracerInv, TracerInit, LastBatch

-----------------------------------------------------------------------------
(* An event is added by a thread that found the capture active, or by the one
   that controls it. *)
LEMMA EventAdded ==
  ASSUME TracerInv, NEW by \in Adders, NEW checked \in 0 .. MaxCaptures, AddEvent(by, checked),
         UNCHANGED <<capture, written>>,
         logging.last /\ logging.at = "writes" => ~ active
  PROVE  /\ Typed(added, capture, written, trace_events)'
         /\ Data(added', capture, fileOpen, written, logging.batch, trace_events')
         /\ LastBatch(logging, trace_events', added')
  <1> DEFINE new == [by |-> by, checked |-> checked, capture |-> capture, active |-> active]
             n == Len(added)
  <1>1. added' = Append(added, new) /\ trace_events' = Append(trace_events, n + 1)
    BY DEF AddEvent
  <1>2. Typed(added, capture, written, trace_events) /\ active \in BOOLEAN /\ fileOpen \in BOOLEAN
    BY DEF TracerInv, TracerTypes
  <1>3. active => fileOpen
    BY DEF TracerInv, Stage
  <1>4. new \in Added /\ new.active = active
    BY <1>2 DEF Typed, Added
  <1>5. added \in Seq(Added) /\ n \in Nat /\ trace_events \in Seq(Nat)
    BY <1>2 DEF Typed
  <1>6. Typed(added, capture, written, trace_events)'
    <2>1. added' \in Seq(Added)
      <3> HIDE DEF new
      <3> QED BY <1>1, <1>4, <1>5
    <2>2. trace_events' \in Seq(Nat)
      <3> HIDE DEF n
      <3> QED BY <1>1, <1>5
    <2> QED BY <1>2, <2>1, <2>2 DEF Typed
  <1>7. Data(added', capture, fileOpen, written, logging.batch, trace_events')
    BY <1>1, <1>2, <1>3, DataAdds DEF TracerInv
  <1>8. LastBatch(logging, trace_events', added')
    <2> SUFFICES ASSUME logging.last /\ logging.at = "writes", NEW e \in ToSet(trace_events')
                 PROVE  ~ added'[e].active
      BY DEF LastBatch
    <2>1. ToSet(trace_events') = ToSet(trace_events) \union {n + 1}
      BY <1>1, <1>5, AddedToSet
    <2>2. CASE e \in ToSet(trace_events)
      <3>1. e \in 1 .. Len(added) /\ ~ added[e].active
        BY <2>2 DEF TracerInv, LastBatch, Data, Pending, Listed
      <3> HIDE DEF new
      <3>2. added'[e] = added[e]
        BY <1>1, <1>4, <1>5, <3>1
      <3> QED BY <3>1, <3>2
    <2>3. CASE e = n + 1
      <3> HIDE DEF new
      <3>1. added'[e] = new
        BY <1>1, <1>4, <1>5, <2>3
      <3> QED BY <1>4, <3>1
    <2> QED BY <2>1, <2>2, <2>3
  <1> QED BY <1>6, <1>7, <1>8

(* Only the threads and the control move. *)
LEMMA OnlyControl ==
  ASSUME TracerInv, UNCHANGED <<trace_events, capture, fileOpen, logging, added, written>>,
         traceLogger' \in BOOLEAN, active' \in BOOLEAN, shutdown' \in BOOLEAN, control' \in Controls,
         Stage(control'.at, active', fileOpen, logging.at, logging.last, shutdown'),
         traceLogger => traceLogger', Watched(tracing, traceLogger)'
  PROVE  TracerInv'
  <1>1. TracerTypes'
    BY DEF TracerInv, TracerTypes, Typed
  <1>2. (fileOpen => capture >= 1 /\ traceLogger)'
    BY DEF TracerInv
  <1>3. Stage(control.at, active, fileOpen, logging.at, logging.last, shutdown)'
    BY DEF Stage
  <1>4. (logging.at # "writes" => logging.batch = << >>)'
    BY DEF TracerInv
  <1>5. Data(added, capture, fileOpen, written, logging.batch, trace_events)'
    BY DEF TracerInv
  <1>6. LastBatch(logging, trace_events, added)'
    BY DEF TracerInv
  <1> QED BY <1>1, <1>2, <1>3, <1>4, <1>5, <1>6 DEF TracerInv

LEMMA TraceEventKeeps ==
  ASSUME TracerInv, NEW t \in Tracers, TraceEvent(t)
  PROVE  TracerInv'
  <1>1. UNCHANGED <<traceLogger, active, trace_events, capture, fileOpen, shutdown, logging,
                    control, added, written>> /\ active /\ tracing' = [tracing EXCEPT ![t] = capture]
    BY DEF TraceEvent
  <1>2. traceLogger
    BY <1>1 DEF TracerInv, Stage
  <1>3. TracerTypes /\ Stage(control.at, active, fileOpen, logging.at, logging.last, shutdown)
    BY DEF TracerInv
  <1>4. Watched(tracing, traceLogger)'
    BY <1>1, <1>2 DEF TracerInv, TracerTypes, Typed, Watched
  <1> QED BY <1>1, <1>2, <1>3, <1>4, OnlyControl DEF TracerTypes

LEMMA AddTraceEventKeeps ==
  ASSUME TracerInv, NEW t \in Tracers, AddTraceEvent(t)
  PROVE  TracerInv'
  <1>1. /\ UNCHANGED <<traceLogger, active, capture, fileOpen, shutdown, logging, control, written>>
        /\ AddEvent(t, tracing[t]) /\ traceLogger /\ tracing' = [tracing EXCEPT ![t] = 0]
        /\ t \in Adders /\ tracing[t] \in 0 .. MaxCaptures
    BY DEF AddTraceEvent, TracerInv, Watched, Adders
  <1>2. logging.last /\ logging.at = "writes" => ~ active
    BY DEF TracerInv, Stage
  <1>3. /\ Typed(added, capture, written, trace_events)'
        /\ Data(added', capture, fileOpen, written, logging.batch, trace_events')
        /\ LastBatch(logging, trace_events', added')
    BY <1>1, <1>2, EventAdded
  <1>4. TracerTypes'
    BY <1>1, <1>3 DEF TracerInv, TracerTypes
  <1>5. Stage(control.at, active, fileOpen, logging.at, logging.last, shutdown)'
    BY <1>1 DEF TracerInv
  <1>6. (logging.at # "writes" => logging.batch = << >>)' /\ (fileOpen => capture >= 1 /\ traceLogger)'
    BY <1>1 DEF TracerInv
  <1>7. /\ Data(added, capture, fileOpen, written, logging.batch, trace_events)'
        /\ LastBatch(logging, trace_events, added)' /\ traceLogger'
    BY <1>1, <1>3
  <1>8. Watched(tracing, traceLogger)'
    BY <1>1, CapturesBounded DEF TracerInv, Watched
  <1> QED BY <1>4, <1>5, <1>6, <1>7, <1>8 DEF TracerInv

LEMMA SetupKeeps ==
  ASSUME TracerInv, SetupInternalTracer
  PROVE  TracerInv'
  <1>1. UNCHANGED <<active, trace_events, capture, fileOpen, shutdown, logging, control, tracing,
                    added, written>> /\ traceLogger' = TRUE
    BY DEF SetupInternalTracer
  <1>2. TracerTypes /\ Stage(control.at, active, fileOpen, logging.at, logging.last, shutdown)
    BY DEF TracerInv
  <1>3. Watched(tracing, traceLogger)'
    BY <1>1 DEF TracerInv, Watched
  <1> QED BY <1>1, <1>2, <1>3, OnlyControl DEF TracerTypes

LEMMA CaptureOpens ==
  ASSUME TracerInv, OpenCapture
  PROVE  TracerInv'
  <1>1. /\ UNCHANGED <<traceLogger, active, shutdown, logging, tracing, added, written>>
        /\ control = ControlIdle /\ traceLogger /\ fileOpen = FALSE /\ capture < MaxCaptures
        /\ capture' = capture + 1 /\ fileOpen' = TRUE /\ trace_events' = << >>
        /\ control' = [ControlIdle EXCEPT !.at = "started"]
    BY DEF OpenCapture, TracerInv, TracerTypes
  <1>2. control.at = "idle" /\ control'.at = "started" /\ control' \in Controls
    BY <1>1, ControlsTyped DEF ControlSteps
  <1>3. ~ active /\ logging.at = "none" /\ ~ logging.last /\ ~ shutdown /\ logging.batch = << >>
    BY <1>1, <1>2 DEF TracerInv, Stage
  <1>4. Typed(added, capture, written, trace_events)
    BY DEF TracerInv, TracerTypes
  <1>5. capture \in 0 .. MaxCaptures
    BY <1>4 DEF Typed
  <1>6. Data(added, capture, FALSE, written, << >>, trace_events)
    BY <1>1, <1>3 DEF TracerInv
  <1>7. Data(added, capture + 1, TRUE, written, << >>, << >>)
    BY <1>4, <1>6, DataOpens
  <1>8. Typed(added, capture, written, trace_events)'
    <2>1. capture' \in 0 .. MaxCaptures
      BY <1>1, <1>5, CapturesBounded
    <2> QED BY <1>1, <1>4, <2>1, NothingListed DEF Typed
  <1>9. TracerTypes'
    BY <1>1, <1>2, <1>8 DEF TracerInv, TracerTypes
  <1>10. Stage(control.at, active, fileOpen, logging.at, logging.last, shutdown)'
    BY <1>1, <1>2, <1>3 DEF Stage
  <1>11. (fileOpen => capture >= 1 /\ traceLogger)'
    BY <1>1, <1>5, CapturesBounded
  <1>12. Data(added, capture, fileOpen, written, logging.batch, trace_events)'
    BY <1>1, <1>3, <1>7
  <1>13. LastBatch(logging, trace_events, added)'
    BY <1>1, <1>3 DEF LastBatch
  <1> QED BY <1>1, <1>3, <1>9, <1>10, <1>11, <1>12, <1>13 DEF TracerInv

LEMMA ActivateKeeps ==
  ASSUME TracerInv, Activate
  PROVE  TracerInv'
  <1>1. /\ UNCHANGED <<traceLogger, trace_events, capture, fileOpen, shutdown, logging, tracing,
                       added, written>>
        /\ control = [ControlIdle EXCEPT !.at = "started"]
        /\ active' = TRUE /\ control' = [ControlIdle EXCEPT !.at = "active"]
    BY DEF Activate
  <1>2. control.at = "started" /\ control'.at = "active" /\ control' \in Controls
    BY <1>1, ControlsTyped DEF ControlSteps
  <1>3. Stage(control'.at, active', fileOpen, logging.at, logging.last, shutdown')
    BY <1>1, <1>2 DEF TracerInv, Stage
  <1> QED BY <1>1, <1>2, <1>3, OnlyControl DEF TracerInv, TracerTypes

LEMMA SpawnLoggingKeeps ==
  ASSUME TracerInv, SpawnLogging
  PROVE  TracerInv'
  <1>1. /\ UNCHANGED <<traceLogger, active, capture, fileOpen, shutdown, tracing, written>>
        /\ control = [ControlIdle EXCEPT !.at = "active"] /\ control' = ControlIdle
        /\ AddEvent("control", capture) /\ logging' = [NoLogging EXCEPT !.at = "waits"]
        /\ "control" \in Adders /\ capture \in 0 .. MaxCaptures
    BY DEF SpawnLogging, Adders, TracerInv, TracerTypes, Typed
  <1>2. control.at = "active" /\ control'.at = "idle" /\ control' \in Controls
    BY <1>1, ControlsTyped DEF ControlSteps
  <1>3. active /\ fileOpen /\ logging.at = "none" /\ ~ logging.last /\ ~ shutdown /\ logging.batch = << >>
    BY <1>2 DEF TracerInv, Stage
  <1>4. /\ logging' \in Logs /\ logging'.at = "waits" /\ logging'.last = FALSE
        /\ logging'.batch = << >>
    BY <1>1, LogsTyped, LogAt DEF Going
  <1>5. /\ Typed(added, capture, written, trace_events)'
        /\ Data(added', capture, fileOpen, written, logging.batch, trace_events')
    BY <1>1, <1>3, EventAdded
  <1>6. TracerTypes'
    BY <1>1, <1>2, <1>4, <1>5 DEF TracerInv, TracerTypes
  <1>7. Stage(control.at, active, fileOpen, logging.at, logging.last, shutdown)'
    BY <1>1, <1>2, <1>3, <1>4 DEF Stage, Going
  <1>8. Data(added, capture, fileOpen, written, logging.batch, trace_events)'
    BY <1>1, <1>3, <1>4, <1>5
  <1>9. LastBatch(logging, trace_events, added)'
    BY <1>4 DEF LastBatch
  <1> QED BY <1>1, <1>4, <1>6, <1>7, <1>8, <1>9 DEF TracerInv

LEMMA StopKeeps ==
  ASSUME TracerInv, NEW next \in {"idle", "shutdown"}, Stop(next)
  PROVE  TracerInv'
  <1>1. /\ UNCHANGED <<traceLogger, capture, fileOpen, shutdown, logging, tracing, written>>
        /\ control = ControlIdle /\ active' = FALSE /\ traceLogger
    BY DEF Stop
  <1>2. control.at = "idle"
    BY <1>1, ControlsTyped
  <1>3. CASE active
    <2>1. /\ AddEvent("control", capture) /\ control' = [at |-> "wake", next |-> next]
          /\ "control" \in Adders /\ capture \in 0 .. MaxCaptures
      BY <1>3 DEF Stop, Adders, TracerInv, TracerTypes, Typed
    <2>2. control' \in Controls /\ control'.at = "wake"
      BY <2>1 DEF Controls, ControlSteps
    <2>3. fileOpen /\ logging.at \in Going /\ ~ logging.last /\ ~ shutdown
      BY <1>2, <1>3 DEF TracerInv, Stage
    <2>4. /\ Typed(added, capture, written, trace_events)'
          /\ Data(added', capture, fileOpen, written, logging.batch, trace_events')
          /\ LastBatch(logging, trace_events', added')
      BY <1>1, <2>1, <2>3, EventAdded
    <2>5. TracerTypes'
      BY <1>1, <2>2, <2>4 DEF TracerInv, TracerTypes
    <2>6. Stage(control.at, active, fileOpen, logging.at, logging.last, shutdown)'
      BY <1>1, <2>2, <2>3 DEF Stage
    <2>7. /\ Data(added, capture, fileOpen, written, logging.batch, trace_events)'
          /\ LastBatch(logging, trace_events, added)'
      BY <1>1, <2>4
    <2>8. (logging.at # "writes" => logging.batch = << >>)' /\ (fileOpen => capture >= 1 /\ traceLogger)'
      BY <1>1 DEF TracerInv
    <2> QED BY <1>1, <2>5, <2>6, <2>7, <2>8 DEF TracerInv
  <1>4. CASE ~ active
    <2>1. control' = [ControlIdle EXCEPT !.at = next] /\ UNCHANGED <<added, trace_events>>
      BY <1>4 DEF Stop
    <2>2. control' \in Controls /\ control'.at = next
      BY <2>1, ControlsTyped DEF ControlSteps
    <2>3. Stage(control'.at, active', fileOpen, logging.at, logging.last, shutdown')
      BY <1>1, <1>2, <1>4, <2>2 DEF TracerInv, Stage
    <2> QED BY <1>1, <2>1, <2>2, <2>3, OnlyControl DEF TracerInv, TracerTypes
  <1> QED BY <1>3, <1>4

LEMMA WakeLoggingKeeps ==
  ASSUME TracerInv, WakeLogging
  PROVE  TracerInv'
  <1>1. /\ UNCHANGED <<traceLogger, active, trace_events, capture, fileOpen, logging, tracing,
                       added, written>>
        /\ control.at = "wake" /\ shutdown' = TRUE /\ control' = [control EXCEPT !.at = "join"]
    BY DEF WakeLogging
  <1>2. control' \in Controls /\ control'.at = "join"
    BY <1>1 DEF TracerInv, TracerTypes, Controls, ControlSteps
  <1>3. Stage(control'.at, active', fileOpen, logging.at, logging.last, shutdown')
    BY <1>1, <1>2 DEF TracerInv, Stage
  <1> QED BY <1>1, <1>2, <1>3, OnlyControl DEF TracerInv, TracerTypes

LEMMA JoinLoggingKeeps ==
  ASSUME TracerInv, JoinLogging
  PROVE  TracerInv'
  <1>1. /\ UNCHANGED <<traceLogger, active, trace_events, capture, fileOpen, shutdown, tracing,
                       added, written>>
        /\ control.at = "join" /\ logging.at = "ended" /\ logging' = NoLogging
        /\ control' = [ControlIdle EXCEPT !.at = control.next]
    BY DEF JoinLogging
  <1>2. control.next \in {"idle", "shutdown"}
    BY ControlsTyped DEF TracerInv, TracerTypes
  <1>3. control' \in Controls /\ control'.at = control.next
    BY <1>1, <1>2, ControlsTyped DEF ControlSteps
  <1>4. ~ active /\ fileOpen = FALSE /\ ~ shutdown /\ logging.batch = << >>
    BY <1>1 DEF TracerInv, TracerTypes, Stage, Going
  <1>5. /\ logging' \in Logs /\ logging'.at = "none" /\ logging'.last = FALSE
        /\ logging'.batch = << >>
    BY <1>1, LogsTyped
  <1>6. TracerTypes'
    BY <1>1, <1>3, <1>5 DEF TracerInv, TracerTypes, Typed
  <1>7. Stage(control.at, active, fileOpen, logging.at, logging.last, shutdown)'
    BY <1>1, <1>2, <1>3, <1>4, <1>5 DEF Stage
  <1>8. Data(added, capture, fileOpen, written, logging.batch, trace_events)'
    BY <1>1, <1>4, <1>5 DEF TracerInv
  <1>9. LastBatch(logging, trace_events, added)'
    BY <1>5 DEF LastBatch
  <1> QED BY <1>1, <1>4, <1>5, <1>6, <1>7, <1>8, <1>9 DEF TracerInv

LEMMA DeleteLoggerKeeps ==
  ASSUME TracerInv, DeleteLogger
  PROVE  TracerInv'
  <1>1. /\ UNCHANGED <<active, capture, fileOpen, shutdown, logging, tracing, added, written>>
        /\ control.at = "shutdown" /\ Tracing = {}
        /\ traceLogger' = FALSE /\ trace_events' = << >>
        /\ control' = [ControlIdle EXCEPT !.at = "unhook"]
    BY DEF DeleteLogger
  <1>2. control' \in Controls /\ control'.at = "unhook"
    BY <1>1, ControlsTyped DEF ControlSteps
  <1>3. ~ active /\ fileOpen = FALSE /\ ~ shutdown /\ logging.at = "none" /\ ~ logging.last /\ logging.batch = << >>
    BY <1>1 DEF TracerInv, TracerTypes, Stage
  <1>4. TracerTypes'
    BY <1>1, <1>2, NothingListed DEF TracerInv, TracerTypes, Typed
  <1>5. Stage(control.at, active, fileOpen, logging.at, logging.last, shutdown)'
    BY <1>1, <1>2, <1>3 DEF Stage
  <1>6. Data(added, capture, FALSE, written, << >>, trace_events)
    BY <1>3 DEF TracerInv
  <1>7. Data(added, capture, FALSE, written, << >>, << >>)
    BY <1>6, DataClears
  <1>8. Data(added, capture, fileOpen, written, logging.batch, trace_events)'
    BY <1>1, <1>3, <1>7
  <1>9. LastBatch(logging, trace_events, added)'
    BY <1>1, <1>3 DEF LastBatch
  <1>10. Watched(tracing, traceLogger)'
    BY <1>1 DEF TracerInv, Watched, Tracing
  <1> QED BY <1>1, <1>3, <1>4, <1>5, <1>8, <1>9, <1>10 DEF TracerInv

LEMMA UnhookKeeps ==
  ASSUME TracerInv, Unhook
  PROVE  TracerInv'
  <1>1. /\ UNCHANGED <<traceLogger, active, trace_events, capture, fileOpen, shutdown, logging,
                       tracing, added, written>>
        /\ control = [ControlIdle EXCEPT !.at = "unhook"] /\ control' = ControlIdle
    BY DEF Unhook
  <1>2. control.at = "unhook" /\ control' \in Controls /\ control'.at = "idle"
    BY <1>1, ControlsTyped DEF ControlSteps
  <1>3. Stage(control'.at, active', fileOpen, logging.at, logging.last, shutdown')
    BY <1>1, <1>2 DEF TracerInv, Stage
  <1> QED BY <1>1, <1>2, <1>3, OnlyControl DEF TracerInv, TracerTypes

LEMMA LogWakesKeeps ==
  ASSUME TracerInv, LogWakes
  PROVE  TracerInv'
  <1> DEFINE l1 == [logging EXCEPT !.at = "woken"]
             l2 == [l1 EXCEPT !.last = shutdown]
  <1>1. /\ UNCHANGED <<traceLogger, active, trace_events, capture, fileOpen, control, tracing,
                       added, written>>
        /\ logging.at = "waits" /\ shutdown' = FALSE /\ logging' = l2
    BY DEF LogWakes
  <1>2. logging \in Logs /\ shutdown \in BOOLEAN
    BY DEF TracerInv, TracerTypes
  <1>3. l1 \in Logs /\ l1.at = "woken" /\ l1.batch = logging.batch
    BY <1>2, LogAt DEF Going
  <1> HIDE DEF l1
  <1>4. l2 \in Logs /\ l2.at = "woken" /\ l2.last = shutdown /\ l2.batch = logging.batch
    BY <1>2, <1>3, LogLast
  <1> HIDE DEF l2
  <1>5. logging.batch = << >>
    BY <1>1 DEF TracerInv
  <1>6. TracerTypes'
    BY <1>1, <1>4 DEF TracerInv, TracerTypes, Typed
  <1>7. Stage(control.at, active, fileOpen, logging.at, logging.last, shutdown)'
    <2>1. \/ control.at = "idle" /\ active /\ fileOpen /\ ~ shutdown
          \/ control.at = "wake" /\ ~ active /\ fileOpen /\ ~ shutdown
          \/ control.at = "join" /\ ~ active /\ fileOpen /\ shutdown
      BY <1>1 DEF TracerInv, Stage
    <2> QED BY <1>1, <1>4, <2>1 DEF Stage, Going
  <1>8. Data(added, capture, fileOpen, written, logging.batch, trace_events)'
    BY <1>1, <1>4, <1>5 DEF TracerInv
  <1>9. LastBatch(logging, trace_events, added)'
    BY <1>1, <1>4 DEF LastBatch
  <1> QED BY <1>1, <1>4, <1>5, <1>6, <1>7, <1>8, <1>9 DEF TracerInv

LEMMA LogSwapsKeeps ==
  ASSUME TracerInv, LogSwaps
  PROVE  TracerInv'
  <1> DEFINE l1 == [logging EXCEPT !.at = "writes"]
             l2 == [l1 EXCEPT !.batch = trace_events]
  <1>1. /\ UNCHANGED <<traceLogger, active, capture, fileOpen, shutdown, control, tracing,
                       added, written>>
        /\ logging.at = "woken" /\ logging' = l2 /\ trace_events' = << >>
    BY DEF LogSwaps
  <1>2. logging \in Logs /\ trace_events \in Seq(Nat)
    BY DEF TracerInv, TracerTypes, Typed
  <1>3. l1 \in Logs /\ l1.at = "writes" /\ l1.last = logging.last
    BY <1>2, LogAt DEF Going
  <1> HIDE DEF l1
  <1>4. l2 \in Logs /\ l2.at = "writes" /\ l2.last = logging.last /\ l2.batch = trace_events
    BY <1>2, <1>3, LogBatch
  <1> HIDE DEF l2
  <1>5. Data(added, capture, fileOpen, written, << >>, trace_events)
    BY <1>1 DEF TracerInv
  <1>6. TracerTypes'
    BY <1>1, <1>4, NothingListed DEF TracerInv, TracerTypes, Typed
  <1>7. Stage(control.at, active, fileOpen, logging.at, logging.last, shutdown)'
    BY <1>1, <1>4 DEF TracerInv, Stage, Going
  <1>8. Data(added, capture, fileOpen, written, trace_events, << >>)
    BY <1>5, DataSwaps
  <1>9. Data(added, capture, fileOpen, written, logging.batch, trace_events)'
    BY <1>1, <1>4, <1>8
  <1>10. LastBatch(logging, trace_events, added)'
    BY <1>1, NothingListed DEF LastBatch
  <1>11. (fileOpen => capture >= 1 /\ traceLogger)' /\ Watched(tracing, traceLogger)'
    BY <1>1 DEF TracerInv
  <1> QED BY <1>1, <1>4, <1>6, <1>7, <1>9, <1>10, <1>11 DEF TracerInv

LEMMA LogWritesKeeps ==
  ASSUME TracerInv, LogWrites
  PROVE  TracerInv'
  <1> DEFINE s == IF logging.last THEN "ended" ELSE "waits"
             l1 == [logging EXCEPT !.at = s]
             l2 == [l1 EXCEPT !.batch = << >>]
             w == written[capture] \o logging.batch
  <1>1. /\ UNCHANGED <<traceLogger, active, trace_events, capture, shutdown, control, tracing, added>>
        /\ logging.at = "writes" /\ logging' = l2 /\ fileOpen' = ~ logging.last
        /\ written' = [written EXCEPT ![capture] = @ \o logging.batch]
    BY DEF LogWrites
  <1>2. logging \in Logs /\ Typed(added, capture, written, trace_events)
    BY DEF TracerInv, TracerTypes
  <1>3. logging.batch \in Seq(Nat) /\ logging.last \in BOOLEAN
    BY <1>2, LogsTyped
  <1>3a. s \in Going \union {"none", "ended"} /\ s # "writes"
    BY DEF Going
  <1> HIDE DEF s
  <1>4. l1 \in Logs /\ l1.at = s /\ l1.last = logging.last
    BY <1>2, <1>3a, LogAt
  <1> HIDE DEF l1
  <1>5. l2 \in Logs /\ l2.at = s /\ l2.last = logging.last /\ l2.batch = << >>
    BY <1>4, LogBatch, NothingListed
  <1> HIDE DEF l2
  <1>6. fileOpen /\ capture >= 1 /\ traceLogger
    BY <1>1 DEF TracerInv, Stage, Going
  <1>7. capture \in 1 .. MaxCaptures /\ written[capture] \in Seq(Nat)
    BY <1>2, <1>6, CapturesBounded DEF Typed
  <1>8. w \in Seq(Nat)
    BY <1>3, <1>7
  <1>9. written' = [written EXCEPT ![capture] = w]
    BY <1>1
  <1>10. Typed(added, capture, written, trace_events)'
    <2> HIDE DEF w
    <2>1. written' \in [1 .. MaxCaptures -> Seq(Nat)]
      BY <1>2, <1>7, <1>8, <1>9 DEF Typed
    <2> QED BY <1>1, <1>2, <2>1 DEF Typed
  <1>11. Data(added, capture, TRUE, written', << >>, trace_events)
    <2>1. fileOpen = TRUE
      BY <1>6 DEF TracerInv, TracerTypes
    <2>2. Data(added, capture, TRUE, written, logging.batch, trace_events)
      BY <2>1 DEF TracerInv
    <2> QED BY <1>1, <1>2, <1>3, <1>6, <2>2, DataWrites
  <1>12. TracerTypes'
    <2>1. fileOpen' \in BOOLEAN
      BY <1>1
    <2> QED BY <1>1, <1>5, <1>10, <2>1 DEF TracerInv, TracerTypes
  <1>13. (logging.at # "writes" => logging.batch = << >>)' /\ LastBatch(logging, trace_events, added)'
    BY <1>1, <1>5, <1>3a DEF LastBatch
  <1>14. (fileOpen => capture >= 1 /\ traceLogger)' /\ Watched(tracing, traceLogger)'
    BY <1>1, <1>6 DEF TracerInv
  <1>15. Stage(control.at, active, fileOpen, logging.at, logging.last, shutdown)'
    <2>1. CASE logging.last
      <3>1. control.at = "join" /\ ~ active /\ ~ shutdown
        BY <1>1, <2>1 DEF TracerInv, Stage
      <3>2. ~ fileOpen' /\ logging'.at = "ended" /\ logging'.last
        BY <1>1, <1>5, <2>1 DEF s
      <3> QED BY <1>1, <3>1, <3>2 DEF Stage
    <2>2. CASE ~ logging.last
      <3>1. fileOpen' /\ logging'.at = "waits" /\ ~ logging'.last
        BY <1>1, <1>5, <2>2 DEF s
      <3>2. \/ control.at = "idle" /\ active /\ ~ shutdown
            \/ control.at = "wake" /\ ~ active /\ ~ shutdown
            \/ control.at = "join" /\ ~ active /\ shutdown
        BY <1>1, <2>2 DEF TracerInv, Stage
      <3> QED BY <1>1, <3>1, <3>2 DEF Stage, Going
    <2> QED BY <2>1, <2>2
  <1>16. Data(added, capture, fileOpen, written, logging.batch, trace_events)'
    <2>1. CASE logging.last
      <3>1. \A e \in ToSet(trace_events) : ~ added[e].active
        BY <1>1, <2>1 DEF TracerInv, LastBatch
      <3>2. Data(added, capture, FALSE, written', << >>, trace_events)
        BY <1>11, <3>1, DataCloses
      <3>3. fileOpen' = FALSE
        BY <1>1, <2>1
      <3> QED BY <1>1, <1>5, <3>2, <3>3
    <2>2. CASE ~ logging.last
      <3>1. fileOpen' = TRUE
        BY <1>1, <2>2
      <3> QED BY <1>1, <1>5, <1>11, <3>1
    <2> QED BY <2>1, <2>2
  <1> QED BY <1>12, <1>13, <1>14, <1>15, <1>16 DEF TracerInv

LEMMA TracerSteps ==
  ASSUME TracerInv, [TracerNext]_tracerVars
  PROVE  TracerInv'
  <1>1. ASSUME NEW t \in Tracers, TraceEvent(t) \/ AddTraceEvent(t)
        PROVE  TracerInv'
    BY <1>1, TraceEventKeeps, AddTraceEventKeeps
  <1>2. ASSUME NEW next \in {"idle", "shutdown"}, Stop(next)
        PROVE  TracerInv'
    BY <1>2, StopKeeps
  <1>3. CASE UNCHANGED tracerVars
    <2>1. UNCHANGED <<traceLogger, active, trace_events, capture, fileOpen, shutdown, logging,
                      control, tracing, added, written>>
      BY <1>3 DEF tracerVars
    <2> QED BY <2>1, OnlyControl DEF TracerInv, TracerTypes
  <1>4. CASE SetupInternalTracer \/ OpenCapture \/ Activate \/ SpawnLogging
    BY <1>4, SetupKeeps, CaptureOpens, ActivateKeeps, SpawnLoggingKeeps
  <1>5. CASE WakeLogging \/ JoinLogging \/ DeleteLogger \/ Unhook
    BY <1>5, WakeLoggingKeeps, JoinLoggingKeeps, DeleteLoggerKeeps, UnhookKeeps
  <1>6. CASE LogWakes \/ LogSwaps \/ LogWrites
    BY <1>6, LogWakesKeeps, LogSwapsKeeps, LogWritesKeeps
  <1> QED BY <1>1, <1>2, <1>3, <1>4, <1>5, <1>6 DEF TracerNext

-----------------------------------------------------------------------------
(* Events of threads that had found an earlier capture active: a thread that is
   about to add one has not added another to this capture. *)
StaleEvent(a) == a.checked < a.capture

Behind(tr, ad, cap) ==
  \A t \in Tracers : tr[t] # 0 /\ tr[t] < cap =>
    \A e \in 1 .. Len(ad) : ad[e].by = t /\ StaleEvent(ad[e]) => ad[e].capture # cap

OneStale(ad) ==
  \A e, f \in 1 .. Len(ad) :
    StaleEvent(ad[e]) /\ StaleEvent(ad[f]) /\ ad[e].by = ad[f].by /\ ad[e].capture = ad[f].capture => e = f

StaleInv ==
  /\ \A t \in Tracers : tracing[t] <= capture
  /\ \A e \in 1 .. Len(added) : added[e].checked <= added[e].capture
  /\ Behind(tracing, added, capture)
  /\ OneStale(added)

(* An event is added: a current one, or the only stale one of its thread. *)
LEMMA StaleAdds ==
  ASSUME TracerInv, StaleInv, NEW by, NEW checked \in 0 .. MaxCaptures, AddEvent(by, checked),
         checked <= capture,
         checked < capture => \A e \in 1 .. Len(added) :
           added[e].by = by /\ StaleEvent(added[e]) => added[e].capture # capture
  PROVE  /\ \A e \in 1 .. Len(added') : added'[e].checked <= added'[e].capture
         /\ OneStale(added')
         /\ \A t \in Tracers : (t # by \/ checked = capture) /\ tracing[t] # 0 /\ tracing[t] < capture =>
                \A e \in 1 .. Len(added') : added'[e].by = t /\ StaleEvent(added'[e]) => added'[e].capture # capture
  <1> DEFINE new == [by |-> by, checked |-> checked, capture |-> capture, active |-> active]
             n == Len(added)
  <1>1. /\ n \in Nat /\ Len(added') = n + 1 /\ added'[n + 1] = new
        /\ \A e \in 1 .. n : added'[e] = added[e]
    BY DEF AddEvent, TracerInv, TracerTypes, Typed
  <1>2. new.by = by /\ new.checked = checked /\ new.capture = capture
    OBVIOUS
  <1>3. \A e \in 1 .. n : added[e].checked <= added[e].capture
    BY DEF StaleInv
  <1>4. \A e, f \in 1 .. n : StaleEvent(added[e]) /\ StaleEvent(added[f]) /\ added[e].by = added[f].by
                             /\ added[e].capture = added[f].capture => e = f
    BY DEF StaleInv, OneStale
  <1>5. checked < capture => \A e \in 1 .. n :
           added[e].by = by /\ StaleEvent(added[e]) => added[e].capture # capture
    OBVIOUS
  <1>6. \A t \in Tracers : tracing[t] # 0 /\ tracing[t] < capture => \A e \in 1 .. n :
           added[e].by = t /\ StaleEvent(added[e]) => added[e].capture # capture
    BY DEF StaleInv, Behind
  <1>7. capture \in Nat /\ checked \in Nat
    BY CapturesBounded DEF TracerInv, TracerTypes, Typed
  <1>8. \A e \in 1 .. n + 1 : e \in 1 .. n \/ e = n + 1
    BY <1>1
  <1> HIDE DEF new, n
  <1>9. StaleEvent(new) => checked < capture
    BY <1>2 DEF StaleEvent
  <1>10. \A e \in 1 .. Len(added') : added'[e].checked <= added'[e].capture
    BY <1>1, <1>2, <1>3, <1>8
  <1>11. OneStale(added')
    <2> SUFFICES ASSUME NEW e \in 1 .. n + 1, NEW f \in 1 .. n + 1, StaleEvent(added'[e]), StaleEvent(added'[f]),
                        added'[e].by = added'[f].by, added'[e].capture = added'[f].capture
                 PROVE  e = f
      BY <1>1 DEF OneStale
    <2>1. CASE e \in 1 .. n /\ f \in 1 .. n
      BY <1>1, <1>4, <2>1
    <2>2. CASE e \in 1 .. n /\ f = n + 1
      BY <1>1, <1>2, <1>5, <1>9, <2>2
    <2>3. CASE e = n + 1 /\ f \in 1 .. n
      BY <1>1, <1>2, <1>5, <1>9, <2>3
    <2> QED BY <1>8, <2>1, <2>2, <2>3
  <1>12. ASSUME NEW t \in Tracers, t # by \/ checked = capture, tracing[t] # 0, tracing[t] < capture,
                NEW e \in 1 .. n + 1, added'[e].by = t, StaleEvent(added'[e])
         PROVE  added'[e].capture # capture
    <2>1. CASE e \in 1 .. n
      BY <1>1, <1>6, <1>12, <2>1
    <2>2. CASE e = n + 1
      BY <1>1, <1>2, <1>7, <1>9, <1>12, <2>2
    <2> QED BY <1>8, <2>1, <2>2
  <1> QED BY <1>1, <1>10, <1>11, <1>12

LEMMA StaleSame ==
  ASSUME StaleInv, UNCHANGED <<tracing, added, capture>>
  PROVE  StaleInv'
  BY DEF StaleInv, Behind, OneStale

LEMMA TracerStale ==
  ASSUME TracerInv, StaleInv, [TracerNext]_tracerVars
  PROVE  StaleInv'
  <1>1. capture \in Nat /\ tracing \in [Tracers -> 0 .. MaxCaptures] /\ capture \in 0 .. MaxCaptures
    BY CapturesBounded DEF TracerInv, TracerTypes, Typed, Watched
  <1>2. ASSUME NEW t \in Tracers, TraceEvent(t)
        PROVE  StaleInv'
    <2>1. tracing' = [tracing EXCEPT ![t] = capture] /\ UNCHANGED <<added, capture>>
      BY <1>2 DEF TraceEvent
    <2>2. Behind(tracing', added, capture)
      BY <1>1, <2>1 DEF StaleInv, Behind
    <2> QED BY <1>1, <2>1, <2>2 DEF StaleInv
  <1>3. ASSUME NEW t \in Tracers, AddTraceEvent(t)
        PROVE  StaleInv'
    <2>1. /\ tracing[t] # 0 /\ AddEvent(t, tracing[t]) /\ capture' = capture
          /\ tracing' = [tracing EXCEPT ![t] = 0]
      BY <1>3 DEF AddTraceEvent
    <2>2. /\ tracing[t] \in 0 .. MaxCaptures /\ tracing[t] <= capture
          /\ tracing[t] < capture => \A e \in 1 .. Len(added) :
               added[e].by = t /\ StaleEvent(added[e]) => added[e].capture # capture
      BY <1>1, <2>1 DEF StaleInv, Behind
    <2>3. /\ \A e \in 1 .. Len(added') : added'[e].checked <= added'[e].capture
          /\ OneStale(added')
          /\ \A x \in Tracers : x # t /\ tracing[x] # 0 /\ tracing[x] < capture =>
                \A e \in 1 .. Len(added') : added'[e].by = x /\ StaleEvent(added'[e]) => added'[e].capture # capture
      BY <2>1, <2>2, StaleAdds
    <2>4. tracing'[t] = 0 /\ \A x \in Tracers : x # t => tracing'[x] = tracing[x]
      BY <1>1, <2>1
    <2>5. Behind(tracing', added', capture)
      BY <2>3, <2>4 DEF Behind
    <2>6. \A x \in Tracers : tracing'[x] <= capture
      BY <1>1, <2>4 DEF StaleInv
    <2> QED BY <2>1, <2>3, <2>5, <2>6 DEF StaleInv
  <1>4. CASE AddEvent("control", capture) /\ UNCHANGED <<tracing, capture>>
    <2>1. /\ \A e \in 1 .. Len(added') : added'[e].checked <= added'[e].capture
          /\ OneStale(added')
          /\ \A x \in Tracers :
              tracing[x] # 0 /\ tracing[x] < capture =>
                \A e \in 1 .. Len(added') : added'[e].by = x /\ StaleEvent(added'[e]) => added'[e].capture # capture
      BY <1>1, <1>4, StaleAdds
    <2>2. Behind(tracing', added', capture')
      BY <1>4, <2>1 DEF Behind
    <2> QED BY <1>4, <2>1, <2>2 DEF StaleInv
  <1>5. CASE OpenCapture
    <2>1. capture' = capture + 1 /\ UNCHANGED <<tracing, added>>
      BY <1>5 DEF OpenCapture
    <2>2. \A e \in 1 .. Len(added) : added[e].capture <= capture
      BY DEF TracerInv, Data, AllPlaced, Place
    <2>3. \A e \in 1 .. Len(added) : added[e].capture # capture + 1
      BY <1>1, <2>2
    <2>4. Behind(tracing', added', capture')
      BY <2>1, <2>3 DEF Behind
    <2>5. \A t \in Tracers : tracing[t] <= capture + 1
      BY <1>1
      DEF StaleInv
    <2> QED BY <2>1, <2>4, <2>5 DEF StaleInv
  <1>6. CASE SpawnLogging
    BY <1>4, <1>6 DEF SpawnLogging
  <1>7. ASSUME NEW next \in {"idle", "shutdown"}, Stop(next)
        PROVE  StaleInv'
    <2>1. CASE active
      BY <1>4, <1>7, <2>1 DEF Stop
    <2>2. CASE ~ active
      BY <1>7, <2>2, StaleSame DEF Stop
    <2> QED BY <2>1, <2>2
  <1>8. CASE UNCHANGED <<tracing, added, capture>>
    BY <1>8, StaleSame
  <1>9. ASSUME \/ SetupInternalTracer \/ Activate \/ WakeLogging \/ JoinLogging \/ DeleteLogger \/ Unhook
               \/ LogWakes \/ LogSwaps \/ LogWrites \/ UNCHANGED tracerVars
        PROVE  UNCHANGED <<tracing, added, capture>>
    BY <1>9 DEF SetupInternalTracer, Activate, WakeLogging, JoinLogging, DeleteLogger, Unhook,
                LogWakes, LogSwaps, LogWrites, tracerVars
  <1> QED BY <1>2, <1>3, <1>5, <1>6, <1>7, <1>8, <1>9 DEF TracerNext

LEMMA TracesAreLogged ==
  ASSUME TracerInv, StaleInv
  PROVE  TracesLogged
  <1>0. Tracing # {} => traceLogger
    BY DEF TracerInv, Watched, Tracing
  <1> SUFFICES ASSUME NEW c \in 1 .. capture
               PROVE  /\ IsInjective(written[c])
                      /\ \A e \in ToSet(written[c]) : added[e].capture = c /\ added[e].checked <= c
                      /\ \A e, f \in ToSet(written[c]) :
                           Stale(e) /\ Stale(f) /\ added[e].by = added[f].by => e = f
                      /\ c < capture \/ (~fileOpen /\ logging.at \in {"none", "ended"}) =>
                           \A e \in 1 .. Len(added) :
                             added[e].capture = c /\ added[e].active => e \in ToSet(written[c])
    BY <1>0 DEF TracesLogged
  <1>1. capture \in 0 .. MaxCaptures
    BY DEF TracerInv, TracerTypes, Typed
  <1>2. c \in 1 .. MaxCaptures /\ c \in Nat /\ capture \in Nat
    BY <1>1, CapturesBounded
  <1>3. Listed(written[c], added, c)
    BY <1>2 DEF TracerInv, Data, InFiles
  <1>4. ASSUME c < capture \/ ~ fileOpen, NEW e \in 1 .. Len(added), added[e].capture = c, added[e].active
        PROVE  e \in ToSet(written[c])
    <2>1. Place(e, added[e], capture, fileOpen, written, logging.batch, trace_events)
      BY DEF TracerInv, Data, AllPlaced
    <2>2. ~ (fileOpen /\ c = capture)
      BY <1>2, <1>4
    <2> QED BY <1>4, <2>1, <2>2 DEF Place
  <1>5. \A e \in ToSet(written[c]) : added[e].checked <= c
    BY <1>3 DEF Listed, StaleInv
  <1>6. \A e, f \in ToSet(written[c]) : Stale(e) /\ Stale(f) /\ added[e].by = added[f].by => e = f
    BY <1>3 DEF Listed, StaleInv, OneStale, StaleEvent, Stale
  <1> QED BY <1>3, <1>4, <1>5, <1>6 DEF Listed

LEMMA TracesAlwaysLogged == TracerSpec => []TracesLogged
  <1>1. TracerInit => StaleInv
    <2>1. TracerInit => Len(added) = 0
      BY DEF TracerInit
    <2> QED BY <2>1 DEF TracerInit, StaleInv, Behind, OneStale
  <1>2. TracerSpec => [](TracerInv /\ StaleInv)
    BY <1>1, TracerStarts, TracerSteps, TracerStale, PTL DEF TracerSpec
  <1> QED BY <1>2, TracesAreLogged, PTL

(* Whatever the order of the threads, each sample of a histogram and each event
   of a capture is taken once by those that collect them (metrics.cc,
   event_tracer.cc). *)
THEOREM RecordsAlwaysTaken == MetricSpec /\ TracerSpec => []RecordsTakenOnce
  <1>1. SamplesCountedOnce /\ TracesLogged => RecordsTakenOnce
    BY DEF RecordsTakenOnce
  <1> QED BY <1>1, SamplesAlwaysCounted, TracesAlwaysLogged, PTL
=============================================================================
