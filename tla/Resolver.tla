------------------------------ MODULE Resolver ------------------------------
(***************************************************************************)
(* rtc_base/async_resolver.cc: names are looked up by threads of their     *)
(* own, which post the answer to the task queue of the caller, while the   *)
(* resolver may be destroyed at any time.  What the threads, the posted    *)
(* tasks and the resolver share is State, with a mutex and a status.  What *)
(* is done under the mutex is one step.                                    *)
(***************************************************************************)
EXTENDS Naturals, Sequences, SequencesExt, FiniteSets, SocketServer

CONSTANTS
  Lookups,       \* the threads that Start spawns, one for each call
  LookupNames,   \* host names
  AddrInfos      \* lists of families that getaddrinfo may return

ASSUME LookupsFinite == IsFiniteSet(Lookups)

VARIABLES
  resolver,      \* the AsyncResolver
  shared,        \* State: its status and the references to it
  lookup,        \* the detached threads
  answers,       \* posted tasks in the caller's task queue
  callee,        \* the task that runs on the caller's queue
  callerQueue,   \* the caller's task queue exists
  signals        \* history: how often SignalDone was raised

resolverVars == <<resolver, shared, lookup, answers, callee, callerQueue, signals>>

NotResolved == [name |-> "none", error |-> 1, list |-> << >>]
NoTask == [at |-> "idle", live |-> FALSE, answer |-> NotResolved]

ResolverInit ==
  /\ resolver = [made |-> TRUE, name |-> "none", answer |-> NotResolved,
                 recursion_check |-> FALSE, destroy_called |-> FALSE]
  /\ shared = [status |-> "kLive", refs |-> 1]
  /\ lookup = [l \in Lookups |-> [at |-> "idle", family |-> "unspec", answer |-> NotResolved]]
  /\ answers = << >> /\ callee = NoTask /\ callerQueue = TRUE /\ signals = 0

-----------------------------------------------------------------------------
(* What getaddrinfo found, of the family asked for. *)
ResolveHostname(family, found) ==
  SelectSeq(found, LAMBDA f : f # "other" /\ (family = "unspec" \/ f = family))

(* The caller is on its queue, in code of its own or in a slot of SignalDone. *)
CallerRuns == callerQueue /\ callee.at \in {"idle", "signal"}

StartLookup(l, name, family) ==
  /\ CallerRuns /\ resolver.made /\ ~resolver.destroy_called
  /\ lookup[l].at = "idle"
  /\ resolver' = [resolver EXCEPT !.name = name]
  /\ lookup' = [lookup EXCEPT ![l] = [at |-> "resolving", family |-> family,
                                      answer |-> [NotResolved EXCEPT !.name = name]]]
  /\ shared' = [shared EXCEPT !.refs = @ + 1]
  /\ UNCHANGED <<answers, callee, callerQueue, signals>>

LookupEnds(l, error, found) ==
  /\ lookup[l].at = "resolving"
  /\ lookup' = [lookup EXCEPT ![l].at = "answered", ![l].answer.error = error,
                ![l].answer.list = IF error = 0 THEN ResolveHostname(lookup[l].family, found)
                                                ELSE << >>]
  /\ UNCHANGED <<resolver, shared, answers, callee, callerQueue, signals>>

(* Mutant: the thread posts without a look at the status. *)
PostAnswerAnyway(l) ==
  /\ lookup[l].at = "answered"
  /\ lookup' = [lookup EXCEPT ![l].at = "done"]
  /\ answers' = Append(answers, lookup[l].answer)
  /\ UNCHANGED <<resolver, shared, callee, callerQueue, signals>>

(* Under the mutex: a task that holds State, too, or nothing; then the thread
   ends and gives its own reference up. *)
PostAnswer(l) ==
  /\ lookup[l].at = "answered"
  /\ lookup' = [lookup EXCEPT ![l].at = "done"]
  /\ IF shared.status = "kLive"
     THEN answers' = Append(answers, lookup[l].answer) /\ UNCHANGED shared
     ELSE shared' = [shared EXCEPT !.refs = @ - 1] /\ UNCHANGED answers
  /\ UNCHANGED <<resolver, callee, callerQueue, signals>>

(* The task looks at the status under the mutex, which it gives up before ... *)
RunAnswer ==
  /\ callerQueue /\ callee.at = "idle" /\ answers # << >>
  /\ callee' = [at |-> "looked", live |-> shared.status = "kLive", answer |-> Head(answers)]
  /\ answers' = Tail(answers)
  /\ UNCHANGED <<resolver, shared, lookup, callerQueue, signals>>

(* ... it calls ResolveDone, up to SignalDone. *)
ResolveDone ==
  /\ callee.at = "looked"
  /\ IF callee.live
     THEN /\ resolver' = [resolver EXCEPT !.answer = callee.answer, !.recursion_check = TRUE]
          /\ callee' = [callee EXCEPT !.at = "signal"]
          /\ signals' = signals + 1
          /\ UNCHANGED shared
     ELSE /\ callee' = NoTask
          /\ shared' = [shared EXCEPT !.refs = @ - 1]
          /\ UNCHANGED <<resolver, signals>>
  /\ UNCHANGED <<lookup, answers, callerQueue>>

(* delete this, with the status set under the mutex by the destructor, and the
   references to State that go with it. *)
MaybeSelfDestruct(r, given) ==
  IF r.recursion_check
  THEN /\ resolver' = [r EXCEPT !.recursion_check = FALSE]
       /\ shared' = [shared EXCEPT !.refs = @ - given]
  ELSE /\ resolver' = [r EXCEPT !.made = FALSE]
       /\ shared' = [status |-> "kDead", refs |-> shared.refs - 1 - given]

SignalEnds ==
  /\ callee.at = "signal"
  /\ MaybeSelfDestruct(resolver, 1)
  /\ callee' = NoTask
  /\ UNCHANGED <<lookup, answers, callerQueue, signals>>

(* By the caller, also from a slot of SignalDone, or by another thread; then not
   while the caller's queue is in a task of this resolver. *)
Destroy ==
  /\ CallerRuns /\ resolver.made /\ ~resolver.destroy_called
  /\ MaybeSelfDestruct([resolver EXCEPT !.destroy_called = TRUE], 0)
  /\ UNCHANGED <<lookup, answers, callee, callerQueue, signals>>

(* The queue outlives the resolver; the tasks it still has are deleted. *)
CallerQueueEnds ==
  /\ callerQueue /\ ~resolver.made /\ callee.at = "idle"
  /\ callerQueue' = FALSE /\ answers' = << >>
  /\ shared' = [shared EXCEPT !.refs = @ - Len(answers)]
  /\ UNCHANGED <<resolver, lookup, callee, signals>>

ResolverNext ==
  \/ \E l \in Lookups :
       \/ \E n \in LookupNames, f \in {"unspec", "v4"} : StartLookup(l, n, f)
       \/ \E e \in {0, 1}, found \in AddrInfos : LookupEnds(l, e, found)
       \/ PostAnswer(l)
  \/ RunAnswer \/ ResolveDone \/ SignalEnds \/ Destroy \/ CallerQueueEnds

ResolverSpec == ResolverInit /\ [][ResolverNext]_resolverVars

-----------------------------------------------------------------------------
(* The family of the address it stores, with the name, or "" when it fails. *)
GetResolvedAddress(r, family) ==
  LET a == r.answer
  IN  IF a.error = 0 /\ family \in ToSet(a.list) THEN <<r.name, family>> ELSE << >>

InFlight == { l \in Lookups : lookup[l].at \in {"resolving", "answered"} }
Ended == { l \in Lookups : lookup[l].at = "done" }

(***************************************************************************)
(* A name's lookup ends at any time: its thread posts only to a queue that *)
(* exists and touches State only while it exists, the task calls no        *)
(* resolver that is gone, and as long as the resolver lives no answer is   *)
(* lost or reported twice.  What it reports of a single Start is what was  *)
(* found for the name that was asked for.                                  *)
(***************************************************************************)
ResolverSafe ==
  /\ callerQueue \/ answers = << >>
  /\ callee.at = "signal" \/ callee.live => resolver.made
  /\ resolver.made => shared.status = "kLive"
  /\ shared.refs = Cardinality(InFlight) + Len(answers)
       + (IF resolver.made THEN 1 ELSE 0) + (IF callee.at = "idle" THEN 0 ELSE 1)
  /\ resolver.made =>
       Cardinality(Ended) = signals + Len(answers) + (IF callee.at = "looked" THEN 1 ELSE 0)
  /\ \A l \in Lookups, f \in {"v4", "v6"} :
       /\ InFlight \union Ended = {l}
       /\ GetResolvedAddress(resolver, f) # << >>
       => /\ resolver.name = lookup[l].answer.name
          /\ f \in ToSet(lookup[l].answer.list)

(* A socket's events are its own and reach it, and the lookup of its peer's name
   answers to a resolver and a queue that exist. *)
SocketsServed == EventsFollowSockets /\ ResolverSafe
=============================================================================
