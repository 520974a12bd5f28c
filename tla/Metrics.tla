------------------------------ MODULE Metrics -------------------------------
(***************************************************************************)
(* Histograms (system_wrappers/source/metrics.cc, include/metrics.h): the  *)
(* map of histograms is made once by Enable, a histogram when its name is  *)
(* first used; the macros cache the histogram of a call site in a static   *)
(* pointer; GetAndReset takes the samples while other threads add theirs.  *)
(* A step is what a thread does between two accesses of shared memory.     *)
(***************************************************************************)
EXTENDS Integers, FiniteSets, Functions

CONSTANTS
  Loggers,           \* threads that add samples
  Enablers,          \* threads that call Enable
  HistNames,             \* names of histograms, each with one caching call site
  MetricValues,           \* values that are added
  Boundary,          \* the boundary of the enumerations
  kMaxSampleMapSize, \* distinct values a histogram keeps (300 in the code)
  MaxLogs            \* bound: samples that are added

VARIABLES
  g_map,     \* g_rtc_histogram_map: a map, or 0
  hists,     \* the histograms: [map, name] -> value -> events
  site,      \* atomic_histogram_pointer of each call site: a histogram or << >>
  logger,    \* [at, name, value, ptr] of each thread
  enabler,   \* the step of each thread that calls Enable
  collector, \* names whose samples GetAndReset has still to take; {} when it is not running
  logs,      \* how many samples the threads have begun to add
  events     \* history, by name: [added, kept, taken]

metricVars == <<g_map, hists, site, logger, enabler, collector, logs, events>>

NoHist == << >>
Resting == [at |-> "idle", name |-> "", value |-> 0, ptr |-> NoHist]

MetricInit ==
  /\ g_map = 0 /\ hists = [h \in {} |-> << >>] /\ site = [n \in HistNames |-> NoHist]
  /\ logger = [t \in Loggers |-> Resting]
  /\ enabler = [t \in Enablers |-> "idle"] /\ collector = {} /\ logs = 0
  /\ events = [n \in HistNames |-> [added |-> 0, capped |-> 0, taken |-> 0]]

-----------------------------------------------------------------------------
(* Enable with CreateMap: the map is looked for, and then exchanged for the
   thread's own if there still is none. *)
EnableLooks(t) ==
  /\ enabler[t] = "idle"
  /\ enabler' = [enabler EXCEPT ![t] = IF g_map = 0 THEN "swap" ELSE "done"]
  /\ UNCHANGED <<g_map, hists, site, logger, collector, logs, events>>

(* Mutant: the new map is stored whatever there is. *)
EnableStores(t) ==
  /\ enabler[t] = "swap" /\ g_map' = t
  /\ enabler' = [enabler EXCEPT ![t] = "done"]
  /\ UNCHANGED <<hists, site, logger, collector, logs, events>>

EnableSwaps(t) ==
  /\ enabler[t] = "swap" /\ g_map' = IF g_map = 0 THEN t ELSE g_map
  /\ enabler' = [enabler EXCEPT ![t] = "done"]
  /\ UNCHANGED <<hists, site, logger, collector, logs, events>>

-----------------------------------------------------------------------------
(* RTC_HISTOGRAM_COMMON_BLOCK, and RTC_HISTOGRAM_COMMON_BLOCK_SLOW, which asks
   the factory each time. *)
LogStarts(t, n, v, slow) ==
  /\ logger[t].at = "idle" /\ logs < MaxLogs /\ logs' = logs + 1
  /\ logger' = [logger EXCEPT ![t] =
       [at |-> IF ~slow /\ site[n] # NoHist THEN "add" ELSE IF slow THEN "find" ELSE "find_cache",
        name |-> n, value |-> v, ptr |-> IF slow THEN NoHist ELSE site[n]]]
  /\ UNCHANGED <<g_map, hists, site, enabler, collector, events>>

(* HistogramFactoryGetEnumeration and RtcHistogramMap::GetEnumerationHistogram:
   nothing without a map; the histogram of the name, made if it is not there.
   The lock of the map is held by GetAndReset while that runs. *)
LogFinds(t) ==
  LET l == logger[t]
      h == <<g_map, l.name>>
  IN  /\ l.at \in {"find", "find_cache"}
      /\ IF g_map = 0
         THEN /\ logger' = [logger EXCEPT ![t] = IF l.at = "find" THEN Resting
                                                             ELSE [l EXCEPT !.at = "cache"]]
              /\ UNCHANGED hists
         ELSE /\ collector = {}
              /\ hists' = IF h \in DOMAIN hists THEN hists
                          ELSE [k \in DOMAIN hists \union {h} |->
                                  IF k = h THEN << >> ELSE hists[k]]
              /\ logger' = [logger EXCEPT ![t].at = IF @ = "find" THEN "add" ELSE "cache",
                                          ![t].ptr = h]
      /\ UNCHANGED <<g_map, site, enabler, collector, logs, events>>

(* The exchange of the static pointer; the thread goes on with its own. *)
LogCaches(t) ==
  LET l == logger[t]
  IN  /\ l.at = "cache"
      /\ site' = [site EXCEPT ![l.name] = IF @ = NoHist THEN l.ptr ELSE @]
      /\ logger' = [logger EXCEPT ![t] = IF l.ptr = NoHist THEN Resting
                                                     ELSE [l EXCEPT !.at = "add"]]
      /\ UNCHANGED <<g_map, hists, enabler, collector, logs, events>>

(* RtcHistogram::Add.  Values outside the range are counted in the overflow
   and the underflow bucket. *)
Bucket(v) == LET m == IF v < Boundary THEN v ELSE Boundary IN IF m > 0 THEN m ELSE 0

Counted(bag, b) ==
  IF b \in DOMAIN bag THEN [bag EXCEPT ![b] = @ + 1]
  ELSE [k \in DOMAIN bag \union {b} |-> IF k = b THEN 1 ELSE bag[k]]

Full(bag, b) == Cardinality(DOMAIN bag) = kMaxSampleMapSize /\ b \notin DOMAIN bag

LogAdds(t) ==
  LET l == logger[t]
      bag == hists[l.ptr]
      b == Bucket(l.value)
  IN  /\ l.at = "add"
      /\ hists' = IF Full(bag, b) THEN hists ELSE [hists EXCEPT ![l.ptr] = Counted(bag, b)]
      /\ events' = [events EXCEPT ![l.name].added = @ + 1,
                                  ![l.name].capped = @ + (IF Full(bag, b) THEN 1 ELSE 0)]
      /\ logger' = [logger EXCEPT ![t] = Resting]
      /\ UNCHANGED <<g_map, site, enabler, collector, logs>>

-----------------------------------------------------------------------------
Total(bag) == FoldFunctionOnSet(+, 0, bag, DOMAIN bag)

(* GetAndReset locks the map and takes the histograms one after the other; each
   is locked only for itself. *)
CollectStarts ==
  /\ collector = {} /\ g_map # 0
  /\ collector' = { n \in HistNames : <<g_map, n>> \in DOMAIN hists } /\ collector' # {}
  /\ UNCHANGED <<g_map, hists, site, logger, enabler, logs, events>>

CollectTakes(n) ==
  /\ n \in collector
  /\ hists' = [hists EXCEPT ![<<g_map, n>>] = << >>]
  /\ events' = [events EXCEPT ![n].taken = @ + Total(hists[<<g_map, n>>])]
  /\ collector' = collector \ {n}
  /\ UNCHANGED <<g_map, site, logger, enabler, logs>>

MetricNext ==
  \/ \E t \in Enablers : EnableLooks(t) \/ EnableSwaps(t)
  \/ \E t \in Loggers :
       \/ \E n \in HistNames, v \in MetricValues, slow \in BOOLEAN : LogStarts(t, n, v, slow)
       \/ LogFinds(t) \/ LogCaches(t) \/ LogAdds(t)
  \/ CollectStarts
  \/ \E n \in HistNames : CollectTakes(n)

MetricSpec == MetricInit /\ [][MetricNext]_metricVars

-----------------------------------------------------------------------------
(* However the threads interleave, a name has one histogram, which every call
   site and every thread that logs under it has a valid pointer to, and each
   sample that was added is in it, has been taken by GetAndReset once, or did not
   fit into it (RtcHistogramMap, CreateMap, the exchange of the macros). *)
SamplesCountedOnce ==
  \A n \in HistNames :
    /\ \A h \in {site[n]} \union { logger[t].ptr : t \in { x \in Loggers : logger[x].name = n } } :
         h # NoHist => h = <<g_map, n>> /\ h \in DOMAIN hists
    /\ events[n].added = events[n].taken + events[n].capped
         + (IF <<g_map, n>> \in DOMAIN hists THEN Total(hists[<<g_map, n>>]) ELSE 0)
=============================================================================
