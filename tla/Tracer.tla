------------------------------- MODULE Tracer -------------------------------
(***************************************************************************)
(* rtc_base/event_tracer.cc: threads add events to a vector while a        *)
(* capture is active, and a logging thread writes them to the file of the  *)
(* capture.  An event is its number; what it says is left out.             *)
(* RecordsTakenOnce is about the histograms of Metrics as well, the other  *)
(* thing that threads record while others collect it.                      *)
(***************************************************************************)
EXTENDS Metrics, Sequences, SequencesExt

CONSTANTS
  Tracers,       \* threads that pass TRACE_EVENT macros
  MaxEvents,     \* bound on the events
  MaxCaptures    \* bound on the captures

ASSUME CapturesBounded == MaxCaptures \in Nat

VARIABLES
  traceLogger,   \* g_event_logger is set
  hooks,         \* g_add_trace_event_ptr is set
  active,        \* g_event_logging_active
  trace_events,  \* trace_events_
  capture,       \* the captures started so far; the last has output_file_ if fileOpen
  fileOpen,
  shutdown,      \* shutdown_event_, an event that resets itself
  logging,       \* logging_thread_: where it is, the batch it has swapped out
  control,       \* the thread that starts and stops captures, and what it does then
  tracing,       \* tracing[t]: 0, or t has found a capture active, which was this
                 \* one, and is about to add its event
  added,         \* history: who added each event, the capture it had found active,
                 \* and where and when the event came into the vector
  written        \* history: what is in the file of each capture

tracerVars == <<traceLogger, hooks, active, trace_events, capture, fileOpen, shutdown, logging,
                control, tracing, added, written>>

ControlIdle == [at |-> "idle", next |-> "idle"]
NoLogging == [at |-> "none", last |-> FALSE, batch |-> << >>]

TracerInit ==
  /\ traceLogger = FALSE /\ hooks = FALSE /\ active = FALSE
  /\ trace_events = << >> /\ capture = 0 /\ fileOpen = FALSE /\ shutdown = FALSE
  /\ logging = NoLogging /\ control = ControlIdle
  /\ tracing = [t \in Tracers |-> 0]
  /\ added = << >> /\ written = [c \in 1 .. MaxCaptures |-> << >>]

-----------------------------------------------------------------------------
Tracing == { t \in Tracers : tracing[t] # 0 }

Traced == Cardinality(Tracing) + Len(added)

(* AddTraceEvent of the traceLogger, under mutex_. *)
AddEvent(by, checked) ==
  /\ added' = Append(added, [by |-> by, checked |-> checked, capture |-> capture, active |-> active])
  /\ trace_events' = Append(trace_events, Len(added) + 1)

(* A TRACE_EVENT: nothing without a hook, for a category that is disabled by its
   prefix, or without a capture (the load of g_event_logging_active); the event
   is added in a later step, whatever has become of that capture. *)
TraceEvent(t) ==
  /\ tracing[t] = 0 /\ Traced < MaxEvents
  /\ hooks /\ active
  /\ tracing' = [tracing EXCEPT ![t] = capture]
  /\ UNCHANGED <<traceLogger, hooks, active, trace_events, capture, fileOpen, shutdown, logging,
                 control, added, written>>

AddTraceEvent(t) ==
  /\ tracing[t] # 0
  /\ AddEvent(t, tracing[t])
  /\ tracing' = [tracing EXCEPT ![t] = 0]
  /\ UNCHANGED <<traceLogger, hooks, active, capture, fileOpen, shutdown, logging, control, written>>

SetupInternalTracer ==
  /\ control = ControlIdle /\ ~traceLogger
  /\ traceLogger' = TRUE /\ hooks' = TRUE
  /\ UNCHANGED <<active, trace_events, capture, fileOpen, shutdown, logging, control, tracing,
                 added, written>>

(* Mutant: what the last capture has left behind stays. *)
OpenCaptureKeeps ==
  /\ control = ControlIdle /\ traceLogger /\ ~fileOpen /\ capture < MaxCaptures
  /\ capture' = capture + 1 /\ fileOpen' = TRUE
  /\ control' = [ControlIdle EXCEPT !.at = "started"]
  /\ UNCHANGED <<traceLogger, hooks, active, trace_events, shutdown, logging, tracing, added, written>>

(* EventLogger::Start: the file, and an empty vector; then the fast path is
   enabled; then the thread is started, and the start is traced itself. *)
OpenCapture ==
  /\ control = ControlIdle /\ traceLogger /\ ~fileOpen /\ capture < MaxCaptures
  /\ capture' = capture + 1 /\ fileOpen' = TRUE
  /\ trace_events' = << >>
  /\ control' = [ControlIdle EXCEPT !.at = "started"]
  /\ UNCHANGED <<traceLogger, hooks, active, shutdown, logging, tracing, added, written>>

Activate ==
  /\ control = [ControlIdle EXCEPT !.at = "started"]
  /\ active' = TRUE
  /\ control' = [ControlIdle EXCEPT !.at = "active"]
  /\ UNCHANGED <<traceLogger, hooks, trace_events, capture, fileOpen, shutdown, logging, tracing,
                 added, written>>

SpawnLogging ==
  /\ control = [ControlIdle EXCEPT !.at = "active"]
  /\ logging' = [NoLogging EXCEPT !.at = "waits"]
  /\ AddEvent("control", capture)
  /\ control' = ControlIdle
  /\ UNCHANGED <<traceLogger, hooks, active, capture, fileOpen, shutdown, tracing, written>>

(* EventLogger::Stop, alone or as the first step of ShutdownInternalTracer; it
   is traced, and ends here without a capture. *)
Stop(next) ==
  /\ control = ControlIdle /\ traceLogger /\ (next = "idle" => active)
  /\ active' = FALSE
  /\ IF active THEN AddEvent("control", capture) /\ control' = [at |-> "wake", next |-> next]
               ELSE control' = [ControlIdle EXCEPT !.at = next] /\ UNCHANGED <<added, trace_events>>
  /\ UNCHANGED <<traceLogger, hooks, capture, fileOpen, shutdown, logging, tracing, written>>

WakeLogging ==
  /\ control.at = "wake"
  /\ shutdown' = TRUE
  /\ control' = [control EXCEPT !.at = "join"]
  /\ UNCHANGED <<traceLogger, hooks, active, trace_events, capture, fileOpen, logging, tracing,
                 added, written>>

JoinLogging ==
  /\ control.at = "join" /\ logging.at = "ended"
  /\ logging' = NoLogging
  /\ control' = [ControlIdle EXCEPT !.at = control.next]
  /\ UNCHANGED <<traceLogger, hooks, active, trace_events, capture, fileOpen, shutdown, tracing,
                 added, written>>

(* The rest of ShutdownInternalTracer.  Its callers have to see to it that no
   thread is about to add an event: the logger is deleted. *)
DeleteLogger ==
  /\ control.at = "shutdown" /\ Tracing = {}
  /\ traceLogger' = FALSE /\ trace_events' = << >>
  /\ control' = [ControlIdle EXCEPT !.at = "unhook"]
  /\ UNCHANGED <<hooks, active, capture, fileOpen, shutdown, logging, tracing, added, written>>

Unhook ==
  /\ control = [ControlIdle EXCEPT !.at = "unhook"]
  /\ hooks' = FALSE
  /\ control' = ControlIdle
  /\ UNCHANGED <<traceLogger, active, trace_events, capture, fileOpen, shutdown, logging, tracing,
                 added, written>>

-----------------------------------------------------------------------------
(* Log: the wait ends with the shutdown event or after kLoggingIntervalMs. *)
LogWakes ==
  /\ logging.at = "waits"
  /\ logging' = [logging EXCEPT !.at = "woken", !.last = shutdown]
  /\ shutdown' = FALSE
  /\ UNCHANGED <<traceLogger, hooks, active, trace_events, capture, fileOpen, control, tracing,
                 added, written>>

LogSwaps ==
  /\ logging.at = "woken"
  /\ logging' = [logging EXCEPT !.at = "writes", !.batch = trace_events]
  /\ trace_events' = << >>
  /\ UNCHANGED <<traceLogger, hooks, active, capture, fileOpen, shutdown, control, tracing, added,
                 written>>

LogWrites ==
  /\ logging.at = "writes"
  /\ written' = [written EXCEPT ![capture] = @ \o logging.batch]
  /\ logging' = [logging EXCEPT !.at = IF logging.last THEN "ended" ELSE "waits",
                                !.batch = << >>]
  /\ fileOpen' = ~logging.last
  /\ UNCHANGED <<traceLogger, hooks, active, trace_events, capture, shutdown, control, tracing, added>>

TracerNext ==
  \/ \E t \in Tracers : TraceEvent(t) \/ AddTraceEvent(t)
  \/ SetupInternalTracer \/ OpenCapture \/ Activate \/ SpawnLogging
  \/ \E next \in {"idle", "shutdown"} : Stop(next)
  \/ WakeLogging \/ JoinLogging
  \/ DeleteLogger \/ Unhook
  \/ LogWakes \/ LogSwaps \/ LogWrites

TracerSpec == TracerInit /\ [][TracerNext]_tracerVars

-----------------------------------------------------------------------------
(***************************************************************************)
(* However the threads interleave, no event is written twice, an event     *)
(* that was added while a capture was active is in its file by the time    *)
(* the file is closed, and no event that was in the vector before is in    *)
(* the file of a later capture (event_tracer.cc:190-198).  What the clear  *)
(* of the vector cannot keep out are the events of threads that had found  *)
(* an earlier capture active and had not added yet: those are in the file  *)
(* of the later one, but never more than one of each thread.  No thread    *)
(* adds to a logger that is gone.                                          *)
(***************************************************************************)
Stale(e) == added[e].checked < added[e].capture

TracesLogged ==
  /\ \A c \in 1 .. capture :
       /\ IsInjective(written[c])
       /\ \A e \in ToSet(written[c]) : added[e].capture = c /\ added[e].checked <= c
       /\ \A e, f \in ToSet(written[c]) :
            Stale(e) /\ Stale(f) /\ added[e].by = added[f].by => e = f
       /\ c < capture \/ (~fileOpen /\ logging.at \in {"none", "ended"}) =>
            \A e \in 1 .. Len(added) :
              added[e].capture = c /\ added[e].active => e \in ToSet(written[c])
  /\ Tracing # {} => traceLogger

(* What threads record while others collect it is collected once: samples of
   histograms, events of captures. *)
RecordsTakenOnce == SamplesCountedOnce /\ TracesLogged
=============================================================================
