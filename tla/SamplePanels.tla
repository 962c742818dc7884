---------------------------- MODULE SamplePanels ----------------------------
(***************************************************************************)
(* The panel of a ping task (PingResultDisplay of                          *)
(* components/pingdisplay.tsx over generatePingSampleStream of             *)
(* apis/globalping.ts) and the panel of a traceroute task                  *)
(* (useTraceEventsRead of components/traceroutedisplay.tsx): both launch a *)
(* stream in an effect, can be stopped and started again, and are removed  *)
(* with their task, at any moment of the life of a request.  A ping panel  *)
(* gives a stream up by cancelling a reader it may not have yet, a         *)
(* traceroute panel by aborting the request.                               *)
(***************************************************************************)
EXTENDS HubStreams

VARIABLES
  kind,       \* "ping" or "trace" (or a kind of ProbePanels)
  mounted,    \* "no", "yes", "gone"
  active,     \* running of the ping panel, not paused of the traceroute panel
  timer,      \* the setTimeout of the effect is pending
  ref,        \* readerRef.current, abortControllerRef.current
  stopped,    \* controlscope.stopped of the streams, and their closed outer stream
  rows,       \* what the state of the panel was built from: <<stream, position>>
  snapshot,   \* traceroute: the table shown while paused, if any
  isRunning,  \* traceroute: what enables the Stop and Resume buttons
  early       \* history: streams given up while their answer was outstanding

panelVars == <<mounted, active, timer, ref, stopped, rows, snapshot, isRunning,
               early>>

\* undefined, or a table.
NoSnapshot == [set |-> FALSE, rows |-> <<>>]

SnapshotOf(table) == [set |-> TRUE, rows |-> table]

SamplePanelsTypeOK ==
  /\ StreamsTypeOK
  /\ mounted \in {"no", "yes", "gone"}
  /\ active \in BOOLEAN /\ timer \in BOOLEAN /\ isRunning \in BOOLEAN
  /\ ref \in 0..launched
  /\ stopped \subseteq 1..launched
  /\ early \subseteq 1..launched
  /\ rows \in Seq(Streams \X (1..MaxEvents))
  /\ snapshot \in [set : BOOLEAN, rows : Seq(Streams \X (1..MaxEvents))]

PanelInit ==
  /\ StreamsInit
  /\ mounted = "no"
  /\ active = TRUE
  /\ timer = FALSE
  /\ ref = None
  /\ stopped = {}
  /\ rows = <<>>
  /\ snapshot = NoSnapshot
  /\ isRunning = FALSE
  /\ early = {}

----------------------------------------------------------------------------
(* The ping panel.                                                         *)

\* Mutant: the reader is forgotten but the stream is not told.
CancelStream_Silent ==
  /\ ref' = None
  /\ UNCHANGED <<phase, open, launched, emitted, stopped, early>>

\* cancelStream() and cancel() of the sample stream: it is marked stopped;
\* the inner reader is cancelled if the answer has arrived, otherwise nothing
\* reaches the request.
CancelStream ==
  /\ ref' = None
  /\ stopped' = stopped \cup ({ref} \ {None})
  /\ Release(IF Live(ref) /\ phase[ref] = "reading" THEN {ref} ELSE {})
  /\ early' = IF Live(ref) /\ phase[ref] = "fetching" THEN early \cup {ref} ELSE early

PingMount ==
  /\ kind = "ping" /\ mounted = "no"
  /\ mounted' = "yes"
  /\ timer' = active
  /\ UNCHANGED <<streamVars, active, ref, stopped, rows, snapshot, isRunning, early>>

\* The timer of the effect: launchStream().
LaunchStream ==
  /\ kind = "ping" /\ timer
  /\ Fetch
  /\ timer' = FALSE
  /\ ref' = launched'
  /\ UNCHANGED <<mounted, active, stopped, rows, snapshot, isRunning, early>>

\* onToggle while running: cancelStream(), setRunning(false), and the cleanup
\* of the effect, which clears the timer and cancels again.
PingPause ==
  /\ kind = "ping" /\ mounted = "yes" /\ active
  /\ active' = FALSE
  /\ timer' = FALSE
  /\ CancelStream
  /\ UNCHANGED <<mounted, rows, snapshot, isRunning>>

\* Mutant: the effect does not depend on running.
PingResume_NoEffect ==
  /\ kind = "ping" /\ mounted = "yes" /\ ~active
  /\ active' = TRUE
  /\ UNCHANGED <<streamVars, mounted, timer, ref, stopped, rows, snapshot,
                 isRunning, early>>

PingResume ==
  /\ kind = "ping" /\ mounted = "yes" /\ ~active
  /\ active' = TRUE
  /\ timer' = TRUE
  /\ UNCHANGED <<streamVars, mounted, ref, stopped, rows, snapshot, isRunning, early>>

\* push() and readNext(): a sample of a stopped stream is dropped.
PingSampleRead(s) ==
  /\ kind = "ping"
  /\ Line(s)
  /\ rows' = IF s \in stopped THEN rows ELSE Append(rows, <<s, emitted'[s]>>)
  /\ UNCHANGED <<mounted, active, timer, ref, stopped, snapshot, isRunning, early>>

PingUnmount ==
  /\ kind = "ping" /\ mounted = "yes"
  /\ mounted' = "gone"
  /\ timer' = FALSE
  /\ CancelStream
  /\ UNCHANGED <<active, rows, snapshot, isRunning>>

PingResponse(s) ==
  /\ kind = "ping"
  /\ Answered(s) \/ Done(s) \/ Broken(s)
  /\ UNCHANGED panelVars

----------------------------------------------------------------------------
(* The traceroute panel.                                                   *)

TraceMount ==
  /\ kind = "trace" /\ mounted = "no"
  /\ mounted' = "yes"
  /\ Fetch
  /\ ref' = launched'
  /\ UNCHANGED <<active, timer, stopped, rows, snapshot, isRunning, early>>

TraceAnswered(s) ==
  /\ kind = "trace"
  /\ Answered(s)
  /\ isRunning' = TRUE
  /\ UNCHANGED <<mounted, active, timer, ref, stopped, rows, snapshot, early>>

TraceEventRead(s) ==
  /\ kind = "trace"
  /\ Line(s)
  /\ rows' = Append(rows, <<s, emitted'[s]>>)
  /\ UNCHANGED <<mounted, active, timer, ref, stopped, snapshot, isRunning, early>>

TraceDone(s) ==
  /\ kind = "trace"
  /\ Done(s)
  /\ isRunning' = FALSE
  /\ UNCHANGED <<mounted, active, timer, ref, stopped, rows, snapshot, early>>

\* A failed request or read is logged; isRunning keeps its value.
TraceBroken(s) ==
  /\ kind = "trace"
  /\ Broken(s)
  /\ UNCHANGED panelVars

\* The button is disabled while paused and still running, and while neither.
ButtonEnabled == active = isRunning

\* Mutant: the live table is left as it was.
StopTick_KeepsRows ==
  /\ kind = "trace" /\ mounted = "yes" /\ ButtonEnabled /\ isRunning
  /\ active' = FALSE
  /\ snapshot' = SnapshotOf(<<>>)
  /\ isRunning' = FALSE
  /\ ref' = None
  /\ Release(IF Live(ref) THEN {ref} ELSE {})
  /\ UNCHANGED <<mounted, timer, stopped, rows, early>>

\* stopTick(): the table is frozen, the request aborted; the cleanup of the
\* effect clears the live table.
StopTick ==
  /\ kind = "trace" /\ mounted = "yes" /\ ButtonEnabled /\ isRunning
  /\ active' = FALSE
  /\ snapshot' = SnapshotOf(rows)
  /\ rows' = <<>>
  /\ isRunning' = FALSE
  /\ ref' = None
  /\ Release(IF Live(ref) THEN {ref} ELSE {})
  /\ UNCHANGED <<mounted, timer, stopped, early>>

\* resumeTick(): the effect runs again with a new request.
ResumeTick ==
  /\ kind = "trace" /\ mounted = "yes" /\ ButtonEnabled /\ ~isRunning
  /\ active' = TRUE
  /\ snapshot' = NoSnapshot
  /\ Fetch
  /\ ref' = launched'
  /\ UNCHANGED <<mounted, timer, stopped, rows, isRunning, early>>

TraceUnmount ==
  /\ kind = "trace" /\ mounted = "yes"
  /\ mounted' = "gone"
  /\ isRunning' = FALSE
  /\ ref' = None
  /\ Release(IF Live(ref) THEN {ref} ELSE {})
  /\ UNCHANGED <<active, timer, stopped, rows, snapshot, early>>

----------------------------------------------------------------------------

SamplePanelsNext ==
  /\ UNCHANGED kind
  /\ \/ PingMount \/ LaunchStream \/ PingPause \/ PingResume \/ PingUnmount
     \/ TraceMount \/ StopTick \/ ResumeTick \/ TraceUnmount
     \/ \E s \in Streams :
          \/ PingResponse(s) \/ PingSampleRead(s)
          \/ TraceAnswered(s) \/ TraceEventRead(s) \/ TraceDone(s) \/ TraceBroken(s)

SamplePanelsInit == PanelInit /\ kind \in {"ping", "trace"}

\* The event loop serves a timer that is due.
SamplePanelsFairness == WF_<<streamVars, panelVars>>(LaunchStream)

SamplePanelsSpec ==
  SamplePanelsInit /\ [][SamplePanelsNext]_<<streamVars, panelVars, kind>>

----------------------------------------------------------------------------
(* Properties                                                              *)

SamplePanel == kind \in {"ping", "trace"}

Shown == IF snapshot.set THEN snapshot.rows ELSE rows

Feed == INSTANCE SampleFeed WITH
  Streams <- Streams,
  current <- IF SamplePanel THEN ref ELSE None,
  position <- IF SamplePanel /\ ref # None THEN emitted[ref] ELSE 0,
  fresh <- IF SamplePanel THEN Streams \ (1..launched) ELSE Streams,
  shown <- IF SamplePanel THEN Shown ELSE <<>>,
  keeps <- kind = "ping"

\* Refinement: whatever the interleaving of clicks, timers, answers and lines,
\* a ping or traceroute panel follows one stream at a time and shows its
\* events in order, without gap, repetition or a row of a stream given up.  A
\* traceroute resumes with an empty table, a ping goes on with the rows it has.
PanelsImplementFeed == Feed!Spec

\* The hub serves no request the panel has given up, except those of a ping
\* panel that were cancelled before their answer arrived: nothing cancels
\* these (controlscope.reader is not set yet), and their agents keep pinging.
OpenIsFollowedOrEarly ==
  SamplePanel =>
    /\ open \subseteq {ref} \cup early
    /\ kind = "trace" => early = {}

\* A running ping panel gets a stream, however fast it was toggled before.
RunningLaunches ==
  (kind = "ping" /\ mounted = "yes" /\ active /\ launched < MaxStreams)
    ~> (ref # None \/ ~active \/ mounted = "gone")
=============================================================================
