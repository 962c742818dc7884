----------------------------- MODULE ProbePanels -----------------------------
(***************************************************************************)
(* The panel of a DNS task (components/dnsprobedisplay.tsx) and the panel  *)
(* of an HTTP task (components/httpprobedisplay.tsx, useEVsRead of         *)
(* components/EventsBrowser.tsx, apis/httpprobe.ts).  Both are started     *)
(* over by a Refresh button while older requests may still be outstanding  *)
(* or being read.  A DNS panel cancels the reader of the older request if  *)
(* it has one and keeps its answers; an HTTP panel forgets the reader and  *)
(* empties its list, and nothing but one shared tickRef tells the loop of  *)
(* the older reader to end.                                                *)
(***************************************************************************)
EXTENDS SamplePanels, Functions

CONSTANTS Pairs,         \* pairs of source and corrId
          MaxHTTPLines   \* bound: lines of all streams of an HTTP panel

VARIABLES
  writer,     \* DNS: per pair, the stream of the answer shown; 0: no data
  loading,    \* DNS: the spinner is shown
  spin,       \* DNS: effects whose timer that hides the spinner is pending
  gen,        \* HTTP: the generation, part of the key of the query
  key,        \* HTTP: the generation each request was made for
  reader,     \* HTTP: the reader the query holds for the current key
  loop,       \* HTTP: where the loop over each reader is
  tick,       \* HTTP: the reader whose loop set tickRef.current; 0: undefined
  queue,      \* HTTP: events the stream holds until they are read
  evs,        \* HTTP: the list of events: records of stream and id
  caught      \* history: readers replaced while a read of theirs was pending

dnsVars == <<writer, loading, spin>>
httpVars == <<gen, key, reader, loop, tick, queue, evs, caught>>
probeVars == <<streamVars, panelVars, kind, dnsVars, httpVars>>

\* The id of an event is its source, corrId and position in its stream.
EventIds == Pairs \X (1..MaxEvents)

ProbePanelsTypeOK ==
  /\ SamplePanelsTypeOK
  /\ writer \in [Pairs -> 0..launched]
  /\ loading \in BOOLEAN /\ spin \subseteq 1..launched
  /\ gen \in 0..MaxStreams /\ key \in [Streams -> 0..gen]
  /\ reader \in 0..launched /\ tick \in 0..launched
  /\ loop \in [Streams -> {"none", "tick", "read", "over"}]
  /\ queue \in [Streams -> Seq(EventIds)]
  /\ evs \in Seq([stream : Streams, id : EventIds])
  /\ caught \subseteq 1..launched

ProbeInit ==
  /\ PanelInit
  /\ writer = [p \in Pairs |-> None]
  /\ loading = FALSE
  /\ spin = {}
  /\ gen = 0
  /\ key = [s \in Streams |-> 0]
  /\ reader = None
  /\ loop = [s \in Streams |-> "none"]
  /\ tick = None
  /\ queue = [s \in Streams |-> <<>>]
  /\ evs = <<>>
  /\ caught = {}

----------------------------------------------------------------------------
(* The DNS panel: ref is the streamRef of the effect that is in force.     *)

DNSMount ==
  /\ kind = "dns" /\ mounted = "no"
  /\ mounted' = "yes"
  /\ timer' = TRUE
  /\ UNCHANGED <<streamVars, active, ref, stopped, rows, snapshot, isRunning,
                 early, kind, dnsVars, httpVars>>

\* The timer of the effect: getDNSResponseStream().
DNSLaunch ==
  /\ kind = "dns" /\ timer
  /\ Fetch
  /\ timer' = FALSE
  /\ ref' = launched'
  /\ UNCHANGED <<mounted, active, stopped, rows, snapshot, isRunning, early,
                 kind, dnsVars, httpVars>>

\* Mutant: the reader is not cancelled.
DNSCleanup_NoCancel ==
  /\ ref' = None
  /\ UNCHANGED <<streamVars, early>>

\* Cleanup of the effect: cancels the reader when there is one.  The timer
\* that hides the spinner is not touched.
DNSCleanup ==
  /\ ref' = None
  /\ Release(IF Live(ref) /\ phase[ref] = "reading" THEN {ref} ELSE {})
  /\ early' = IF Live(ref) /\ phase[ref] = "fetching" THEN early \cup {ref} ELSE early

DNSRefresh ==
  /\ kind = "dns" /\ mounted = "yes"
  /\ timer' = TRUE
  /\ DNSCleanup
  /\ UNCHANGED <<mounted, active, stopped, rows, snapshot, isRunning, kind,
                 dnsVars, httpVars>>

DNSUnmount ==
  /\ kind = "dns" /\ mounted = "yes"
  /\ mounted' = "gone"
  /\ timer' = FALSE
  /\ DNSCleanup
  /\ UNCHANGED <<active, stopped, rows, snapshot, isRunning, kind, dnsVars, httpVars>>

\* doRead() and updateAnswersMap(): the answer of the pair is replaced, the
\* spinner shown and the timer of this effect that hides it set again.
DNSAnswerRead(s, p) ==
  /\ kind = "dns"
  /\ Line(s)
  /\ writer' = [writer EXCEPT ![p] = s]
  /\ loading' = TRUE
  /\ spin' = spin \cup {s}
  /\ UNCHANGED <<panelVars, kind, httpVars>>

DNSSpinnerTimer(s) ==
  /\ kind = "dns" /\ s \in spin
  /\ loading' = FALSE
  /\ spin' = spin \ {s}
  /\ UNCHANGED <<streamVars, panelVars, kind, writer, httpVars>>

DNSResponse(s) ==
  /\ kind = "dns"
  /\ Answered(s) \/ Done(s) \/ Broken(s)
  /\ UNCHANGED <<panelVars, kind, dnsVars, httpVars>>

----------------------------------------------------------------------------
(* The HTTP panel.                                                         *)

\* queryFn: a request for the generation g.
QueryFor(g) ==
  /\ Fetch
  /\ key' = [key EXCEPT ![launched'] = g]

HTTPMount ==
  /\ kind = "http" /\ mounted = "no"
  /\ mounted' = "yes"
  /\ QueryFor(gen)
  /\ UNCHANGED <<active, timer, ref, stopped, rows, snapshot, isRunning, early,
                 kind, dnsVars, gen, reader, loop, tick, queue, evs, caught>>

\* Mutant: the list is kept.
EVsCleanup_KeepsList ==
  /\ tick' = None
  /\ loop' = [s \in Streams |-> IF s = tick /\ loop[s] = "tick" THEN "over" ELSE loop[s]]
  /\ caught' = caught \cup {s \in Streams : loop'[s] \in {"tick", "read"}}
  /\ UNCHANGED evs

\* Cleanup of the effect of useEVsRead: tickRef is cleared, the timer it held
\* too, and the list emptied.  A read that is pending stays pending.
EVsCleanup ==
  /\ tick' = None
  /\ loop' = [s \in Streams |-> IF s = tick /\ loop[s] = "tick" THEN "over" ELSE loop[s]]
  /\ evs' = <<>>
  /\ caught' = caught \cup {s \in Streams : loop'[s] \in {"tick", "read"}}

Fetching == \E s \in Streams : phase[s] = "fetching" /\ key[s] = gen

\* The new key has no data yet: the reader becomes undefined.  The button is
\* disabled while the first request for a key is under way (isLoading).
HTTPRefresh ==
  /\ kind = "http" /\ mounted = "yes" /\ (Fetching => reader # None)
  /\ gen' = gen + 1
  /\ QueryFor(gen')
  /\ reader' = None
  /\ IF reader # None THEN EVsCleanup ELSE UNCHANGED <<tick, loop, evs, caught>>
  /\ UNCHANGED <<panelVars, kind, dnsVars, queue>>

\* useQuery fetches again when the window gets the focus or a request failed
\* (its defaults), unless a request for the key is under way; the old reader
\* stays until the answer.
HTTPFocus ==
  /\ kind = "http" /\ mounted = "yes" /\ ~Fetching
  /\ QueryFor(gen)
  /\ UNCHANGED <<panelVars, kind, dnsVars, gen, reader, loop, tick, queue, evs, caught>>

\* The answer for the current key gives the panel a new reader: cleanup for the
\* old one, and startTick() for the new one.  An answer for an older key stays
\* in the cache of the query and is not read.
HTTPAnswered(s) ==
  /\ kind = "http"
  /\ Answered(s)
  /\ IF mounted = "yes" /\ key[s] = gen
       THEN /\ reader' = s
            /\ tick' = s
            /\ IF reader # None
                 THEN /\ loop' = [r \in Streams |->
                                    CASE r = s -> "tick"
                                      [] r = tick /\ loop[r] = "tick" -> "over"
                                      [] OTHER -> loop[r]]
                      /\ evs' = <<>>
                      /\ caught' = caught \cup
                           {r \in Streams \ {s} : loop'[r] \in {"tick", "read"}}
                 ELSE /\ loop' = [loop EXCEPT ![s] = "tick"]
                      /\ UNCHANGED <<evs, caught>>
       ELSE UNCHANGED <<reader, tick, loop, evs, caught>>
  /\ UNCHANGED <<panelVars, kind, dnsVars, gen, key, queue>>

\* An event of a stream that is being read; nobody pulls the others.
HTTPLine(s, p) ==
  /\ kind = "http" /\ loop[s] \in {"tick", "read"}
  /\ SumFunction(emitted) < MaxHTTPLines
  /\ Line(s)
  /\ queue' = [queue EXCEPT ![s] = Append(@, <<p, emitted'[s]>>)]
  /\ UNCHANGED <<panelVars, kind, dnsVars, gen, key, reader, loop, tick, evs, caught>>

HTTPEnds(s) ==
  /\ kind = "http"
  /\ Done(s) \/ (phase[s] = "fetching" /\ Broken(s))
  /\ UNCHANGED <<panelVars, kind, dnsVars, httpVars>>

\* The connection breaks: the events nobody has read yet are discarded.
HTTPBreaks(s) ==
  /\ kind = "http" /\ phase[s] = "reading"
  /\ Broken(s)
  /\ queue' = [queue EXCEPT ![s] = <<>>]
  /\ UNCHANGED <<panelVars, kind, dnsVars, gen, key, reader, loop, tick, evs, caught>>

\* The timer of startTick(): eventsReader.read().
HTTPTick(s) ==
  /\ kind = "http" /\ loop[s] = "tick"
  /\ loop' = [loop EXCEPT ![s] = "read"]
  /\ UNCHANGED <<streamVars, panelVars, kind, dnsVars, gen, key, reader, tick,
                 queue, evs, caught>>

Known(id) == \E i \in DOMAIN evs : evs[i].id = id

\* setEVs(...): an event whose id is in the list is dropped.
AppendEvent(s, id) ==
  IF Known(id) THEN evs ELSE Append(evs, [stream |-> s, id |-> id])

\* The read is answered: the loop ends when tickRef is undefined, whoever
\* cleared or set it; otherwise it goes on with a new timer in tickRef.
HTTPRead(s) ==
  /\ kind = "http" /\ loop[s] = "read" /\ queue[s] # <<>>
  /\ queue' = [queue EXCEPT ![s] = Tail(@)]
  /\ IF tick = None
       THEN loop' = [loop EXCEPT ![s] = "over"] /\ UNCHANGED <<tick, evs>>
       ELSE /\ evs' = AppendEvent(s, Head(queue[s]))
            /\ tick' = s
            /\ loop' = [loop EXCEPT ![s] = "tick"]
  /\ UNCHANGED <<streamVars, panelVars, kind, dnsVars, gen, key, reader, caught>>

\* The stream is over, or read() rejects, which nobody handles: either way no
\* further timer is started.
HTTPReadDone(s) ==
  /\ kind = "http" /\ loop[s] = "read" /\ queue[s] = <<>>
  /\ phase[s] \in {"ended", "broken"}
  /\ loop' = [loop EXCEPT ![s] = "over"]
  /\ UNCHANGED <<streamVars, panelVars, kind, dnsVars, gen, key, reader, tick,
                 queue, evs, caught>>

HTTPUnmount ==
  /\ kind = "http" /\ mounted = "yes"
  /\ mounted' = "gone"
  /\ reader' = None
  /\ IF reader # None THEN EVsCleanup ELSE UNCHANGED <<tick, loop, evs, caught>>
  /\ UNCHANGED <<streamVars, active, timer, ref, stopped, rows, snapshot,
                 isRunning, early, kind, dnsVars, gen, key, queue>>

----------------------------------------------------------------------------

ProbePanelsNext ==
  \/ DNSMount \/ DNSLaunch \/ DNSRefresh \/ DNSUnmount
  \/ HTTPMount \/ HTTPRefresh \/ HTTPFocus \/ HTTPUnmount
  \/ \E s \in Streams :
       \/ DNSResponse(s) \/ DNSSpinnerTimer(s)
       \/ HTTPAnswered(s) \/ HTTPEnds(s) \/ HTTPBreaks(s)
       \/ HTTPTick(s) \/ HTTPRead(s) \/ HTTPReadDone(s)
       \/ \E p \in Pairs : DNSAnswerRead(s, p) \/ HTTPLine(s, p)

Next ==
  \/ SamplePanelsNext /\ UNCHANGED <<dnsVars, httpVars>>
  \/ ProbePanelsNext

Init == ProbeInit /\ kind \in {"ping", "trace", "dns", "http"}

\* The event loop serves the timers that are due and the reads that have data.
Fairness ==
  /\ SamplePanelsFairness
  /\ WF_probeVars(DNSLaunch)
  /\ \A s \in Streams :
       WF_probeVars(DNSSpinnerTimer(s)) /\ WF_probeVars(HTTPTick(s) \/ HTTPRead(s))

Spec == Init /\ [][Next]_probeVars /\ Fairness

----------------------------------------------------------------------------
(* Properties                                                              *)

\* A newer answer in a DNS table is never replaced by one of an older request,
\* except by a request that was refreshed before its answer arrived: its reader
\* did not exist yet, so the cleanup could not cancel it.
AnswersGoForward ==
  [][\A p \in Pairs :
       writer'[p] # writer[p] => writer'[p] > writer[p] \/ writer'[p] \in early]_probeVars

\* What an HTTP panel lists comes from the current reader, except for readers
\* whose loop was waiting for an event when they were replaced: the loop takes
\* the tickRef of its successor for its own and goes on.
ListedIsCurrentOrCaught ==
  \A i \in DOMAIN evs : evs[i].stream \in {reader} \cup caught

\* The list never holds an event twice, whatever readers feed it.
ListedOnce ==
  \A i, j \in DOMAIN evs : evs[i].id = evs[j].id => i = j

\* The list of an HTTP panel holds every event at most once, and only events
\* that it may hold.
ListIsSound == ListedIsCurrentOrCaught /\ ListedOnce
=============================================================================
