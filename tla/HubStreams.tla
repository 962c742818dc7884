----------------------------- MODULE HubStreams -----------------------------
(***************************************************************************)
(* The streams a page of the web console opens with fetch(.../ping) and     *)
(* reads line by line: apis/globalping.ts, apis/httpprobe.ts.  JavaScript   *)
(* runs a task and all the microtasks it queues before the next task, so   *)
(* one action below is one task: a response arrives, a line arrives and is *)
(* carried through the whole pipeline, the hub ends the body.              *)
(***************************************************************************)
EXTENDS Naturals, Sequences, FiniteSets

CONSTANTS MaxStreams,   \* bound: fetches of one panel
          MaxEvents     \* bound: lines of one stream

ASSUME HubStreamsConstants ==
  /\ MaxStreams \in Nat \ {0}
  /\ MaxEvents \in Nat \ {0}

VARIABLES
  launched,   \* number of fetches so far; they are numbered 1, 2, ...
  phase,      \* what the page knows of each
  open,       \* the requests the hub is still serving
  emitted     \* lines each response has carried so far

streamVars == <<launched, phase, open, emitted>>

Streams == 1..MaxStreams

None == 0

StreamsTypeOK ==
  /\ launched \in 0..MaxStreams
  /\ phase \in [Streams -> {"new", "fetching", "reading", "ended", "broken"}]
  /\ open \subseteq 1..launched
  /\ emitted \in [Streams -> 0..MaxEvents]

StreamsInit ==
  /\ launched = 0
  /\ phase = [s \in Streams |-> "new"]
  /\ open = {}
  /\ emitted = [s \in Streams |-> 0]

\* Mutant: the requests are not numbered.
Fetch_SameNumber ==
  /\ launched < MaxStreams
  /\ UNCHANGED <<launched, emitted>>
  /\ phase' = [phase EXCEPT ![launched + 1] = "fetching"]
  /\ open' = open \cup {launched + 1}

\* fetch(url): the request leaves at once, with number launched + 1.
Fetch ==
  /\ launched < MaxStreams
  /\ launched' = launched + 1
  /\ phase' = [phase EXCEPT ![launched'] = "fetching"]
  /\ open' = open \cup {launched'}
  /\ UNCHANGED emitted

\* The headers arrive; the body is piped through decoder, tokenizer, parser
\* and adapter, and a reader is taken.
Answered(s) ==
  /\ phase[s] = "fetching"
  /\ phase' = [phase EXCEPT ![s] = "reading"]
  /\ UNCHANGED <<launched, open, emitted>>

\* A line that the adapter turns into a value of the stream.
Line(s) ==
  /\ phase[s] = "reading"
  /\ emitted[s] < MaxEvents
  /\ emitted' = [emitted EXCEPT ![s] = @ + 1]
  /\ UNCHANGED <<launched, phase, open>>

\* The hub ends the body: the reader sees done.
Done(s) ==
  /\ phase[s] = "reading"
  /\ phase' = [phase EXCEPT ![s] = "ended"]
  /\ open' = open \ {s}
  /\ UNCHANGED <<launched, emitted>>

\* The request fails, or the connection breaks under the body.
Broken(s) ==
  /\ phase[s] \in {"fetching", "reading"}
  /\ phase' = [phase EXCEPT ![s] = "broken"]
  /\ open' = open \ {s}
  /\ UNCHANGED <<launched, emitted>>

\* What cancelling a reader or aborting a request does: the request is closed
\* and, on the hub, the agents stop.
Live(s) == s # None /\ phase[s] \in {"fetching", "reading"}

Release(given) ==
  /\ phase' = [s \in Streams |-> IF s \in given THEN "ended" ELSE phase[s]]
  /\ open' = open \ given
  /\ UNCHANGED <<launched, emitted>>
=============================================================================
