------------------------------ MODULE PingTask ------------------------------
(***************************************************************************)
(* One ping request from the hub to the agents and back.                   *)
(* PingTaskHandler (pkg/handler/handle_pingtask.go) looks every `from` node *)
(* up in the registry, checks its policy and makes one SimpleRemotePinger  *)
(* per node and target, or one per node for HTTP probes.  The events of a  *)
(* pinger pass through three goroutines on unbuffered channels, none of    *)
(* which watches the context: the remote pinger (pkg/pinger/remoteping.go), *)
(* withMetadataPinger and StartMultiplePings (pkg/pinger/types.go).  The   *)
(* handler writes them to the client until one write fails.  At the other  *)
(* end PingHandler (pkg/handler/handle_ping.go) writes one line per event. *)
(***************************************************************************)
EXTENDS Integers, Sequences

CONSTANTS Nodes, Targets,
          MaxFrom,     \* bound: nodes listed in a request
          Forms,       \* the requests: their mode, nodes, targets and packet count
          MaxEvents,   \* bound: events of one agent's pinger, one per packet
          Refusal,     \* an error line of the agent
          Failure,     \* an error event of the hub
          None

Modes == {"ping", "http"}   \* a DNS probe is dispatched like a ping

ASSUME PingTaskConstants ==
  /\ \A f \in Forms : /\ f.mode \in Modes
                      /\ f.from \in Seq(Nodes) /\ Len(f.from) \in 1..MaxFrom
                      /\ f.targets \in (SUBSET Targets) \ {{}}
                      /\ f.count \in 1..MaxEvents
  /\ {MaxFrom, MaxEvents} \subseteq Nat
  /\ {None, Refusal, Failure} \cap Nat = {}
  /\ Refusal # Failure /\ None \notin {Refusal, Failure}

\* A stream is requested over the QUIC connection of its node, or at the HTTP
\* endpoint the node announces: getTransport.
Transports == {"quic", "http"}

\* A pinger is kept under its node and target, an HTTP pinger under its place
\* in pingersFlat: <<0, node, {target}>> or <<place, node, targets>>.
PingStreams(f) == {<<0, f.from[i], {t}>> : i \in DOMAIN f.from, t \in f.targets}
HTTPStreams(f) == {<<i, f.from[i], f.targets>> : i \in DOMAIN f.from}

Stream == UNION {IF f.mode = "http" THEN HTTPStreams(f) ELSE PingStreams(f) : f \in Forms}

VARIABLES
  form,       \* the parsed request: its mode, nodes and targets
  live,       \* nodes whose connection works
  entries,    \* nodes the registry has an entry for
  pc,         \* the handler
  next,       \* the place in form.from it has come to
  looked,     \* whether it has looked that node up
  pingers,    \* the transport of a stream that was made, or "none"
  refused,    \* nodes and targets answered with an error line
  absent,     \* nodes not in the registry when looked up
  remote,     \* the goroutine of SimpleRemotePinger
  held,       \* the event it is sending, if any
  forward,    \* events held by the two forwarding goroutines of a stream
  ended,      \* whether those have returned
  agent,      \* PingHandler on the agent
  total,      \* events its pinger produces
  sent,       \* events written as lines of the response
  body,       \* lines in the response on their way to the hub
  broken,     \* responses whose connection is gone
  gone,       \* the client has closed the request
  delivered   \* events of a stream written to the client

registryVars == <<live, entries>>
dispatchVars == <<next, looked, pingers, refused, absent>>
streamVars == <<remote, held, forward, ended>>
agentVars == <<agent, total, sent, body, broken>>
vars == <<form, registryVars, pc, dispatchVars, streamVars, agentVars, gone, delivered>>

\* The n-th event of the agent's pinger, or an error.
Item == 1..MaxEvents \cup {Refusal, Failure}

Requested == {form.from[i] : i \in DOMAIN form.from} \X form.targets

\* Mutant: the requests to the agents have a context of their own.
CtxDone_Detached == pc = "done"

\* r.Context() is done when the client is gone or the handler has returned.
CtxDone == gone \/ pc = "done"

Init ==
  /\ form \in Forms
  /\ entries \in SUBSET {form.from[i] : i \in DOMAIN form.from}
  /\ live = entries
  /\ pc = "dispatch"
  /\ next = 1
  /\ looked = FALSE
  /\ pingers = [j \in Stream |-> "none"]
  /\ refused = {}
  /\ absent = {}
  /\ remote = [j \in Stream |-> "none"]
  /\ held = [j \in Stream |-> None]
  /\ forward = [j \in Stream |-> <<>>]
  /\ ended = [j \in Stream |-> FALSE]
  /\ agent = [j \in Stream |-> "none"]
  /\ total = [j \in Stream |-> 0]
  /\ sent = [j \in Stream |-> 0]
  /\ body = [j \in Stream |-> <<>>]
  /\ broken = [j \in Stream |-> FALSE]
  /\ gone = FALSE
  /\ delivered = [j \in Stream |-> <<>>]

-----------------------------------------------------------------------------
(* Dispatch.                                                               *)

Lookup ==
  /\ pc = "dispatch"
  /\ ~looked
  /\ next <= Len(form.from)
  /\ LET n == form.from[next]
     IN  IF n \in entries THEN looked' = TRUE /\ UNCHANGED <<next, absent>>
                          ELSE /\ absent' = absent \cup {n}
                               /\ next' = next + 1
                               /\ UNCHANGED looked
  /\ UNCHANGED <<form, registryVars, pc, pingers, refused, streamVars, agentVars, gone,
                 delivered>>

\* The streams of node n for the targets the policy lets through.  A target
\* of an HTTP probe that it does not is requested nevertheless.
NewStreams(n, ok) ==
  IF form.mode = "http" THEN {<<next, n, form.targets>>}
                        ELSE {<<0, n, {t}>> : t \in ok}

\* checkRemotePingerPolicy, per target: the outcome depends on what the
\* resolver answers.
PolicyOutcomes == SUBSET form.targets

\* Mutant: pingers[from] is made anew for every target.
Build_OneTarget ==
  /\ pc = "dispatch"
  /\ looked
  /\ LET n == form.from[next]
     IN  \E ok \in PolicyOutcomes, via \in Transports, last \in form.targets :
           /\ pingers' = [j \in Stream |-> IF j \in NewStreams(n, ok \cap {last})
                                            THEN via ELSE pingers[j]]
           /\ refused' = refused \cup ({n} \X (form.targets \ ok))
  /\ looked' = FALSE
  /\ next' = next + 1
  /\ UNCHANGED <<form, registryVars, pc, absent, streamVars, agentVars, gone, delivered>>

\* The streams of the node looked up, over its QUIC connection or the endpoint
\* it announces; with neither, and for the targets denied, an error line.
Build ==
  /\ pc = "dispatch"
  /\ looked
  /\ LET n == form.from[next]
     IN  \/ \E ok \in PolicyOutcomes, via \in Transports :
              /\ pingers' = [j \in Stream |-> IF j \in NewStreams(n, ok)
                                               THEN via ELSE pingers[j]]
              /\ refused' = refused \cup ({n} \X (form.targets \ ok))
         \/ /\ refused' = refused \cup ({n} \X form.targets)
            /\ UNCHANGED pingers
  /\ looked' = FALSE
  /\ next' = next + 1
  /\ UNCHANGED <<form, registryVars, pc, absent, streamVars, agentVars, gone, delivered>>

Dispatched == {j \in Stream : pingers[j] # "none"}

\* All pingers are started, or "no pingers to start".
Start ==
  /\ pc = "dispatch"
  /\ ~looked
  /\ next > Len(form.from)
  /\ pc' = IF Dispatched = {} THEN "done" ELSE "stream"
  /\ remote' = [j \in Stream |-> IF j \in Dispatched THEN "request" ELSE "none"]
  /\ UNCHANGED <<form, registryVars, dispatchVars, held, forward, ended, agentVars, gone,
                 delivered>>

-----------------------------------------------------------------------------
(* The goroutine of SimpleRemotePinger.                                    *)

Reachable(j) == pingers[j] = "http" \/ j[2] \in live

\* PingHandler checks the request and starts a pinger, or writes an error.
ServePing(j) ==
  \/ /\ total' \in {[total EXCEPT ![j] = k] : k \in 1..form.count}
     /\ agent' = [agent EXCEPT ![j] = "run"]
     /\ UNCHANGED body
  \/ /\ body' = [body EXCEPT ![j] = <<Refusal>>]
     /\ agent' = [agent EXCEPT ![j] = "done"]
     /\ UNCHANGED total

\* client.Do reaches the agent.
Request(j) ==
  /\ remote[j] = "request"
  /\ ~CtxDone
  /\ Reachable(j)
  /\ remote' = [remote EXCEPT ![j] = "scan"]
  /\ ServePing(j)
  /\ UNCHANGED <<form, registryVars, pc, dispatchVars, held, forward, ended, sent, broken, gone,
                 delivered>>

\* A connection that is gone, an endpoint that does not answer, or a context
\* that is done: one error event, and the goroutine returns.
RequestFails(j) ==
  /\ remote[j] = "request"
  /\ CtxDone \/ ~Reachable(j) \/ pingers[j] = "http"
  /\ remote' = [remote EXCEPT ![j] = "fail"]
  /\ held' = [held EXCEPT ![j] = Failure]
  /\ UNCHANGED <<form, registryVars, pc, dispatchVars, forward, ended, agentVars, gone,
                 delivered>>

\* Mutant: the line is read again.
Scan_Again(j) ==
  /\ remote[j] = "scan"
  /\ held[j] = None
  /\ body[j] # <<>>
  /\ held' = [held EXCEPT ![j] = Head(body[j])]
  /\ UNCHANGED <<form, registryVars, pc, dispatchVars, remote, forward, ended, agentVars,
                 gone, delivered>>

\* scanner.Scan returns a line.
Scan(j) ==
  /\ remote[j] = "scan"
  /\ held[j] = None
  /\ body[j] # <<>>
  /\ held' = [held EXCEPT ![j] = Head(body[j])]
  /\ body' = [body EXCEPT ![j] = Tail(@)]
  /\ UNCHANGED <<form, registryVars, pc, dispatchVars, remote, forward, ended, agent,
                 total, sent, broken, gone, delivered>>

\* scanner.Scan returns FALSE: at the end of the response, and as well when
\* the response broke off or the context is done, which nobody reports.
RemoteEnds(j) ==
  /\ held[j] = None
  /\ \/ remote[j] = "fail"
     \/ remote[j] = "scan" /\ (broken[j] \/ CtxDone \/ (agent[j] = "done" /\ body[j] = <<>>))
  /\ remote' = [remote EXCEPT ![j] = "ended"]
  /\ UNCHANGED <<form, registryVars, pc, dispatchVars, held, forward, ended, agentVars, gone,
                 delivered>>

-----------------------------------------------------------------------------
(* The goroutine of withMetadataPinger and that of StartMultiplePings each *)
(* receive an event and then send it: together they hold up to two.        *)

Forward(j) ==
  /\ held[j] # None
  /\ Len(forward[j]) < 2
  /\ forward' = [forward EXCEPT ![j] = Append(@, held[j])]
  /\ held' = [held EXCEPT ![j] = None]
  /\ UNCHANGED <<form, registryVars, pc, dispatchVars, remote, ended, agentVars, gone,
                 delivered>>

\* The channel they read from is closed, and they have sent what they held.
ForwardEnds(j) ==
  /\ remote[j] = "ended"
  /\ forward[j] = <<>>
  /\ ~ended[j]
  /\ ended' = [ended EXCEPT ![j] = TRUE]
  /\ UNCHANGED <<form, registryVars, pc, dispatchVars, remote, held, forward, agentVars,
                 gone, delivered>>

-----------------------------------------------------------------------------
(* The loop of the handler.                                                *)

\* An event is written, to a client that is there or to a socket buffer.
Encode(j) ==
  /\ pc = "stream"
  /\ forward[j] # <<>>
  /\ forward' = [forward EXCEPT ![j] = Tail(@)]
  /\ delivered' = IF gone THEN delivered
                          ELSE [delivered EXCEPT ![j] = Append(@, Head(forward[j]))]
  /\ UNCHANGED <<form, registryVars, pc, dispatchVars, remote, held, ended, agentVars, gone>>

\* The client is gone and the write fails: the handler returns.
EncodeFails(j) ==
  /\ pc = "stream"
  /\ gone
  /\ forward[j] # <<>>
  /\ forward' = [forward EXCEPT ![j] = Tail(@)]
  /\ pc' = "done"
  /\ UNCHANGED <<form, registryVars, dispatchVars, remote, held, ended, agentVars, gone,
                 delivered>>

\* Mutant: eventCh is closed as soon as one pinger has ended.
HandlerEnds_NoWait ==
  /\ pc = "stream"
  /\ \E j \in Dispatched : ended[j]
  /\ pc' = "done"
  /\ UNCHANGED <<form, registryVars, dispatchVars, streamVars, agentVars, gone, delivered>>

\* wg.Wait returns and eventCh is closed.
HandlerEnds ==
  /\ pc = "stream"
  /\ \A j \in Dispatched : ended[j]
  /\ pc' = "done"
  /\ UNCHANGED <<form, registryVars, dispatchVars, streamVars, agentVars, gone, delivered>>

-----------------------------------------------------------------------------
(* PingHandler on the agent.  Its request context is done once the hub has *)
(* closed the response or cancelled the request, or the connection broke.  *)

Cancelled(j) == broken[j] \/ CtxDone \/ remote[j] = "ended"

\* An event of the pinger becomes a line.
AgentWrites(j) ==
  /\ agent[j] = "run"
  /\ sent[j] < total[j]
  /\ sent' = [sent EXCEPT ![j] = @ + 1]
  /\ body' = [body EXCEPT ![j] = Append(@, sent[j] + 1)]
  /\ UNCHANGED <<form, registryVars, pc, dispatchVars, streamVars, agent, total, broken,
                 gone, delivered>>

\* The pinger has closed its channel, by itself or because of its context, or
\* a line could not be written.
AgentEnds(j) ==
  /\ agent[j] = "run"
  /\ sent[j] = total[j] \/ Cancelled(j)
  /\ agent' = [agent EXCEPT ![j] = "done"]
  /\ UNCHANGED <<form, registryVars, pc, dispatchVars, streamVars, total, sent, body, broken,
                 gone, delivered>>

-----------------------------------------------------------------------------
(* Connections and the client.                                             *)

\* The connection of a node is gone, and the responses it carried with it.
Break(n) ==
  /\ n \in live
  /\ live' = live \ {n}
  /\ broken' = [j \in Stream |-> broken[j] \/ (/\ j[2] = n
                                                /\ pingers[j] = "quic"
                                                /\ remote[j] = "scan")]
  /\ UNCHANGED <<form, entries, pc, dispatchVars, streamVars, agent, total, sent, body, gone,
                 delivered>>

\* A response from an announced endpoint breaks off.
BreakResponse(j) ==
  /\ pingers[j] = "http"
  /\ remote[j] = "scan"
  /\ ~broken[j]
  /\ broken' = [broken EXCEPT ![j] = TRUE]
  /\ UNCHANGED <<form, registryVars, pc, dispatchVars, streamVars, agent, total, sent, body,
                 gone, delivered>>

\* The hub notices that a connection is gone.
Deregister(n) ==
  /\ pc = "dispatch"
  /\ n \in entries \ live
  /\ entries' = entries \ {n}
  /\ UNCHANGED <<form, live, pc, dispatchVars, streamVars, agentVars, gone, delivered>>

ClientLeaves ==
  /\ ~gone
  /\ gone' = TRUE
  /\ UNCHANGED <<form, registryVars, pc, dispatchVars, streamVars, agentVars, delivered>>

-----------------------------------------------------------------------------
Handler == Lookup \/ Build \/ Start \/ HandlerEnds \/ \E j \in Stream : Encode(j) \/ EncodeFails(j)

Remote(j) == Request(j) \/ RequestFails(j) \/ Scan(j) \/ RemoteEnds(j)

Forwarder(j) == Forward(j) \/ ForwardEnds(j)

Agent(j) == AgentWrites(j) \/ AgentEnds(j)

\* Bound: the nodes asked for, while the response lasts; nothing else could
\* make a difference to it.
Environment ==
  /\ pc # "done"
  /\ \/ ClientLeaves
     \/ \E i \in DOMAIN form.from :
          LET n == form.from[i] IN Break(n) \/ Deregister(n)
     \/ \E j \in Stream : BreakResponse(j)

Next ==
  \/ Handler \/ Environment
  \/ \E j \in Stream : Remote(j) \/ Forwarder(j) \/ Agent(j)

Spec == Init /\ [][Next]_vars

\* Goroutines that can run do, on the hub and on the agents.  A ping may take
\* for ever to produce its events, but its channel is closed when its context
\* is done.
Fairness ==
  /\ WF_vars(Handler)
  /\ \A j \in Stream :
       /\ WF_vars(Remote(j))
       /\ WF_vars(Forwarder(j))
       /\ WF_vars(AgentEnds(j))

FairSpec == Spec /\ Fairness

-----------------------------------------------------------------------------
\* The variables stay in their types.
TaskTypeOK ==
  /\ form \in Forms
  /\ looked => next <= Len(form.from)
  /\ entries \subseteq Nodes
  /\ live \subseteq entries
  /\ pc \in {"dispatch", "stream", "done"}
  /\ next \in 1..(MaxFrom + 1)
  /\ looked \in BOOLEAN
  /\ pingers \in [Stream -> Transports \cup {"none"}]
  /\ refused \subseteq Nodes \X Targets
  /\ absent \subseteq Nodes
  /\ remote \in [Stream -> {"none", "request", "scan", "fail", "ended"}]
  /\ held \in [Stream -> Item \cup {None}]
  /\ forward \in [Stream -> Seq(Item)]
  /\ \A j \in Stream : Len(forward[j]) <= 2
  /\ ended \in [Stream -> BOOLEAN]
  /\ agent \in [Stream -> {"none", "run", "done"}]
  /\ total \in [Stream -> 0..MaxEvents]
  /\ sent \in [Stream -> 0..MaxEvents]
  /\ body \in [Stream -> Seq(Item)]
  /\ broken \in [Stream -> BOOLEAN]
  /\ gone \in BOOLEAN
  /\ delivered \in [Stream -> Seq(Item)]

UpTo(k) == [i \in 1..k |-> i]

\* Whatever happens to connections, goroutines and the client, the client sees
\* of each stream a beginning of what the agent's pinger produced, in its
\* order and nothing twice, or the one error that took its place.
DeliveredInOrder ==
  \A j \in Stream :
    \/ delivered[j] \in {<<Refusal>>, <<Failure>>}
    \/ /\ Len(delivered[j]) <= sent[j]
       /\ delivered[j] = UpTo(Len(delivered[j]))

\* A response that ends while the client is there has every event of every
\* stream whose connection held, and leaves no goroutine behind.
CompleteAtEnd ==
  pc = "done" /\ ~gone => \A j \in Dispatched :
    /\ remote[j] = "ended" /\ ended[j]
    /\ \/ broken[j]
       \/ delivered[j] \in {<<Refusal>>, <<Failure>>}
       \/ agent[j] = "done" /\ delivered[j] = UpTo(total[j])

\* Nothing asked for is passed over in silence, but for a node that is not
\* registered and a response that broke off.
EveryPairAnswered ==
  pc = "done" /\ ~gone => \A pair \in Requested :
    \/ pair[1] \in absent
    \/ pair \in refused
    \/ \E j \in Dispatched : /\ j[2] = pair[1]
                             /\ pair[2] \in j[3]
                             /\ delivered[j] # <<>> \/ broken[j]

\* When the client leaves, the handler returns and no agent goes on probing,
\* although goroutines of the hub may hang in a send for good.
LeavingStopsAgents ==
  gone ~> (pc = "done" /\ \A j \in Stream : agent[j] # "run")
=============================================================================
