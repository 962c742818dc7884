-------------------------- MODULE HubRegistration --------------------------
(***************************************************************************)
(* How agents come into the registry of the hub and leave it again: the    *)
(* registration agent of pkg/nodereg/agent.go with the restart loop of     *)
(* pkg/cli/agent.go on one side; on the other the connection handlers of   *)
(* the hub, WebSocket (pkg/handler/handle_ws.go) and QUIC                  *)
(* (handle_quic.go), each a goroutine that waits for the gc timer or for   *)
(* an error, and goroutines that read.  Between them connections that break *)
(* without notice, and QUIC connections that work on while their agent has *)
(* dialed a new one.  Withdrawals of attributes are never sent by an agent.*)
(***************************************************************************)
EXTENDS ConnRegistry, Naturals, Sequences

CONSTANTS NoKey,
          AnnouncedBy,   \* NodeAttributes of an agent
          MaxInbox,      \* bound: messages under way on a connection
          MaxFaults      \* bound: crashes, cuts, failed receivers and
                         \* unprovoked gc timeouts

Agents == NodeNames

ASSUME HubConstants ==
  /\ NoKey \notin Keys
  /\ AnnouncedBy \in [Agents -> Attributes]
  /\ MaxInbox \in Nat \ {0}
  /\ MaxFaults \in Nat

VARIABLES
  agent,      \* where the registration agent of a node is
  conn,       \* the connection it uses
  quic,       \* the agents that use QUIC; the others use WebSocket
  refused,    \* QUIC agents whose token does not pass ParseToken
  owner,      \* who dialed a connection
  link,       \* "none", "up", "lost", or "closed" by the hub
  inbox,      \* messages on the way to the hub
  registry,
  handler,    \* where the connection handler is
  reader,     \* where the goroutine that reads messages is
  acceptor,   \* QUIC: where the goroutine that accepts streams is
  errs,       \* QUIC: errors in the buffer of connErrCh
  hub,        \* "up" or "crashed"
  faults

agentVars == <<agent, conn, quic, refused>>
netVars == <<owner, link, inbox>>
hubVars == <<registry, handler, reader, acceptor, errs, hub>>
vars == <<agent, conn, quic, refused, owner, link, inbox, registry, handler, reader,
          acceptor, errs, hub, faults>>

QUIC(k) == owner[k] \in quic

\* Nobody closes a connection its agent has turned away from.
InUse(k) == \E a \in Agents : conn[a] = k

Init ==
  /\ agent = [a \in Agents |-> "idle"]
  /\ conn = [a \in Agents |-> NoKey]
  /\ quic \in SUBSET Agents
  /\ refused \in SUBSET quic
  /\ owner = [k \in Keys |-> Unnamed]
  /\ link = [k \in Keys |-> "none"]
  /\ inbox = [k \in Keys |-> <<>>]
  /\ registry = EmptyRegistry
  /\ handler = [k \in Keys |-> "none"]
  /\ reader = [k \in Keys |-> "none"]
  /\ acceptor = [k \in Keys |-> "none"]
  /\ errs = [k \in Keys |-> 0]
  /\ hub = "up"
  /\ faults = 0

Fault == faults < MaxFaults /\ faults' = faults + 1

-----------------------------------------------------------------------------
(* The agent.                                                              *)

\* Nothing of an earlier use of the key can act any more.  (Keys are uuids;
\* taking up a spent one again keeps the model finite.)
Spent(k) ==
  /\ handler[k] \in {"none", "done"}
  /\ reader[k] \in {"none", "report", "ended"}
  /\ acceptor[k] \in {"none", "report", "ended"}
  /\ \A a \in Agents : conn[a] # k

\* doRun dials the hub.
Dial(a) ==
  /\ agent[a] = "idle"
  /\ \E k \in Keys :
       /\ Spent(k)
       /\ conn' = [conn EXCEPT ![a] = k]
       /\ owner' = [owner EXCEPT ![k] = a]
       /\ link' = [link EXCEPT ![k] = "up"]
       /\ inbox' = [inbox EXCEPT ![k] = <<>>]
       /\ handler' = [handler EXCEPT ![k] = "accepted"]
       /\ reader' = [reader EXCEPT ![k] = "none"]
       /\ acceptor' = [acceptor EXCEPT ![k] = "none"]
       /\ errs' = [errs EXCEPT ![k] = 0]
  /\ agent' = [agent EXCEPT ![a] = "dialed"]
  /\ UNCHANGED <<quic, refused, registry, hub, faults>>

\* The register message carries the name and the attributes.
SendRegister(a) ==
  /\ agent[a] = "dialed"
  /\ link[conn[a]] = "up"
  /\ inbox' = [inbox EXCEPT ![conn[a]] = Append(@, "register")]
  /\ agent' = [agent EXCEPT ![a] = "running"]
  /\ UNCHANGED <<conn, quic, refused, owner, link, hubVars, faults>>

\* An echo message on a tick; a full connection blocks the sender.
Tick(a) ==
  /\ agent[a] = "running"
  /\ link[conn[a]] = "up"
  /\ Len(inbox[conn[a]]) < MaxInbox
  /\ inbox' = [inbox EXCEPT ![conn[a]] = Append(@, "echo")]
  /\ UNCHANGED <<agentVars, owner, link, hubVars, faults>>

\* The agent's side of a connection has ended: it is broken, or the hub has
\* closed the QUIC stream after an error on it.
Ended(k) == link[k] # "up" \/ (QUIC(k) /\ reader[k] = "ended")

\* Mutant: the agent starts over although its connection works.
Reconnect_Early(a) ==
  /\ agent[a] \in {"dialed", "running"}
  /\ agent' = [agent EXCEPT ![a] = "idle"]
  /\ conn' = [conn EXCEPT ![a] = NoKey]
  /\ UNCHANGED <<quic, refused, netVars, hubVars, faults>>

\* Mutant: the restart loop takes every end of doRun for the normal one.
Reconnect_Exits(a) ==
  /\ agent[a] \in {"dialed", "running"}
  /\ Ended(conn[a])
  /\ agent' = [agent EXCEPT ![a] = "exited"]
  /\ conn' = [conn EXCEPT ![a] = NoKey]
  /\ UNCHANGED <<quic, refused, netVars, hubVars, faults>>

\* Sending or receiving fails: doRun returns, without closing what it
\* dialed, and the loop of the command line starts it again after a pause.
Reconnect(a) ==
  /\ agent[a] \in {"dialed", "running"}
  /\ Ended(conn[a])
  /\ agent' = [agent EXCEPT ![a] = "idle"]
  /\ conn' = [conn EXCEPT ![a] = NoKey]
  /\ UNCHANGED <<quic, refused, netVars, hubVars, faults>>

\* An echo of the connection has been answered.
Answered(k) ==
  k \in Open(registry) /\ registry[k].heartbeat /\ reader[k] # "reply"

\* Each message is decoded by a new json.Decoder, and what the last one had
\* read ahead is lost: the next may start inside a reply and fail.  doRun
\* returns as above, but here the connection works, and nobody closes it.
ReceiverFails(a) ==
  /\ a \in quic
  /\ agent[a] = "running"
  /\ link[conn[a]] = "up" /\ Answered(conn[a])
  /\ Fault
  /\ agent' = [agent EXCEPT ![a] = "idle"]
  /\ conn' = [conn EXCEPT ![a] = NoKey]
  /\ UNCHANGED <<quic, refused, netVars, hubVars>>

\* NewRawServerConn fails: doRun returns nil, and the loop ends for good.
GiveUp(a) ==
  /\ a \in quic
  /\ agent[a] = "dialed"
  /\ link[conn[a]] # "up"
  /\ agent' = [agent EXCEPT ![a] = "exited"]
  /\ conn' = [conn EXCEPT ![a] = NoKey]
  /\ UNCHANGED <<quic, refused, netVars, hubVars, faults>>

\* The process of the agent dies and its connections with it.
AgentCrash(a) ==
  /\ agent[a] \in {"dialed", "running"}
  /\ Fault
  /\ agent' = [agent EXCEPT ![a] = "down"]
  /\ conn' = [conn EXCEPT ![a] = NoKey]
  /\ link' = [k \in Keys |-> IF owner[k] = a /\ link[k] = "up" THEN "lost"
                                                             ELSE link[k]]
  /\ UNCHANGED <<quic, refused, owner, inbox, hubVars>>

AgentStart(a) ==
  /\ agent[a] = "down"
  /\ agent' = [agent EXCEPT ![a] = "idle"]
  /\ UNCHANGED <<conn, quic, refused, netVars, hubVars, faults>>

\* The network between the two sides fails.
CutLink(k) ==
  /\ link[k] = "up"
  /\ Fault
  /\ link' = [link EXCEPT ![k] = "lost"]
  /\ UNCHANGED <<agentVars, owner, inbox, hubVars>>

\* QUIC closes a connection that carries nothing for a while.
IdleTimeout(k) ==
  /\ link[k] = "up"
  /\ QUIC(k) /\ ~InUse(k)
  /\ link' = [link EXCEPT ![k] = "lost"]
  /\ UNCHANGED <<agentVars, owner, inbox, hubVars, faults>>

-----------------------------------------------------------------------------
(* The connection handler.                                                 *)

\* OpenConnection, then the goroutine that reads (WebSocket) or accepts
\* streams (QUIC) is started.
OpenHandler(k) ==
  /\ handler[k] = "accepted"
  /\ registry' = OpenConnection(registry, k)
  /\ handler' = [handler EXCEPT ![k] = "wait"]
  /\ reader' = [reader EXCEPT ![k] = IF QUIC(k) THEN "none" ELSE "read"]
  /\ acceptor' = [acceptor EXCEPT ![k] = IF QUIC(k) THEN "accept" ELSE "none"]
  /\ UNCHANGED <<agentVars, netVars, errs, hub, faults>>

HandlerGoes(k, from, to) ==
  /\ handler[k] = from
  /\ handler' = [handler EXCEPT ![k] = to]

\* A connection that is broken, or not used any more, stays silent.
Silent(k) == link[k] # "up" \/ ~InUse(k)

\* The gc timer: after a silence, or, on a connection that works, because
\* messages came late.
GCTimeout(k) ==
  /\ HandlerGoes(k, "wait", "leave")
  /\ Silent(k) \/ faults < MaxFaults
  /\ faults' = IF Silent(k) THEN faults ELSE faults + 1
  /\ UNCHANGED <<agentVars, netVars, registry, reader, acceptor, errs, hub>>

\* QUIC: an error is received from the buffer.
ReceiveError(k) ==
  /\ errs[k] > 0
  /\ HandlerGoes(k, "wait", "leave")
  /\ errs' = [errs EXCEPT ![k] = @ - 1]
  /\ UNCHANGED <<agentVars, netVars, registry, reader, acceptor, hub, faults>>

\* The deferred functions: the timer is stopped and set to nil, ...
DropTimer(k) ==
  /\ HandlerGoes(k, "leave", "timerGone")
  /\ UNCHANGED <<agentVars, netVars, registry, reader, acceptor, errs, hub, faults>>

\* ... the connection is closed, ...
CloseConn(k) ==
  /\ HandlerGoes(k, "timerGone", "closed")
  /\ link' = [link EXCEPT ![k] = "closed"]
  /\ UNCHANGED <<agentVars, owner, inbox, registry, reader, acceptor, errs, hub, faults>>

\* ... and the entry is removed.
RemoveEntry(k) ==
  /\ HandlerGoes(k, "closed", "done")
  /\ registry' = CloseConnection(registry, k)
  /\ UNCHANGED <<agentVars, netVars, reader, acceptor, errs, hub, faults>>

-----------------------------------------------------------------------------
(* The goroutines that read.                                               *)

ReaderGoes(k, from, to) ==
  /\ reader[k] = from
  /\ reader' = [reader EXCEPT ![k] = to]

\* QUIC: the stream of the agent shows up with the first message on it.
AcceptStream(k) ==
  /\ acceptor[k] = "accept"
  /\ inbox[k] # <<>>
  /\ ReaderGoes(k, "none", "read")
  /\ UNCHANGED <<agentVars, netVars, registry, handler, acceptor, errs, hub, faults>>

AcceptFails(k) ==
  /\ acceptor[k] = "accept"
  /\ link[k] # "up"
  /\ acceptor' = [acceptor EXCEPT ![k] = "report"]
  /\ UNCHANGED <<agentVars, netVars, registry, handler, reader, errs, hub, faults>>

\* What was received before the connection broke may still be read.
ReadMessage(k) ==
  /\ inbox[k] # <<>>
  /\ ReaderGoes(k, "read", Head(inbox[k]))
  /\ inbox' = [inbox EXCEPT ![k] = Tail(@)]
  /\ UNCHANGED <<agentVars, owner, link, registry, handler, acceptor, errs, hub, faults>>

\* The rest is lost.
ReadFails(k) ==
  /\ link[k] # "up"
  /\ ReaderGoes(k, "read", "report")
  /\ inbox' = [inbox EXCEPT ![k] = <<>>]
  /\ UNCHANGED <<agentVars, owner, link, registry, handler, acceptor, errs, hub, faults>>

\* Mutant: a refused token is logged like any other bad message.
HandleRegister_KeepsReading(k) ==
  LET accepted == owner[k] \notin refused IN
  /\ ReaderGoes(k, "register", IF accepted THEN "announce" ELSE "read")
  /\ registry' = IF accepted THEN Register(registry, k, owner[k]) ELSE registry
  /\ UNCHANGED <<agentVars, netVars, handler, acceptor, errs, hub, faults>>

\* handleMessage: QUIC checks the token first, and gives up the stream on an
\* error, be it the token or a missing entry.  WebSocket ignores the error.
HandleRegister(k) ==
  LET accepted == owner[k] \notin refused
      fails == QUIC(k) /\ (~accepted \/ k \notin Open(registry))
  IN
  /\ ReaderGoes(k, "register", IF fails THEN "report" ELSE "announce")
  /\ registry' = IF accepted THEN Register(registry, k, owner[k]) ELSE registry
  /\ UNCHANGED <<agentVars, netVars, handler, acceptor, errs, hub, faults>>

HandleAttributes(k) ==
  /\ ReaderGoes(k, "announce", "reset")
  /\ registry' = SetAttributes(registry, k, {}, AnnouncedBy[owner[k]])
  /\ UNCHANGED <<agentVars, netVars, handler, acceptor, errs, hub, faults>>

HandleEcho(k) ==
  /\ ReaderGoes(k, "echo", "reply")
  /\ registry' = UpdateHeartbeat(registry, k)
  /\ UNCHANGED <<agentVars, netVars, handler, acceptor, errs, hub, faults>>

\* Writing the reply fails on a broken connection, though not always at once.
\* QUIC reports the error, WebSocket goes on reading without Reset.
Reply(k) ==
  /\ \/ /\ link[k] # "closed"
        /\ ReaderGoes(k, "reply", "reset")
     \/ /\ link[k] # "up"
        /\ ReaderGoes(k, "reply", IF QUIC(k) THEN "report" ELSE "read")
  /\ UNCHANGED <<agentVars, netVars, registry, handler, acceptor, errs, hub, faults>>

\* gcTimer.Reset of a timer that is nil by now panics, in a goroutine that
\* does not recover: the process ends.
ResetTimer(k) ==
  /\ ReaderGoes(k, "reset", "read")
  /\ hub' = IF handler[k] \in {"timerGone", "closed", "done"} THEN "crashed" ELSE hub
  /\ UNCHANGED <<agentVars, netVars, registry, handler, acceptor, errs, faults>>

\* connErrCh <- err.  WebSocket: unbuffered, so only while the handler waits.
ReportError(k) ==
  /\ ~QUIC(k)
  /\ ReaderGoes(k, "report", "ended")
  /\ HandlerGoes(k, "wait", "leave")
  /\ UNCHANGED <<agentVars, netVars, registry, acceptor, errs, hub, faults>>

\* QUIC: a buffer of one error, and two goroutines that may report.
BufferError(k) ==
  /\ QUIC(k)
  /\ errs[k] = 0
  /\ errs' = [errs EXCEPT ![k] = 1]
  /\ \/ /\ ReaderGoes(k, "report", "ended")
        /\ UNCHANGED acceptor
     \/ /\ acceptor[k] = "report"
        /\ acceptor' = [acceptor EXCEPT ![k] = "ended"]
        /\ UNCHANGED reader
  /\ UNCHANGED <<agentVars, netVars, registry, handler, hub, faults>>

-----------------------------------------------------------------------------
AgentStep(a) == Dial(a) \/ SendRegister(a) \/ Reconnect(a) \/ GiveUp(a) \/ Tick(a)

HandlerStep(k) ==
  \/ OpenHandler(k) \/ ReceiveError(k) \/ DropTimer(k) \/ CloseConn(k) \/ RemoveEntry(k)

ReaderStep(k) ==
  \/ AcceptStream(k) \/ AcceptFails(k) \/ ReadMessage(k) \/ ReadFails(k)
  \/ HandleRegister(k) \/ HandleAttributes(k) \/ HandleEcho(k) \/ Reply(k)
  \/ ResetTimer(k) \/ ReportError(k) \/ BufferError(k)

Step ==
  \/ \E a \in Agents : AgentStep(a) \/ ReceiverFails(a) \/ AgentCrash(a) \/ AgentStart(a)
  \/ \E k \in Keys : \/ HandlerStep(k) \/ GCTimeout(k) \/ ReaderStep(k)
                     \/ CutLink(k) \/ IdleTimeout(k)

\* What follows a crash of the hub is not followed.
Next == hub = "up" /\ Step

Spec == Init /\ [][Next]_vars

\* Goroutines that can run do; a connection that stays silent has its gc
\* timer fire.  Strong fairness for Dial: there is always a new uuid,
\* while the keys of the model may all be taken for a moment.  A crashed agent
\* need not be started again.
FairSpec ==
  /\ Spec
  /\ \A a \in Agents : /\ WF_vars(hub = "up" /\ AgentStep(a))
                       /\ SF_vars(hub = "up" /\ Dial(a))
  /\ \A k \in Keys : /\ WF_vars(hub = "up" /\ HandlerStep(k))
                     /\ WF_vars(hub = "up" /\ ReaderStep(k))
                     /\ WF_vars(hub = "up" /\ Silent(k) /\ GCTimeout(k))

-----------------------------------------------------------------------------
Messages == {"register", "echo"}

VariablesTyped ==
  /\ agent \in [Agents -> {"idle", "dialed", "running", "down", "exited"}]
  /\ conn \in [Agents -> Keys \cup {NoKey}]
  /\ \A a \in Agents : agent[a] \in {"dialed", "running"} <=> conn[a] # NoKey
  /\ quic \subseteq Agents
  /\ refused \subseteq quic
  /\ owner \in [Keys -> Agents \cup {Unnamed}]
  /\ link \in [Keys -> {"none", "up", "lost", "closed"}]
  /\ inbox \in [Keys -> Seq(Messages)]
  /\ handler \in [Keys -> {"none", "accepted", "wait", "leave", "timerGone",
                           "closed", "done"}]
  /\ reader \in [Keys -> Messages \cup {"none", "read", "announce", "reply", "reset",
                                       "report", "ended"}]
  /\ acceptor \in [Keys -> {"none", "accept", "report", "ended"}]
  /\ errs \in [Keys -> 0..1]
  /\ hub \in {"up", "crashed"}
  /\ faults \in 0..MaxFaults

InboxesBounded == \A k \in Keys : Len(inbox[k]) <= MaxInbox

EntriesTyped ==
  /\ Open(registry) \subseteq Keys
  /\ \A k \in Open(registry) : registry[k] \in Entry

\* Every variable stays in its type, a running agent has a connection, no
\* connection carries more messages than it may, and the buffer of connErrCh
\* never holds two errors although two goroutines may report one.
HubTypeOK == VariablesTyped /\ InboxesBounded /\ EntriesTyped

\* No ghosts: an entry is there exactly as long as the handler of its
\* connection runs.  The goroutine that reads may outlive the handler and
\* still register names, attributes and heartbeats under the dead key.
EntryHasHandler ==
  \A k \in Keys : k \in Open(registry)
                  <=> handler[k] \in {"wait", "leave", "timerGone", "closed"}

\* A heartbeat is recorded only for a connection whose token has passed and
\* whose entry already carries the name and the attributes of its agent.
BeatingIsRegistered ==
  \A k \in Open(registry) :
    registry[k].heartbeat => /\ owner[k] \in Agents \ refused
                             /\ registry[k].node = owner[k]
                             /\ registry[k].attributes = AnnouncedBy[owner[k]]

\* However often an agent reconnects, crashes and comes back, at most one of
\* its WebSocket connections works.  doRun closes nothing it dialed: it must
\* not return before the connection is broken, and over QUIC it may.
OneLiveWebSocket ==
  \A j, k \in Keys :
    /\ owner[j] = owner[k] /\ ~QUIC(k)
    /\ link[j] = "up" /\ link[k] = "up"
    => j = k

\* The entry of a connection that is broken, or that works on while its agent
\* has dialed another, is eventually removed, whatever its goroutines were
\* doing, and whether or not anyone reports an error.
BrokenIsRemoved ==
  \A k \in Keys : k \in Open(registry) /\ Silent(k)
                  ~> k \notin Open(registry) \/ hub = "crashed"

Reachable(a) ==
  /\ conn[a] \in SearchByAttributes(registry, AnnouncedBy[a])
  /\ registry[conn[a]].node = a
  /\ link[conn[a]] = "up"

\* Once the faults are over, a live agent the hub accepts is registered over
\* the working connection it uses, and stays so.  (A QUIC agent may have given up.)
AgentComesBack ==
  \A a \in Agents :
    <>[](\/ Reachable(a)
         \/ hub = "crashed" \/ a \in refused \/ agent[a] = "down"
         \/ a \in quic /\ agent[a] = "exited")

\* What the message "Garbage collection timeout for %s, closing connection"
\* says of a silent connection: the hub closes it, and goes on.
HubSurvivesClosing == hub = "up"
=============================================================================
