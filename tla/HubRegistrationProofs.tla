----------------------- MODULE HubRegistrationProofs -----------------------
(***************************************************************************)
(* Safety of the registration of agents, for any number of agents, keys,   *)
(* messages under way and faults: what the registry says of a connection   *)
(* agrees with what its handler, its reader and its agent are doing.       *)
(***************************************************************************)
EXTENDS HubRegistration, TLAPS

\* An agent owns the connection it uses.
Wired ==
  \A a \in Agents : agent[a] \in {"dialed", "running"} => owner[conn[a]] = a

\* A WebSocket connection that works is the one its owner uses.
LiveIsUsed ==
  \A k \in Keys :
    link[k] = "up" => owner[k] \in Agents /\ (~QUIC(k) => conn[owner[k]] = k)

\* The register message is the first on its connection.
QuietBeforeRegister ==
  \A a \in Agents :
    agent[a] = "dialed" => /\ inbox[conn[a]] = <<>>
                           /\ reader[conn[a]] \in {"none", "read", "report", "ended"}

Handling == {"register", "announce", "echo", "reply", "reset"}

AllEchoes(s) == \A i \in 1..Len(s) : s[i] = "echo"

LaterEchoes(s) == \A i \in 1..Len(s) : i # 1 => s[i] = "echo"

\* Behind the register message, and once it was read, there are echoes only.
EchoesFollow ==
  \A k \in Keys : /\ LaterEchoes(inbox[k])
                  /\ reader[k] \in Handling => AllEchoes(inbox[k])

\* Until its entry is opened, nothing is read from a connection.
UnreadBeforeOpen ==
  \A k \in Keys :
    handler[k] = "accepted" =>
      /\ reader[k] = "none"
      /\ acceptor[k] = "none"
      /\ inbox[k] # <<>> => Head(inbox[k]) = "register"
      /\ inbox[k] = <<>> => \A a \in Agents : conn[a] = k => agent[a] = "dialed"

NameIsRight(k) == owner[k] \notin refused /\ registry[k].node = owner[k]

Complete(k) == NameIsRight(k) /\ registry[k].attributes = AnnouncedBy[owner[k]]

\* What the reader and the next message say of the entry.
Stage(k) ==
  /\ DOMAIN registry[k].attributes \subseteq DOMAIN AnnouncedBy[owner[k]]
  /\ registry[k].heartbeat => Complete(k)
  /\ reader[k] = "announce" => NameIsRight(k)
  /\ reader[k] \in {"echo", "reply", "reset"} => Complete(k)
  /\ reader[k] \in {"none", "read"} =>
       /\ inbox[k] # <<>> /\ Head(inbox[k]) = "echo" => Complete(k)
       /\ inbox[k] = <<>> /\ (\E a \in Agents : conn[a] = k /\ agent[a] = "running")
            => Complete(k)

Owned == \A k \in Keys : handler[k] # "none" => owner[k] \in Agents

Stages == \A k \in Open(registry) : Stage(k)

HubInv ==
  /\ HubTypeOK
  /\ EntryHasHandler
  /\ Wired
  /\ Owned
  /\ LiveIsUsed
  /\ QuietBeforeRegister
  /\ EchoesFollow
  /\ UnreadBeforeOpen
  /\ Stages

-----------------------------------------------------------------------------
(* Types.                                                                  *)

LEMMA StepTypes ==
  ASSUME VariablesTyped, Next
  PROVE  VariablesTyped'
<1> USE HubConstants
<1>1. ASSUME NEW a \in Agents, Dial(a) PROVE VariablesTyped'
  BY <1>1 DEF Dial, agentVars, netVars, hubVars, VariablesTyped, Messages
<1>2. ASSUME NEW a \in Agents, SendRegister(a) PROVE VariablesTyped'
  BY <1>2 DEF SendRegister, agentVars, netVars, hubVars, VariablesTyped, Messages
<1>3. ASSUME NEW a \in Agents, Reconnect(a) PROVE VariablesTyped'
  BY <1>3 DEF Reconnect, agentVars, netVars, hubVars, VariablesTyped, Messages
<1>4. ASSUME NEW a \in Agents, ReceiverFails(a) \/ GiveUp(a) PROVE VariablesTyped'
  <2>1. CASE ReceiverFails(a)
    BY <2>1 DEF ReceiverFails, Fault, agentVars, netVars, hubVars, VariablesTyped, Messages
  <2>2. CASE GiveUp(a)
    BY <2>2 DEF GiveUp, agentVars, netVars, hubVars, VariablesTyped, Messages
  <2> QED
    BY <1>4, <2>1, <2>2
<1>5. ASSUME NEW a \in Agents, Tick(a) PROVE VariablesTyped'
  BY <1>5 DEF Tick, agentVars, netVars, hubVars, VariablesTyped, Messages
<1>6. ASSUME NEW a \in Agents, AgentCrash(a) PROVE VariablesTyped'
  BY <1>6 DEF AgentCrash, Fault, agentVars, netVars, hubVars, VariablesTyped, Messages
<1>7. ASSUME NEW a \in Agents, AgentStart(a) PROVE VariablesTyped'
  BY <1>7 DEF AgentStart, agentVars, netVars, hubVars, VariablesTyped, Messages
<1>8. ASSUME NEW k \in Keys, OpenHandler(k) PROVE VariablesTyped'
  BY <1>8 DEF OpenHandler, agentVars, netVars, hubVars, VariablesTyped, Messages
<1>9. ASSUME NEW k \in Keys, ReceiveError(k) PROVE VariablesTyped'
  BY <1>9
  DEF ReceiveError, HandlerGoes, agentVars, netVars, hubVars, VariablesTyped, Messages
<1>10. ASSUME NEW k \in Keys, DropTimer(k) PROVE VariablesTyped'
  BY <1>10 DEF DropTimer, HandlerGoes, agentVars, netVars, hubVars, VariablesTyped, Messages
<1>11. ASSUME NEW k \in Keys, CloseConn(k) PROVE VariablesTyped'
  BY <1>11 DEF CloseConn, HandlerGoes, agentVars, netVars, hubVars, VariablesTyped, Messages
<1>12. ASSUME NEW k \in Keys, RemoveEntry(k) PROVE VariablesTyped'
  BY <1>12
  DEF RemoveEntry, HandlerGoes, agentVars, netVars, hubVars, VariablesTyped, Messages
<1>13. ASSUME NEW k \in Keys, GCTimeout(k) PROVE VariablesTyped'
  BY <1>13 DEF GCTimeout, HandlerGoes, agentVars, netVars, hubVars, VariablesTyped, Messages
<1>14. ASSUME NEW k \in Keys, AcceptStream(k) PROVE VariablesTyped'
  BY <1>14
  DEF AcceptStream, ReaderGoes, agentVars, netVars, hubVars, VariablesTyped, Messages
<1>15. ASSUME NEW k \in Keys, AcceptFails(k) PROVE VariablesTyped'
  BY <1>15 DEF AcceptFails, agentVars, netVars, hubVars, VariablesTyped, Messages
<1>16. ASSUME NEW k \in Keys, ReadMessage(k) PROVE VariablesTyped'
  BY <1>16
  DEF ReadMessage, ReaderGoes, agentVars, netVars, hubVars, VariablesTyped, Messages
<1>17. ASSUME NEW k \in Keys, ReadFails(k) PROVE VariablesTyped'
  BY <1>17 DEF ReadFails, ReaderGoes, agentVars, netVars, hubVars, VariablesTyped, Messages
<1>18. ASSUME NEW k \in Keys, HandleRegister(k) PROVE VariablesTyped'
  BY <1>18
  DEF HandleRegister, ReaderGoes, agentVars, netVars, hubVars, VariablesTyped, Messages
<1>19. ASSUME NEW k \in Keys, HandleAttributes(k) PROVE VariablesTyped'
  BY <1>19
  DEF HandleAttributes, ReaderGoes, agentVars, netVars, hubVars, VariablesTyped,
      Messages
<1>20. ASSUME NEW k \in Keys, HandleEcho(k) PROVE VariablesTyped'
  BY <1>20 DEF HandleEcho, ReaderGoes, agentVars, netVars, hubVars, VariablesTyped, Messages
<1>21. ASSUME NEW k \in Keys, Reply(k) PROVE VariablesTyped'
  BY <1>21 DEF Reply, ReaderGoes, agentVars, netVars, hubVars, VariablesTyped, Messages
<1>22. ASSUME NEW k \in Keys, ResetTimer(k) PROVE VariablesTyped'
  BY <1>22 DEF ResetTimer, ReaderGoes, agentVars, netVars, hubVars, VariablesTyped, Messages
<1>23. ASSUME NEW k \in Keys, ReportError(k) PROVE VariablesTyped'
  BY <1>23
  DEF ReportError, ReaderGoes, HandlerGoes, agentVars, netVars, hubVars, VariablesTyped,
      Messages
<1>24. ASSUME NEW k \in Keys, BufferError(k) PROVE VariablesTyped'
  <2>1. errs' \in [Keys -> 0..1]
    BY <1>24 DEF BufferError, VariablesTyped
  <2>2. reader' \in [Keys -> Messages \cup {"none", "read", "announce", "reply", "reset",
                                           "report", "ended"}]
    BY <1>24 DEF BufferError, ReaderGoes, VariablesTyped
  <2>3. acceptor' \in [Keys -> {"none", "accept", "report", "ended"}]
    BY <1>24 DEF BufferError, VariablesTyped
  <2> QED
    BY <1>24, <2>1, <2>2, <2>3
    DEF BufferError, VariablesTyped, Messages, agentVars, netVars, hubVars
<1>25. ASSUME NEW k \in Keys, CutLink(k) \/ IdleTimeout(k) PROVE VariablesTyped'
  <2>1. CASE CutLink(k)
    BY <2>1 DEF CutLink, Fault, agentVars, netVars, hubVars, VariablesTyped, Messages
  <2>2. CASE IdleTimeout(k)
    BY <2>2 DEF IdleTimeout, agentVars, netVars, hubVars, VariablesTyped, Messages
  <2> QED
    BY <1>25, <2>1, <2>2
<1> QED
  BY <1>1, <1>2, <1>3, <1>4, <1>5, <1>6, <1>7, <1>8, <1>9, <1>10, <1>11, <1>12, <1>13,
     <1>14, <1>15, <1>16, <1>17, <1>18, <1>19, <1>20, <1>21, <1>22, <1>23, <1>24, <1>25
  DEF Next, Step, AgentStep, HandlerStep, ReaderStep

-----------------------------------------------------------------------------
(* Messages under way.                                                     *)

\* What a step may do to the messages under way.
InboxMove(k) ==
  \/ inbox' = [inbox EXCEPT ![k] = <<>>]
  \/ inbox[k] # <<>> /\ inbox' = [inbox EXCEPT ![k] = Tail(@)]
  \/ inbox[k] = <<>> /\ inbox' = [inbox EXCEPT ![k] = Append(@, "register")]
  \/ Len(inbox[k]) < MaxInbox /\ inbox' = [inbox EXCEPT ![k] = Append(@, "echo")]

LEMMA StepMovesInbox ==
  ASSUME VariablesTyped, QuietBeforeRegister, Next
  PROVE  UNCHANGED inbox \/ \E k \in Keys : InboxMove(k)
<1>1. ASSUME NEW a \in Agents, Dial(a) PROVE \E k \in Keys : InboxMove(k)
  BY <1>1 DEF Dial, InboxMove
<1>2. ASSUME NEW a \in Agents, SendRegister(a) PROVE \E k \in Keys : InboxMove(k)
  <2>1. conn[a] \in Keys
    BY <1>2 DEF SendRegister, VariablesTyped
  <2>2. InboxMove(conn[a])
    BY <1>2 DEF SendRegister, InboxMove, QuietBeforeRegister
  <2> QED
    BY <2>1, <2>2
<1>3. ASSUME NEW a \in Agents, Tick(a) PROVE \E k \in Keys : InboxMove(k)
  <2>1. conn[a] \in Keys
    BY <1>3 DEF Tick, VariablesTyped
  <2>2. InboxMove(conn[a])
    BY <1>3 DEF Tick, InboxMove
  <2> QED
    BY <2>1, <2>2
<1>4. ASSUME NEW k \in Keys, ReadMessage(k) PROVE InboxMove(k)
  BY <1>4 DEF ReadMessage, InboxMove
<1>5. ASSUME NEW k \in Keys, ReadFails(k) PROVE InboxMove(k)
  BY <1>5 DEF ReadFails, InboxMove
<1> QED
  BY <1>1, <1>2, <1>3, <1>4, <1>5
  DEF Next, Step, AgentStep, HandlerStep, ReaderStep, Dial, SendRegister, Reconnect,
      GiveUp, Tick, AgentCrash, AgentStart, OpenHandler, ReceiveError, DropTimer,
      CloseConn, RemoveEntry, GCTimeout, AcceptStream, AcceptFails, ReadMessage,
      ReadFails, HandleRegister, HandleAttributes, HandleEcho, Reply, ResetTimer,
      ReportError, BufferError, CutLink, IdleTimeout, ReceiverFails, agentVars, netVars, hubVars

LEMMA StepBoundsInboxes ==
  ASSUME VariablesTyped, QuietBeforeRegister, InboxesBounded, Next
  PROVE  InboxesBounded'
<1>1. ASSUME NEW k \in Keys, InboxMove(k), NEW j \in Keys PROVE Len(inbox'[j]) <= MaxInbox
  <2>1. inbox[j] \in Seq(Messages) /\ Len(inbox[j]) <= MaxInbox
    BY DEF VariablesTyped, InboxesBounded
  <2>2. CASE j # k
    BY <1>1, <2>1, <2>2 DEF InboxMove, VariablesTyped
  <2>3. CASE j = k
    <3>1. MaxInbox \in Nat \ {0}
      BY HubConstants
    <3>2. \/ inbox'[k] = <<>>
          \/ inbox[k] # <<>> /\ inbox'[k] = Tail(inbox[k])
          \/ inbox[k] = <<>> /\ inbox'[k] = Append(inbox[k], "register")
          \/ Len(inbox[k]) < MaxInbox /\ inbox'[k] = Append(inbox[k], "echo")
      BY <1>1 DEF InboxMove, VariablesTyped
    <3>3. CASE inbox'[k] = <<>>
      BY <2>3, <3>1, <3>3
    <3>4. CASE inbox[k] # <<>> /\ inbox'[k] = Tail(inbox[k])
      BY <2>1, <2>3, <3>1, <3>4
    <3>5. CASE inbox[k] = <<>> /\ inbox'[k] = Append(inbox[k], "register")
      BY <2>1, <2>3, <3>1, <3>5 DEF Messages
    <3>6. CASE Len(inbox[k]) < MaxInbox /\ inbox'[k] = Append(inbox[k], "echo")
      BY <2>1, <2>3, <3>1, <3>6 DEF Messages
    <3> QED
      BY <3>2, <3>3, <3>4, <3>5, <3>6
  <2> QED
    BY <2>2, <2>3
<1> QED
  BY <1>1, StepMovesInbox DEF InboxesBounded

-----------------------------------------------------------------------------
(* The registry and the handlers.                                          *)

\* An update replaces at most the entry of its key, and adds or drops none.
LEMMA UpdateKeepsKeys ==
  ASSUME NEW reg, NEW key, NEW entry
  PROVE  /\ Open(Update(reg, key, entry)) = Open(reg)
         /\ \A j \in Open(reg) :
              Update(reg, key, entry)[j] = IF j = key THEN entry ELSE reg[j]
  BY DEF Update, Open

\* The entries an update may write.
LEMMA NewEntryTyped == NewEntry \in Entry
<1>1. [a \in {} |-> {}] \in [{} -> AttrValues]
  OBVIOUS
<1>2. [a \in {} |-> {}] \in Attributes
  BY <1>1 DEF Attributes
<1> QED
  BY <1>2 DEF NewEntry, Entry

LEMMA AnnouncedTyped ==
  ASSUME NEW attrs \in Attributes, NEW announcement \in Attributes
  PROVE  Announced(attrs, {}, announcement) \in Attributes
<1>1. PICK K \in SUBSET AttrKeys : attrs \in [K -> AttrValues]
  BY DEF Attributes
<1>2. PICK L \in SUBSET AttrKeys : announcement \in [L -> AttrValues]
  BY DEF Attributes
<1>3. Announced(attrs, {}, announcement) \in [K \cup L -> AttrValues]
  BY <1>1, <1>2 DEF Announced
<1> QED
  BY <1>3 DEF Attributes

\* Steps of the handlers that leave the registry alone.
QuietMove(k) ==
  \/ UNCHANGED handler
  \/ HandlerGoes(k, "none", "accepted") \/ HandlerGoes(k, "done", "accepted")
  \/ HandlerGoes(k, "wait", "leave") \/ HandlerGoes(k, "leave", "timerGone")
  \/ HandlerGoes(k, "timerGone", "closed")

\* What a step may do to the registry and the handlers.
HandlerMove(k) ==
  \/ /\ registry' = OpenConnection(registry, k)
     /\ HandlerGoes(k, "accepted", "wait")
  \/ /\ registry' = CloseConnection(registry, k)
     /\ HandlerGoes(k, "closed", "done")
  \/ registry' = registry /\ QuietMove(k)
  \/ /\ UNCHANGED handler
     /\ \E entry : /\ registry' = Update(registry, k, entry)
                   /\ \/ entry = [registry[k] EXCEPT !.node = owner[k]]
                      \/ entry = [registry[k] EXCEPT !.heartbeat = TRUE]
                      \/ entry = [registry[k] EXCEPT !.attributes =
                                    Announced(@, {}, AnnouncedBy[owner[k]])]
LEMMA StepMovesHandler ==
  ASSUME VariablesTyped, Next
  PROVE  (UNCHANGED registry /\ UNCHANGED handler) \/ \E k \in Keys : HandlerMove(k)
<1>1. ASSUME NEW a \in Agents, Dial(a) PROVE \E k \in Keys : HandlerMove(k)
  <2>1. PICK k \in Keys : Spent(k) /\ handler' = [handler EXCEPT ![k] = "accepted"]
    BY <1>1 DEF Dial
  <2>2. HandlerMove(k)
    BY <1>1, <2>1 DEF Dial, HandlerMove, QuietMove, HandlerGoes, Spent
  <2> QED
    BY <2>2
<1>2. ASSUME NEW k \in Keys, OpenHandler(k) \/ ReceiveError(k) \/ DropTimer(k)
                            \/ CloseConn(k) \/ RemoveEntry(k) \/ GCTimeout(k) \/ ReportError(k)
      PROVE  HandlerMove(k)
  BY <1>2 DEF OpenHandler, ReceiveError, DropTimer, CloseConn, RemoveEntry, GCTimeout,
              ReportError, HandlerMove, QuietMove, HandlerGoes
<1>3. ASSUME NEW k \in Keys, HandleRegister(k) PROVE HandlerMove(k)
  BY <1>3 DEF HandleRegister, Register, HandlerMove, QuietMove
<1>4. ASSUME NEW k \in Keys, HandleAttributes(k) PROVE HandlerMove(k)
  BY <1>4 DEF HandleAttributes, SetAttributes, HandlerMove
<1>5. ASSUME NEW k \in Keys, HandleEcho(k) PROVE HandlerMove(k)
  BY <1>5 DEF HandleEcho, UpdateHeartbeat, HandlerMove
<1> QED
  BY <1>1, <1>2, <1>3, <1>4, <1>5
  DEF Next, Step, AgentStep, HandlerStep, ReaderStep, SendRegister, Reconnect, GiveUp, Tick,
      AgentCrash, AgentStart, AcceptStream, AcceptFails, ReadMessage, ReadFails, Reply,
      ResetTimer, BufferError, CutLink, IdleTimeout, ReceiverFails, hubVars

LEMMA StepTypesEntries ==
  ASSUME VariablesTyped, EntryHasHandler, Owned, EntriesTyped, Next
  PROVE  EntriesTyped'
<1> SUFFICES ASSUME NEW k \in Keys, HandlerMove(k)
             PROVE  EntriesTyped'
  BY StepMovesHandler DEF EntriesTyped
<1>1. CASE registry' = OpenConnection(registry, k)
  BY <1>1, NewEntryTyped DEF OpenConnection, With, EntriesTyped, Open
<1>2. CASE registry' = CloseConnection(registry, k)
  BY <1>2 DEF CloseConnection, EntriesTyped, Open
<1>3. ASSUME NEW entry, registry' = Update(registry, k, entry), k \in Open(registry) => entry \in Entry
      PROVE  EntriesTyped'
  BY <1>3, UpdateKeepsKeys DEF EntriesTyped
<1>4. ASSUME k \in Open(registry)
      PROVE  /\ [registry[k] EXCEPT !.node = owner[k]] \in Entry
             /\ [registry[k] EXCEPT !.heartbeat = TRUE] \in Entry
             /\ [registry[k] EXCEPT !.attributes =
                   Announced(registry[k].attributes, {}, AnnouncedBy[owner[k]])] \in Entry
  <2>1. registry[k] \in Entry
    BY <1>4 DEF EntriesTyped
  <2>2. owner[k] \in Agents
    BY <1>4 DEF EntryHasHandler, Owned
  <2>3. registry[k].attributes \in Attributes
    BY <2>1 DEF Entry
  <2>4. AnnouncedBy[owner[k]] \in Attributes
    BY <2>2, HubConstants
  <2>5. Announced(registry[k].attributes, {}, AnnouncedBy[owner[k]]) \in Attributes
    BY <2>3, <2>4, AnnouncedTyped
  <2> QED
    BY <2>1, <2>2, <2>5 DEF Entry, Agents
<1> QED
  BY <1>1, <1>2, <1>3, <1>4 DEF HandlerMove, EntriesTyped

LEMMA StepKeepsHandlers ==
  ASSUME VariablesTyped, EntriesTyped, EntryHasHandler, Next
  PROVE  EntryHasHandler'
<1> SUFFICES ASSUME NEW k \in Keys, HandlerMove(k)
             PROVE  EntryHasHandler'
  BY StepMovesHandler DEF EntryHasHandler
<1>1. CASE registry' = OpenConnection(registry, k) /\ HandlerGoes(k, "accepted", "wait")
  BY <1>1 DEF OpenConnection, With, EntryHasHandler, Open, HandlerGoes, VariablesTyped
<1>2. CASE registry' = CloseConnection(registry, k) /\ HandlerGoes(k, "closed", "done")
  BY <1>2 DEF CloseConnection, EntryHasHandler, Open, HandlerGoes, VariablesTyped
<1>3. CASE registry' = registry /\ QuietMove(k)
  BY <1>3 DEF QuietMove, HandlerGoes, EntryHasHandler, VariablesTyped
<1>4. CASE UNCHANGED handler /\ \E entry : registry' = Update(registry, k, entry)
  BY <1>4, UpdateKeepsKeys DEF EntryHasHandler
<1> QED
  BY <1>1, <1>2, <1>3, <1>4 DEF HandlerMove

-----------------------------------------------------------------------------
(* Agents and their connections.                                           *)

Wiring == Wired /\ LiveIsUsed /\ Owned

LEMMA StepKeepsWiring ==
  ASSUME VariablesTyped, Wiring, Next
  PROVE  Wiring'
<1> USE DEF Wiring, Wired, LiveIsUsed, Owned, VariablesTyped
<1>1. ASSUME NEW a \in Agents, Dial(a) PROVE Wiring'
  <2>1. PICK k \in Keys : /\ \A b \in Agents : conn[b] # k
                         /\ conn' = [conn EXCEPT ![a] = k]
                         /\ owner' = [owner EXCEPT ![k] = a]
                         /\ link' = [link EXCEPT ![k] = "up"]
                         /\ handler' = [handler EXCEPT ![k] = "accepted"]
                         /\ quic' = quic
    BY <1>1 DEF Dial, Spent
  <2>2. conn[a] = NoKey /\ agent' = [agent EXCEPT ![a] = "dialed"] /\ NoKey \notin Keys
    BY <1>1, HubConstants DEF Dial
  <2>3. Wired'
    BY <2>1, <2>2
  <2>4. LiveIsUsed'
    BY <2>1, <2>2 DEF QUIC
  <2>5. Owned'
    BY <2>1
  <2> QED
    BY <2>3, <2>4, <2>5
<1>2. ASSUME NEW a \in Agents, Reconnect(a) \/ ReceiverFails(a) \/ GiveUp(a) PROVE Wiring'
  <2>1. /\ agent[a] \in {"dialed", "running"} /\ (link[conn[a]] # "up" \/ QUIC(conn[a]))
        /\ agent'[a] \notin {"dialed", "running"}
        /\ \A b \in Agents : b # a => agent'[b] = agent[b] /\ conn'[b] = conn[b]
        /\ owner' = owner /\ link' = link /\ handler' = handler /\ quic' = quic
    BY <1>2 DEF Reconnect, ReceiverFails, Ended, GiveUp, QUIC, netVars, hubVars
  <2>2. Wired'
    BY <2>1
  <2>3. ASSUME NEW k \in Keys, link[k] = "up", ~QUIC(k) PROVE conn'[owner[k]] = k
    <3>1. owner[k] \in Agents /\ conn[owner[k]] = k
      BY <2>3
    <3>2. owner[k] # a
      BY <2>1, <2>3, <3>1
    <3> QED
      BY <2>1, <3>1, <3>2
  <2> QED
    BY <2>1, <2>2, <2>3 DEF QUIC
<1>3. ASSUME NEW a \in Agents, AgentCrash(a) PROVE Wiring'
  BY <1>3 DEF AgentCrash, QUIC, hubVars
<1>4. ASSUME NEW k \in Keys, CutLink(k) \/ IdleTimeout(k) \/ CloseConn(k) PROVE Wiring'
  BY <1>4 DEF CutLink, IdleTimeout, CloseConn, QUIC, HandlerGoes, agentVars, hubVars
<1>5. ASSUME NEW k \in Keys,
             \/ OpenHandler(k) \/ ReceiveError(k) \/ DropTimer(k) \/ RemoveEntry(k)
             \/ GCTimeout(k) \/ ReportError(k)
      PROVE  Wiring'
  BY <1>5 DEF OpenHandler, ReceiveError, DropTimer, RemoveEntry, GCTimeout, ReportError,
              HandlerGoes, QUIC, agentVars, netVars
<1>6. ASSUME NEW a \in Agents, SendRegister(a) \/ Tick(a) \/ AgentStart(a) PROVE Wiring'
  BY <1>6 DEF SendRegister, Tick, AgentStart, QUIC, agentVars, netVars, hubVars
<1>7. CASE UNCHANGED <<agent, conn, quic, owner, link, handler>>
  BY <1>7 DEF QUIC
<1> QED
  BY <1>1, <1>2, <1>3, <1>4, <1>5, <1>6, <1>7
  DEF Next, Step, AgentStep, HandlerStep, ReaderStep, AcceptStream, AcceptFails,
      ReadMessage,
      ReadFails, HandleRegister, HandleAttributes, HandleEcho, Reply, ResetTimer, BufferError,
      agentVars, netVars

-----------------------------------------------------------------------------
(* The order of the messages on a connection.                              *)

\* Two agents never use one connection.
LEMMA OwnConnection ==
  ASSUME VariablesTyped, Wired, NEW a \in Agents, NEW b \in Agents,
         agent[a] \in {"dialed", "running"}, conn[b] = conn[a]
  PROVE  b = a
<1>1. agent[b] \in {"dialed", "running"}
  BY DEF VariablesTyped
<1> QED
  BY <1>1 DEF Wired

LEMMA StepKeepsQuiet ==
  ASSUME VariablesTyped, Wired, QuietBeforeRegister, Next
  PROVE  QuietBeforeRegister'
<1>0. ASSUME NEW a \in Agents, agent[a] = "dialed"
      PROVE  /\ conn[a] \in Keys
             /\ inbox[conn[a]] = <<>>
             /\ reader[conn[a]] \in {"none", "read", "report", "ended"}
  BY <1>0 DEF VariablesTyped, QuietBeforeRegister
<1>1. ASSUME NEW a \in Agents, Dial(a) PROVE QuietBeforeRegister'
  <2>1. PICK k \in Keys : /\ \A b \in Agents : conn[b] # k
                         /\ conn' = [conn EXCEPT ![a] = k]
                         /\ inbox' = [inbox EXCEPT ![k] = <<>>]
                         /\ reader' = [reader EXCEPT ![k] = "none"]
    BY <1>1 DEF Dial, Spent
  <2>2. agent' = [agent EXCEPT ![a] = "dialed"]
    BY <1>1 DEF Dial
  <2> QED
    BY <1>0, <2>1, <2>2 DEF QuietBeforeRegister, VariablesTyped
<1>2. ASSUME NEW a \in Agents, SendRegister(a) \/ Tick(a) PROVE QuietBeforeRegister'
  <2>1. /\ agent[a] \in {"dialed", "running"}
        /\ agent'[a] = "running" /\ \A b \in Agents : b # a => agent'[b] = agent[b]
        /\ \A k \in Keys : k # conn[a] => inbox'[k] = inbox[k]
        /\ conn' = conn /\ reader' = reader
    BY <1>2 DEF SendRegister, Tick, agentVars, hubVars, VariablesTyped
  <2>2. ASSUME NEW b \in Agents, b # a, agent[b] = "dialed" PROVE inbox'[conn[b]] = inbox[conn[b]]
    <3>1. conn[b] # conn[a]
      BY <2>1, <2>2, OwnConnection
    <3>2. conn[b] \in Keys
      BY <1>0, <2>2
    <3> QED
      BY <2>1, <3>1, <3>2
  <2> QED
    BY <1>0, <2>1, <2>2 DEF QuietBeforeRegister
<1>3. ASSUME NEW a \in Agents,
             Reconnect(a) \/ ReceiverFails(a) \/ GiveUp(a) \/ AgentCrash(a) \/ AgentStart(a)
      PROVE  QuietBeforeRegister'
  BY <1>0, <1>3 DEF Reconnect, ReceiverFails, GiveUp, AgentCrash, AgentStart, netVars, hubVars,
                    QuietBeforeRegister, VariablesTyped
<1>4. ASSUME NEW k \in Keys, ReadMessage(k) PROVE QuietBeforeRegister'
  BY <1>0, <1>4 DEF ReadMessage, ReaderGoes, agentVars, QuietBeforeRegister, VariablesTyped
<1>5. ASSUME NEW k \in Keys,
             \/ HandleRegister(k) \/ HandleAttributes(k) \/ HandleEcho(k) \/ Reply(k)
             \/ ResetTimer(k)
      PROVE  QuietBeforeRegister'
  <2>1. /\ reader[k] \in Handling
        /\ \A j \in Keys : j # k => reader'[j] = reader[j]
    BY <1>5 DEF HandleRegister, HandleAttributes, HandleEcho, Reply, ResetTimer, ReaderGoes,
                Handling, VariablesTyped
  <2>2. agent' = agent /\ conn' = conn /\ inbox' = inbox
    BY <1>5 DEF HandleRegister, HandleAttributes, HandleEcho, Reply, ResetTimer, agentVars,
                netVars
  <2> QED
    BY <1>0, <2>1, <2>2 DEF Handling, QuietBeforeRegister
<1>6. ASSUME NEW k \in Keys,
             OpenHandler(k) \/ AcceptStream(k) \/ ReportError(k) \/ BufferError(k)
      PROVE  QuietBeforeRegister'
  <2>1. /\ reader'[k] \in {reader[k], "none", "read", "report", "ended"}
        /\ \A j \in Keys : j # k => reader'[j] = reader[j]
    BY <1>6
    DEF OpenHandler, AcceptStream, ReportError, BufferError, ReaderGoes, VariablesTyped
  <2>2. agent' = agent /\ conn' = conn /\ inbox' = inbox
    BY <1>6 DEF OpenHandler, AcceptStream, ReportError, BufferError, agentVars, netVars
  <2> QED
    BY <1>0, <2>1, <2>2 DEF QuietBeforeRegister
<1>7. ASSUME NEW k \in Keys, ReadFails(k) PROVE QuietBeforeRegister'
  BY <1>0, <1>7 DEF ReadFails, ReaderGoes, agentVars, QuietBeforeRegister, VariablesTyped
<1>8. CASE UNCHANGED <<agent, conn, inbox, reader>>
  BY <1>0, <1>8 DEF QuietBeforeRegister
<1> QED
  BY <1>1, <1>2, <1>3, <1>4, <1>5, <1>6, <1>7, <1>8
  DEF Next, Step, AgentStep, HandlerStep, ReaderStep, AcceptFails, ReceiveError, DropTimer,
      CloseConn, RemoveEntry, GCTimeout, CutLink, IdleTimeout, agentVars, netVars, hubVars

LEMMA EchoSequences ==
  ASSUME NEW s \in Seq(Messages)
  PROVE  /\ AllEchoes(<<>>) /\ LaterEchoes(<<>>)
         /\ AllEchoes(s) => LaterEchoes(s)
         /\ s # <<>> /\ LaterEchoes(s) => AllEchoes(Tail(s)) /\ LaterEchoes(Tail(s))
         /\ s = <<>> => LaterEchoes(Append(s, "register"))
         /\ LaterEchoes(s) => LaterEchoes(Append(s, "echo"))
         /\ AllEchoes(s) => AllEchoes(Append(s, "echo"))
<1>1. AllEchoes(<<>>) /\ LaterEchoes(<<>>)
  BY DEF AllEchoes, LaterEchoes
<1>2. AllEchoes(s) => LaterEchoes(s)
  BY DEF AllEchoes, LaterEchoes
<1>3. ASSUME s # <<>>, LaterEchoes(s) PROVE AllEchoes(Tail(s)) /\ LaterEchoes(Tail(s))
  <2>1. AllEchoes(Tail(s))
    BY <1>3 DEF AllEchoes, LaterEchoes
  <2> QED
    BY <2>1 DEF AllEchoes, LaterEchoes
<1>4. s = <<>> => LaterEchoes(Append(s, "register"))
  BY DEF LaterEchoes, Messages
<1>5. LaterEchoes(s) => LaterEchoes(Append(s, "echo"))
  BY DEF LaterEchoes, Messages
<1>6. AllEchoes(s) => AllEchoes(Append(s, "echo"))
  BY DEF AllEchoes, Messages
<1> QED
  BY <1>1, <1>2, <1>3, <1>4, <1>5, <1>6

LEMMA StepKeepsEchoes ==
  ASSUME VariablesTyped, QuietBeforeRegister, EchoesFollow, Next
  PROVE  EchoesFollow'
<1>0. ASSUME NEW k \in Keys
      PROVE  /\ inbox[k] \in Seq(Messages)
             /\ LaterEchoes(inbox[k])
             /\ reader[k] \in Handling => AllEchoes(inbox[k])
  BY DEF VariablesTyped, EchoesFollow
<1>1. ASSUME NEW a \in Agents, Dial(a) PROVE EchoesFollow'
  <2>1. PICK k \in Keys : /\ inbox' = [inbox EXCEPT ![k] = <<>>]
                         /\ reader' = [reader EXCEPT ![k] = "none"]
    BY <1>1 DEF Dial
  <2>2. LaterEchoes(<<>>)
    BY <1>0, EchoSequences
  <2> QED
    BY <1>0, <2>1, <2>2 DEF EchoesFollow, VariablesTyped, Handling
<1>2. ASSUME NEW a \in Agents, SendRegister(a) PROVE EchoesFollow'
  <2>1. conn[a] \in Keys /\ inbox[conn[a]] = <<>> /\ reader[conn[a]] \notin Handling
    <3>1. agent[a] = "dialed"
      BY <1>2 DEF SendRegister
    <3>2. conn[a] \in Keys
      BY <3>1 DEF VariablesTyped
    <3> QED
      BY <3>1, <3>2 DEF QuietBeforeRegister, Handling
  <2>2. /\ inbox'[conn[a]] = Append(inbox[conn[a]], "register")
        /\ \A k \in Keys : k # conn[a] => inbox'[k] = inbox[k]
        /\ reader' = reader
    BY <1>2, <2>1 DEF SendRegister, hubVars, VariablesTyped
  <2>3. /\ LaterEchoes(inbox'[conn[a]])
        /\ reader[conn[a]] \in Handling => AllEchoes(inbox'[conn[a]])
    BY <1>0, <2>1, <2>2, EchoSequences
  <2> QED
    BY <1>0, <2>2, <2>3 DEF EchoesFollow
<1>3. ASSUME NEW a \in Agents, Tick(a) PROVE EchoesFollow'
  <2>1. conn[a] \in Keys
    BY <1>3 DEF Tick, VariablesTyped
  <2>2. /\ inbox'[conn[a]] = Append(inbox[conn[a]], "echo")
        /\ \A k \in Keys : k # conn[a] => inbox'[k] = inbox[k]
        /\ reader' = reader
    BY <1>3, <2>1 DEF Tick, hubVars, VariablesTyped
  <2>3. /\ LaterEchoes(inbox'[conn[a]])
        /\ reader[conn[a]] \in Handling => AllEchoes(inbox'[conn[a]])
    BY <1>0, <2>1, <2>2, EchoSequences
  <2> QED
    BY <1>0, <2>2, <2>3 DEF EchoesFollow
<1>4. ASSUME NEW k \in Keys, ReadMessage(k) PROVE EchoesFollow'
  <2>1. /\ inbox[k] # <<>> /\ inbox' = [inbox EXCEPT ![k] = Tail(@)]
        /\ reader' = [reader EXCEPT ![k] = reader'[k]]
    BY <1>4 DEF ReadMessage, ReaderGoes, VariablesTyped
  <2>2. AllEchoes(Tail(inbox[k])) /\ LaterEchoes(Tail(inbox[k]))
    BY <1>0, <2>1, EchoSequences
  <2> QED
    BY <1>0, <2>1, <2>2 DEF EchoesFollow, VariablesTyped
<1>5. ASSUME NEW k \in Keys,
             \/ HandleRegister(k) \/ HandleAttributes(k) \/ HandleEcho(k) \/ Reply(k)
             \/ ResetTimer(k)
      PROVE  EchoesFollow'
  <2>1. /\ reader[k] \in Handling
        /\ \A j \in Keys : j # k => reader'[j] = reader[j]
    BY <1>5 DEF HandleRegister, HandleAttributes, HandleEcho, Reply, ResetTimer, ReaderGoes,
                Handling, VariablesTyped
  <2>2. inbox' = inbox
    BY <1>5 DEF HandleRegister, HandleAttributes, HandleEcho, Reply, ResetTimer, netVars
  <2> QED
    BY <1>0, <2>1, <2>2 DEF EchoesFollow
<1>6. ASSUME NEW k \in Keys,
             OpenHandler(k) \/ AcceptStream(k) \/ ReportError(k) \/ BufferError(k)
      PROVE  EchoesFollow'
  <2>1. /\ reader'[k] \in Handling => reader'[k] = reader[k]
        /\ \A j \in Keys : j # k => reader'[j] = reader[j]
    BY <1>6 DEF OpenHandler, AcceptStream, ReportError, BufferError, ReaderGoes, Handling,
                VariablesTyped
  <2>2. inbox' = inbox
    BY <1>6 DEF OpenHandler, AcceptStream, ReportError, BufferError, netVars
  <2> QED
    BY <1>0, <2>1, <2>2 DEF EchoesFollow
<1>7. ASSUME NEW k \in Keys, ReadFails(k) PROVE EchoesFollow'
  BY <1>0, <1>7, EchoSequences
  DEF ReadFails, ReaderGoes, Handling, EchoesFollow, VariablesTyped
<1>8. CASE UNCHANGED <<inbox, reader>>
  BY <1>0, <1>8 DEF EchoesFollow
<1> QED
  BY <1>1, <1>2, <1>3, <1>4, <1>5, <1>6, <1>7, <1>8
  DEF Next, Step, AgentStep, HandlerStep, ReaderStep, Reconnect, GiveUp, AgentCrash,
      AgentStart,
      AcceptFails, ReceiveError, DropTimer, CloseConn, RemoveEntry, GCTimeout, CutLink,
      IdleTimeout, ReceiverFails, netVars, hubVars

\* The first message of a sequence an agent appends to.
LEMMA HeadOfAppend ==
  ASSUME NEW s \in Seq(Messages), NEW m \in Messages
  PROVE  /\ Append(s, m) # <<>>
         /\ s = <<>> => Head(Append(s, m)) = m
         /\ s # <<>> => Head(Append(s, m)) = Head(s)
  OBVIOUS

LEMMA StepKeepsUnread ==
  ASSUME VariablesTyped, Wired, QuietBeforeRegister, UnreadBeforeOpen, Next
  PROVE  UnreadBeforeOpen'
<1>0. ASSUME NEW k \in Keys, handler[k] = "accepted"
      PROVE  /\ reader[k] = "none" /\ acceptor[k] = "none"
             /\ inbox[k] # <<>> => Head(inbox[k]) = "register"
             /\ inbox[k] = <<>> => \A a \in Agents : conn[a] = k => agent[a] = "dialed"
  BY <1>0 DEF UnreadBeforeOpen
<1>1. ASSUME NEW a \in Agents, Dial(a) PROVE UnreadBeforeOpen'
  <2>1. PICK k \in Keys : /\ \A b \in Agents : conn[b] # k
                         /\ conn' = [conn EXCEPT ![a] = k]
                         /\ inbox' = [inbox EXCEPT ![k] = <<>>]
                         /\ handler' = [handler EXCEPT ![k] = "accepted"]
                         /\ reader' = [reader EXCEPT ![k] = "none"]
                         /\ acceptor' = [acceptor EXCEPT ![k] = "none"]
    BY <1>1 DEF Dial, Spent
  <2>2. agent' = [agent EXCEPT ![a] = "dialed"]
    BY <1>1 DEF Dial
  <2> QED
    BY <1>0, <2>1, <2>2 DEF UnreadBeforeOpen, VariablesTyped
<1>2. ASSUME NEW a \in Agents, SendRegister(a) PROVE UnreadBeforeOpen'
  <2>1. conn[a] \in Keys
    BY <1>2 DEF SendRegister, VariablesTyped
  <2>2. inbox[conn[a]] = <<>>
    BY <1>2 DEF SendRegister, QuietBeforeRegister
  <2>3. /\ inbox'[conn[a]] = Append(inbox[conn[a]], "register")
        /\ \A k \in Keys : k # conn[a] => inbox'[k] = inbox[k]
        /\ \A b \in Agents : b # a => agent'[b] = agent[b]
        /\ handler' = handler /\ reader' = reader /\ acceptor' = acceptor /\ conn' = conn
    BY <1>2, <2>1 DEF SendRegister, hubVars, VariablesTyped
  <2>4. inbox'[conn[a]] # <<>> /\ Head(inbox'[conn[a]]) = "register"
    <3>1. inbox[conn[a]] \in Seq(Messages) /\ "register" \in Messages
      BY <2>1 DEF VariablesTyped, Messages
    <3> QED
      BY <2>2, <2>3, <3>1, HeadOfAppend
  <2> QED
    BY <1>0, <2>3, <2>4 DEF UnreadBeforeOpen
<1>3. ASSUME NEW a \in Agents, Tick(a) PROVE UnreadBeforeOpen'
  <2>1. conn[a] \in Keys /\ agent[a] = "running"
    BY <1>3 DEF Tick, VariablesTyped
  <2>2. /\ inbox'[conn[a]] = Append(inbox[conn[a]], "echo")
        /\ \A k \in Keys : k # conn[a] => inbox'[k] = inbox[k]
        /\ handler' = handler /\ reader' = reader /\ acceptor' = acceptor
        /\ agent' = agent /\ conn' = conn
    BY <1>3, <2>1 DEF Tick, agentVars, hubVars, VariablesTyped
  <2>3. ASSUME handler[conn[a]] = "accepted"
        PROVE  inbox'[conn[a]] # <<>> /\ Head(inbox'[conn[a]]) = "register"
    <3>1. inbox[conn[a]] \in Seq(Messages) /\ "echo" \in Messages
      BY <2>1 DEF VariablesTyped, Messages
    <3>2. inbox[conn[a]] # <<>> /\ Head(inbox[conn[a]]) = "register"
      BY <1>0, <2>1, <2>3
    <3> QED
      BY <2>2, <3>1, <3>2, HeadOfAppend
  <2> QED
    BY <1>0, <2>2, <2>3 DEF UnreadBeforeOpen
<1>4. ASSUME NEW a \in Agents,
             Reconnect(a) \/ ReceiverFails(a) \/ GiveUp(a) \/ AgentCrash(a) \/ AgentStart(a)
      PROVE  UnreadBeforeOpen'
  <2>1. /\ conn'[a] = NoKey
        /\ \A b \in Agents : b # a => conn'[b] = conn[b] /\ agent'[b] = agent[b]
    BY <1>4 DEF Reconnect, ReceiverFails, GiveUp, AgentCrash, AgentStart, VariablesTyped
  <2>2. inbox' = inbox /\ handler' = handler /\ reader' = reader /\ acceptor' = acceptor
    BY <1>4 DEF Reconnect, ReceiverFails, GiveUp, AgentCrash, AgentStart, netVars, hubVars
  <2> QED
    BY <1>0, <2>1, <2>2, HubConstants DEF UnreadBeforeOpen
<1>5. ASSUME NEW k \in Keys,
             \/ OpenHandler(k) \/ ReceiveError(k) \/ DropTimer(k) \/ CloseConn(k)
             \/ RemoveEntry(k) \/ GCTimeout(k) \/ ReportError(k)
      PROVE  UnreadBeforeOpen'
  <2>1. /\ handler'[k] # "accepted"
        /\ \A j \in Keys : j # k => handler'[j] = handler[j] /\ reader'[j] = reader[j]
                                  /\ acceptor'[j] = acceptor[j]
    BY <1>5 DEF OpenHandler, ReceiveError, DropTimer, CloseConn, RemoveEntry, GCTimeout,
                ReportError, HandlerGoes, ReaderGoes, VariablesTyped
  <2>2. inbox' = inbox /\ agent' = agent /\ conn' = conn
    BY <1>5 DEF OpenHandler, ReceiveError, DropTimer, CloseConn, RemoveEntry, GCTimeout,
                ReportError, agentVars, netVars
  <2> QED
    BY <1>0, <2>1, <2>2 DEF UnreadBeforeOpen
<1>6. ASSUME NEW k \in Keys,
             \/ AcceptStream(k) \/ AcceptFails(k) \/ ReadMessage(k) \/ ReadFails(k)
             \/ HandleRegister(k) \/ HandleAttributes(k) \/ HandleEcho(k) \/ Reply(k)
             \/ ResetTimer(k) \/ BufferError(k)
      PROVE  UnreadBeforeOpen'
  <2>1. reader[k] # "none" \/ acceptor[k] # "none"
    BY <1>6 DEF AcceptStream, AcceptFails, ReadMessage, ReadFails, HandleRegister,
                HandleAttributes, HandleEcho, Reply, ResetTimer, BufferError, ReaderGoes
  <2>2. \A j \in Keys : j # k => /\ reader'[j] = reader[j] /\ acceptor'[j] = acceptor[j]
                               /\ inbox'[j] = inbox[j]
    BY <1>6 DEF AcceptStream, AcceptFails, ReadMessage, ReadFails, HandleRegister,
                HandleAttributes, HandleEcho, Reply, ResetTimer, BufferError, ReaderGoes,
                netVars, VariablesTyped
  <2>3. handler' = handler /\ agent' = agent /\ conn' = conn
    BY <1>6 DEF AcceptStream, AcceptFails, ReadMessage, ReadFails, HandleRegister,
                HandleAttributes, HandleEcho, Reply, ResetTimer, BufferError, agentVars
  <2> QED
    BY <1>0, <2>1, <2>2, <2>3 DEF UnreadBeforeOpen
<1>7. ASSUME NEW k \in Keys, CutLink(k) \/ IdleTimeout(k) PROVE UnreadBeforeOpen'
  BY <1>0, <1>7 DEF CutLink, IdleTimeout, agentVars, hubVars, UnreadBeforeOpen
<1> QED
  BY <1>1, <1>2, <1>3, <1>4, <1>5, <1>6, <1>7
  DEF Next, Step, AgentStep, HandlerStep, ReaderStep

-----------------------------------------------------------------------------
(* What an entry says, and where the reader of its connection is.          *)

\* A step that shows nothing new to the stage of a key.
SameKey(k) ==
  /\ k \in Open(registry) /\ registry'[k] = registry[k]
  /\ owner'[k] = owner[k] /\ refused' = refused
  /\ reader'[k] = reader[k] /\ inbox'[k] = inbox[k]
  /\ \A a \in Agents : conn'[a] = k /\ agent'[a] = "running"
                      => conn[a] = k /\ agent[a] = "running"

LEMMA StageKept ==
  ASSUME Stages, NEW k, SameKey(k)
  PROVE  Stage(k)'
<1>1. Stage(k)
  BY DEF Stages, SameKey
<1>2. NameIsRight(k)' = NameIsRight(k) /\ Complete(k)' = Complete(k)
  BY DEF SameKey, NameIsRight, Complete
<1> QED
  BY <1>1, <1>2 DEF SameKey, Stage

\* A step concerns the stage of one key at most.
OnlyKey(k) == \A j \in Open(registry') : j # k => SameKey(j)

LEMMA OneStage ==
  ASSUME Stages, NEW k, OnlyKey(k), k \in Open(registry') => Stage(k)'
  PROVE  Stages'
<1> SUFFICES ASSUME NEW j \in Open(registry')
             PROVE  Stage(j)'
  BY DEF Stages
<1>1. CASE j = k
  BY <1>1
<1>2. CASE j # k
  BY <1>2, StageKept DEF OnlyKey
<1> QED
  BY <1>1, <1>2

\* Steps of the agents, of the network, and of the handlers.

LEMMA AgentKeepsStages ==
  ASSUME HubInv, NEW a \in Agents, AgentStep(a) \/ ReceiverFails(a) \/ AgentCrash(a) \/ AgentStart(a)
  PROVE  Stages'
<1>0. VariablesTyped /\ Stages /\ Open(registry) \subseteq Keys
  BY DEF HubInv, HubTypeOK, EntriesTyped
<1>1. CASE Dial(a)
  <2>1. PICK k \in Keys : /\ handler[k] \in {"none", "done"}
                         /\ conn' = [conn EXCEPT ![a] = k]
                         /\ owner' = [owner EXCEPT ![k] = a]
                         /\ inbox' = [inbox EXCEPT ![k] = <<>>]
                         /\ reader' = [reader EXCEPT ![k] = "none"]
    BY <1>1 DEF Dial, Spent
  <2>2. /\ agent' = [agent EXCEPT ![a] = "dialed"]
        /\ registry' = registry /\ refused' = refused
    BY <1>1 DEF Dial
  <2>3. k \notin Open(registry)
    BY <2>1 DEF HubInv, EntryHasHandler
  <2>4. ASSUME NEW j \in Open(registry), j # k PROVE SameKey(j)
    BY <1>0, <2>1, <2>2, <2>4 DEF SameKey, VariablesTyped
  <2> QED
    BY <1>0, <2>2, <2>3, <2>4, OneStage DEF OnlyKey
<1>2. CASE SendRegister(a)
  <2>1. conn[a] \in Keys
    BY <1>0, <1>2 DEF SendRegister, VariablesTyped
  <2>2. inbox[conn[a]] = <<>>
    BY <1>2 DEF SendRegister, HubInv, QuietBeforeRegister
  <2>3. /\ inbox'[conn[a]] = Append(inbox[conn[a]], "register")
        /\ \A k \in Keys : k # conn[a] => inbox'[k] = inbox[k]
        /\ \A b \in Agents : b # a => agent'[b] = agent[b]
        /\ registry' = registry /\ reader' = reader /\ conn' = conn
        /\ owner' = owner /\ refused' = refused
    BY <1>0, <1>2, <2>1 DEF SendRegister, hubVars, VariablesTyped
  <2>4. inbox'[conn[a]] # <<>> /\ Head(inbox'[conn[a]]) # "echo"
    <3>1. inbox[conn[a]] \in Seq(Messages) /\ "register" \in Messages
      BY <1>0, <2>1 DEF VariablesTyped, Messages
    <3> QED
      BY <2>2, <2>3, <3>1, HeadOfAppend
  <2>5. OnlyKey(conn[a])
    BY <1>0, <2>3 DEF OnlyKey, SameKey
  <2>6. ASSUME conn[a] \in Open(registry) PROVE Stage(conn[a])'
    <3>1. Stage(conn[a])
      BY <1>0, <2>6 DEF Stages
    <3> QED
      BY <2>3, <2>4, <3>1 DEF Stage, NameIsRight, Complete
  <2> QED
    BY <1>0, <2>3, <2>5, <2>6, OneStage
<1>3. CASE Tick(a)
  <2>1. conn[a] \in Keys /\ agent[a] = "running"
    BY <1>0, <1>3 DEF Tick, VariablesTyped
  <2>2. /\ inbox'[conn[a]] = Append(inbox[conn[a]], "echo")
        /\ \A k \in Keys : k # conn[a] => inbox'[k] = inbox[k]
        /\ registry' = registry /\ reader' = reader /\ agent' = agent /\ conn' = conn
        /\ owner' = owner /\ refused' = refused
    BY <1>0, <1>3, <2>1 DEF Tick, agentVars, hubVars, VariablesTyped
  <2>3. /\ inbox'[conn[a]] # <<>>
        /\ inbox[conn[a]] # <<>> => Head(inbox'[conn[a]]) = Head(inbox[conn[a]])
    <3>1. inbox[conn[a]] \in Seq(Messages) /\ "echo" \in Messages
      BY <1>0, <2>1 DEF VariablesTyped, Messages
    <3> QED
      BY <2>2, <3>1, HeadOfAppend
  <2>4. OnlyKey(conn[a])
    BY <1>0, <2>2 DEF OnlyKey, SameKey
  <2>5. ASSUME conn[a] \in Open(registry) PROVE Stage(conn[a])'
    <3>1. Stage(conn[a])
      BY <1>0, <2>5 DEF Stages
    <3> QED
      BY <2>1, <2>2, <2>3, <3>1 DEF Stage, NameIsRight, Complete
  <2> QED
    BY <1>0, <2>2, <2>4, <2>5, OneStage
<1>4. CASE Reconnect(a) \/ ReceiverFails(a) \/ GiveUp(a) \/ AgentCrash(a) \/ AgentStart(a)
  <2>1. /\ agent'[a] # "running"
        /\ \A b \in Agents : b # a => conn'[b] = conn[b] /\ agent'[b] = agent[b]
    BY <1>0, <1>4 DEF Reconnect, ReceiverFails, GiveUp, AgentCrash, AgentStart, VariablesTyped
  <2>2. /\ inbox' = inbox /\ registry' = registry /\ reader' = reader
        /\ owner' = owner /\ refused' = refused
    BY <1>4 DEF Reconnect, ReceiverFails, GiveUp, AgentCrash, AgentStart, netVars, hubVars
  <2>3. \A k \in Open(registry) : SameKey(k)
    BY <2>1, <2>2 DEF SameKey
  <2> QED
    BY <1>0, <2>2, <2>3, StageKept DEF Stages
<1> QED
  BY <1>1, <1>2, <1>3, <1>4 DEF AgentStep

LEMMA HandlerKeepsStages ==
  ASSUME HubInv, NEW k \in Keys,
         HandlerStep(k) \/ GCTimeout(k) \/ CutLink(k) \/ IdleTimeout(k)
  PROVE  Stages'
<1>0. VariablesTyped /\ Stages /\ Open(registry) \subseteq Keys
  BY DEF HubInv, HubTypeOK, EntriesTyped
<1>1. CASE OpenHandler(k)
  <2>1. /\ registry' = OpenConnection(registry, k)
        /\ reader'[k] \in {"none", "read"}
        /\ \A j \in Keys : j # k => reader'[j] = reader[j]
        /\ handler[k] = "accepted"
    BY <1>0, <1>1 DEF OpenHandler, VariablesTyped
  <2>2. /\ inbox' = inbox /\ agent' = agent /\ conn' = conn
        /\ owner' = owner /\ refused' = refused
    BY <1>1 DEF OpenHandler, agentVars, netVars
  <2>3. /\ Open(registry') = Open(registry) \cup {k}
        /\ registry'[k] = NewEntry
        /\ \A j \in Open(registry) : j # k => registry'[j] = registry[j]
    BY <2>1 DEF OpenConnection, With, Open
  <2>4. OnlyKey(k)
    BY <1>0, <2>1, <2>2, <2>3 DEF OnlyKey, SameKey
  <2>5. /\ inbox[k] # <<>> => Head(inbox[k]) = "register"
        /\ inbox[k] = <<>> => \A a \in Agents : conn[a] = k => agent[a] = "dialed"
    BY <2>1 DEF HubInv, UnreadBeforeOpen
  <2>6. Stage(k)'
    BY <2>1, <2>2, <2>3, <2>5 DEF Stage, NewEntry
  <2> QED
    BY <1>0, <2>4, <2>6, OneStage
<1>2. CASE RemoveEntry(k)
  <2>1. /\ registry' = CloseConnection(registry, k)
        /\ reader' = reader /\ inbox' = inbox /\ agent' = agent /\ conn' = conn
        /\ owner' = owner /\ refused' = refused
    BY <1>2 DEF RemoveEntry, agentVars, netVars
  <2>2. \A j \in Open(registry') : SameKey(j)
    BY <2>1 DEF CloseConnection, Open, SameKey
  <2> QED
    BY <1>0, <2>2, StageKept DEF Stages
<1>3. CASE \/ ReceiveError(k) \/ DropTimer(k) \/ CloseConn(k) \/ GCTimeout(k) \/ CutLink(k)
           \/ IdleTimeout(k)
  <2>1. /\ registry' = registry /\ reader' = reader /\ inbox' = inbox
        /\ agent' = agent /\ conn' = conn /\ owner' = owner /\ refused' = refused
    BY <1>3
    DEF ReceiveError, DropTimer, CloseConn, GCTimeout, CutLink, IdleTimeout, agentVars,
        netVars, hubVars
  <2>2. \A j \in Open(registry') : SameKey(j)
    BY <2>1 DEF SameKey
  <2> QED
    BY <1>0, <2>2, StageKept DEF Stages
<1> QED
  BY <1>1, <1>2, <1>3 DEF HandlerStep

\* What announcing does to attributes that were announced before.
LEMMA AnnounceAgain ==
  ASSUME NEW attrs \in Attributes, NEW announcement \in Attributes,
         DOMAIN attrs \subseteq DOMAIN announcement
  PROVE  Announced(attrs, {}, announcement) = announcement
<1>1. PICK K \in SUBSET AttrKeys : announcement \in [K -> AttrValues]
  BY DEF Attributes
<1>2. (DOMAIN attrs \ {}) \cup DOMAIN announcement = K
  BY <1>1
<1>3. Announced(attrs, {}, announcement) = [x \in K |-> announcement[x]]
  BY <1>1, <1>2 DEF Announced
<1> QED
  BY <1>1, <1>3

\* The facts the steps of a reader start from.
ReaderFrame(k) ==
  /\ agent' = agent /\ conn' = conn /\ owner' = owner /\ refused' = refused
  /\ \A j \in Keys : j # k => reader'[j] = reader[j] /\ inbox'[j] = inbox[j]
  /\ Open(registry') = Open(registry)
  /\ \A j \in Open(registry) : j # k => registry'[j] = registry[j]

LEMMA ReaderFrames ==
  ASSUME VariablesTyped, NEW k \in Keys, ReaderStep(k)
  PROVE  ReaderFrame(k)
<1>1. CASE \/ AcceptStream(k) \/ AcceptFails(k) \/ ReadMessage(k) \/ ReadFails(k) \/ Reply(k)
           \/ ResetTimer(k) \/ ReportError(k) \/ BufferError(k)
  BY <1>1
  DEF AcceptStream, AcceptFails, ReadMessage, ReadFails, Reply, ResetTimer, ReportError,
              BufferError, ReaderGoes, ReaderFrame, agentVars, netVars, VariablesTyped
<1>2. CASE HandleRegister(k)
  BY <1>2, UpdateKeepsKeys
  DEF HandleRegister, Register, ReaderGoes, ReaderFrame, agentVars, netVars, VariablesTyped
<1>3. CASE HandleAttributes(k)
  BY <1>3, UpdateKeepsKeys
  DEF HandleAttributes, SetAttributes, ReaderGoes, ReaderFrame, agentVars, netVars,
      VariablesTyped
<1>4. CASE HandleEcho(k)
  BY <1>4, UpdateKeepsKeys
  DEF HandleEcho, UpdateHeartbeat, ReaderGoes, ReaderFrame, agentVars, netVars,
      VariablesTyped
<1> QED
  BY <1>1, <1>2, <1>3, <1>4 DEF ReaderStep

LEMMA ReaderKeepsStages ==
  ASSUME HubInv, NEW k \in Keys, ReaderStep(k)
  PROVE  Stages'
<1>0. VariablesTyped /\ Stages /\ Open(registry) \subseteq Keys /\ ReaderFrame(k)
  BY ReaderFrames DEF HubInv, HubTypeOK, EntriesTyped
<1>1. OnlyKey(k)
  BY <1>0 DEF OnlyKey, SameKey, ReaderFrame
<1> SUFFICES ASSUME k \in Open(registry)
             PROVE  Stage(k)'
  BY <1>0, <1>1, OneStage DEF ReaderFrame
<1>2. Stage(k) /\ registry[k] \in Entry /\ owner[k] \in Agents
  BY <1>0 DEF Stages, HubInv, HubTypeOK, EntriesTyped, EntryHasHandler, Owned
<1>3. owner'[k] = owner[k] /\ refused' = refused /\ agent' = agent /\ conn' = conn
  BY <1>0 DEF ReaderFrame
<1>4. ASSUME registry'[k] = registry[k]
      PROVE  NameIsRight(k)' = NameIsRight(k) /\ Complete(k)' = Complete(k)
  BY <1>3, <1>4 DEF NameIsRight, Complete
<1>5. CASE ReadMessage(k)
  <2>1. /\ registry' = registry /\ inbox[k] # <<>>
        /\ reader[k] = "read" /\ reader'[k] = Head(inbox[k])
        /\ Head(inbox[k]) \in Messages
    BY <1>0, <1>5 DEF ReadMessage, ReaderGoes, VariablesTyped
  <2> QED
    BY <1>2, <1>3, <1>4, <2>1 DEF Stage, Messages
<1>6. CASE \/ AcceptFails(k) \/ ReadFails(k) \/ ReportError(k) \/ BufferError(k)
  <2>1. registry' = registry
    BY <1>6 DEF AcceptFails, ReadFails, ReportError, BufferError
  <2>2. \/ reader'[k] \in {"report", "ended"}
        \/ reader'[k] = reader[k] /\ inbox'[k] = inbox[k]
    BY <1>0, <1>6 DEF AcceptFails, ReadFails, ReportError, BufferError, ReaderGoes, netVars,
                      VariablesTyped
  <2> QED
    BY <1>2, <1>3, <1>4, <2>1, <2>2 DEF Stage
<1>7. CASE AcceptStream(k)
  <2>1. /\ registry' = registry /\ reader[k] = "none" /\ reader'[k] = "read"
        /\ inbox' = inbox
    BY <1>0, <1>7 DEF AcceptStream, ReaderGoes, netVars, VariablesTyped
  <2> QED
    BY <1>2, <1>3, <1>4, <2>1 DEF Stage
<1>8. CASE Reply(k) \/ ResetTimer(k)
  <2>1. registry' = registry /\ reader[k] \in {"reply", "reset"}
    BY <1>8 DEF Reply, ResetTimer, ReaderGoes
  <2>2. reader'[k] \in {"read", "reset", "report"}
    BY <1>0, <1>8 DEF Reply, ResetTimer, ReaderGoes, VariablesTyped
  <2> QED
    BY <1>2, <1>3, <1>4, <2>1, <2>2 DEF Stage
<1>9. CASE HandleEcho(k)
  <2>1. /\ registry' = Update(registry, k, [registry[k] EXCEPT !.heartbeat = TRUE])
        /\ reader[k] = "echo" /\ reader'[k] = "reply"
    BY <1>0, <1>9 DEF HandleEcho, UpdateHeartbeat, ReaderGoes, VariablesTyped
  <2>2. registry'[k] = [registry[k] EXCEPT !.heartbeat = TRUE]
    BY <2>1, UpdateKeepsKeys
  <2>3. registry'[k].node = registry[k].node /\ registry'[k].attributes = registry[k].attributes
    BY <1>2, <2>2 DEF Entry
  <2>4. Complete(k) /\ Complete(k)'
    BY <1>2, <1>3, <2>1, <2>3 DEF Stage, Complete, NameIsRight
  <2> QED
    BY <1>2, <1>3, <2>1, <2>3, <2>4 DEF Stage
<1>10. CASE HandleAttributes(k)
  <2> DEFINE announced == Announced(registry[k].attributes, {}, AnnouncedBy[owner[k]])
  <2>1. /\ registry' = Update(registry, k, [registry[k] EXCEPT !.attributes = announced])
        /\ reader[k] = "announce" /\ reader'[k] = "reset"
    BY <1>0, <1>10 DEF HandleAttributes, SetAttributes, ReaderGoes, VariablesTyped
  <2>2. registry'[k] = [registry[k] EXCEPT !.attributes = announced]
    BY <2>1, UpdateKeepsKeys
  <2>3. /\ registry[k].attributes \in Attributes
        /\ AnnouncedBy[owner[k]] \in Attributes
        /\ DOMAIN registry[k].attributes \subseteq DOMAIN AnnouncedBy[owner[k]]
    BY <1>2, HubConstants DEF Entry, Stage
  <2>4. announced = AnnouncedBy[owner[k]]
    BY <2>3, AnnounceAgain
  <2>5. registry'[k].node = registry[k].node /\ registry'[k].attributes = AnnouncedBy[owner[k]]
    BY <1>2, <2>2, <2>4 DEF Entry
  <2>6. NameIsRight(k)
    BY <1>2, <2>1 DEF Stage
  <2>7. Complete(k)'
    BY <1>3, <2>5, <2>6 DEF Complete, NameIsRight
  <2> QED
    BY <1>3, <2>1, <2>5, <2>7 DEF Stage
<1>11. CASE HandleRegister(k)
  <2>1. CASE owner[k] \in refused
    <3>1. registry' = registry /\ reader'[k] = "report"
      BY <1>0, <1>11, <2>1 DEF HandleRegister, ReaderGoes, QUIC, VariablesTyped
    <3> QED
      BY <1>2, <1>3, <1>4, <3>1 DEF Stage
  <2>2. CASE owner[k] \notin refused
    <3>1. /\ registry' = Update(registry, k, [registry[k] EXCEPT !.node = owner[k]])
          /\ reader'[k] \in {"report", "announce"}
      BY <1>0, <1>11, <2>2 DEF HandleRegister, Register, ReaderGoes, VariablesTyped
    <3>2. registry'[k] = [registry[k] EXCEPT !.node = owner[k]]
      BY <3>1, UpdateKeepsKeys
    <3>3. /\ registry'[k].node = owner[k]
          /\ registry'[k].attributes = registry[k].attributes
          /\ registry'[k].heartbeat = registry[k].heartbeat
      BY <1>2, <3>2 DEF Entry
    <3>4. NameIsRight(k)' /\ (Complete(k) => Complete(k)')
      BY <1>3, <2>2, <3>3 DEF NameIsRight, Complete
    <3> QED
      BY <1>2, <1>3, <3>1, <3>3, <3>4 DEF Stage
  <2> QED
    BY <2>1, <2>2
<1> QED
  BY <1>5, <1>6, <1>7, <1>8, <1>9, <1>10, <1>11 DEF ReaderStep

-----------------------------------------------------------------------------
(* The theorems.                                                           *)

LEMMA HubInitially == Init => HubInv
<1> SUFFICES ASSUME Init
             PROVE  HubInv
  OBVIOUS
<1>1. VariablesTyped
  BY HubConstants DEF Init, VariablesTyped
<1>2. Open(registry) = {}
  BY DEF Init, EmptyRegistry, Open
<1>3. \A k \in Keys : inbox[k] = <<>> /\ reader[k] = "none"
  BY DEF Init
<1>4. EntriesTyped /\ EntryHasHandler /\ Stages
  BY <1>2 DEF Init, EntriesTyped, EntryHasHandler, Stages
<1>5. Wired /\ Owned /\ LiveIsUsed /\ QuietBeforeRegister /\ UnreadBeforeOpen
  BY DEF Init, Wired, Owned, LiveIsUsed, QuietBeforeRegister, UnreadBeforeOpen
<1>6. LaterEchoes(<<>>) /\ Len(<<>>) = 0
  BY DEF LaterEchoes
<1>7. EchoesFollow
  BY <1>3, <1>6 DEF EchoesFollow, Handling
<1>8. InboxesBounded
  <2>1. 0 <= MaxInbox
    BY HubConstants
  <2>2. \A k \in Keys : Len(inbox[k]) = 0
    <3>1. ASSUME NEW s \in Seq(Messages), s = <<>> PROVE Len(s) = 0
      BY ONLY <3>1
    <3> QED
      BY <1>1, <1>3, <3>1 DEF VariablesTyped
  <2> QED
    BY <2>1, <2>2, Zenon DEF InboxesBounded
<1> QED
  BY <1>1, <1>4, <1>5, <1>7, <1>8 DEF HubInv, HubTypeOK

LEMMA HubStepwise == HubInv /\ [Next]_vars => HubInv'
<1> SUFFICES ASSUME HubInv, [Next]_vars
             PROVE  HubInv'
  OBVIOUS
<1>1. CASE Next
  <2>1. /\ VariablesTyped /\ InboxesBounded /\ EntriesTyped /\ EntryHasHandler /\ Wiring
        /\ QuietBeforeRegister /\ EchoesFollow /\ UnreadBeforeOpen /\ Wired /\ Owned
    BY DEF HubInv, HubTypeOK, Wiring
  <2>2. VariablesTyped' /\ InboxesBounded' /\ EntriesTyped'
    BY <1>1, <2>1, StepTypes, StepBoundsInboxes, StepTypesEntries
  <2>3. EntryHasHandler' /\ Wiring'
    BY <1>1, <2>1, StepKeepsHandlers, StepKeepsWiring
  <2>4. QuietBeforeRegister' /\ EchoesFollow' /\ UnreadBeforeOpen'
    BY <1>1, <2>1, StepKeepsQuiet, StepKeepsEchoes, StepKeepsUnread
  <2>5. Stages'
    BY <1>1, AgentKeepsStages, HandlerKeepsStages, ReaderKeepsStages DEF Next, Step
  <2> QED
    BY <2>2, <2>3, <2>4, <2>5 DEF HubInv, HubTypeOK, Wiring
<1>2. CASE UNCHANGED vars
  <2>1. HubTypeOK'
    BY <1>2 DEF vars, HubInv, HubTypeOK, VariablesTyped, InboxesBounded, EntriesTyped
  <2>2. EntryHasHandler' /\ Wired' /\ Owned' /\ LiveIsUsed'
    BY <1>2 DEF vars, HubInv, EntryHasHandler, Wired, Owned, LiveIsUsed, QUIC
  <2>3. QuietBeforeRegister' /\ EchoesFollow' /\ UnreadBeforeOpen'
    BY <1>2 DEF vars, HubInv, QuietBeforeRegister, EchoesFollow, UnreadBeforeOpen
  <2>4. \A k \in Open(registry) : SameKey(k)
    BY <1>2 DEF vars, SameKey
  <2>5. Stages'
    BY <1>2, <2>4, StageKept DEF vars, HubInv, Stages
  <2> QED
    BY <2>1, <2>2, <2>3, <2>5 DEF HubInv
<1> QED
  BY <1>1, <1>2

LEMMA HubInvariant == Spec => []HubInv
  BY HubInitially, HubStepwise, PTL DEF Spec

\* Whatever agents, readers and handlers do, the state of the hub and of its
\* agents stays well formed: pkg/nodereg/agent.go, pkg/handler/handle_ws.go
\* and handle_quic.go never hold an entry or a message of another shape.
THEOREM HubTypeCorrect == Spec => []HubTypeOK
<1>1. HubInv => HubTypeOK
  BY DEF HubInv
<1> QED
  BY <1>1, HubInvariant, PTL

\* The registry holds an entry exactly while the handler of its connection
\* runs: a reader that outlives the handler (handle_ws.go:109, the goroutine)
\* never brings the entry back.
THEOREM NoGhostEntries == Spec => []EntryHasHandler
<1>1. HubInv => EntryHasHandler
  BY DEF HubInv
<1> QED
  BY <1>1, HubInvariant, PTL

\* A heartbeat is recorded only for a connection whose token has passed and
\* whose name and attributes are in the registry: the register message comes
\* first, and QUIC stops reading when it fails (handle_quic.go:138).
THEOREM HeartbeatAfterRegistration == Spec => []BeatingIsRegistered
<1>1. HubInv => BeatingIsRegistered
  BY DEF HubInv, BeatingIsRegistered, Stages, Stage, Complete, NameIsRight, EntryHasHandler,
         Owned, HubTypeOK, EntriesTyped
<1> QED
  BY <1>1, HubInvariant, PTL

\* An agent never has two WebSocket connections that work: doRun, which closes
\* nothing, returns only when reading or writing has failed.
THEOREM OneWebSocketWorks == Spec => []OneLiveWebSocket
<1>1. HubInv => OneLiveWebSocket
  BY DEF HubInv, OneLiveWebSocket, LiveIsUsed, QUIC
<1> QED
  BY <1>1, HubInvariant, PTL
=============================================================================
