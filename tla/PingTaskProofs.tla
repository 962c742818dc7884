--------------------------- MODULE PingTaskProofs ---------------------------
(***************************************************************************)
(* TLAPS proofs about one ping request, for any requests, nodes, targets   *)
(* and number of events.                                                   *)
(***************************************************************************)
EXTENDS PingTask, SequenceTheorems, TLAPS

LEMMA FormFacts ==
  ASSUME form \in Forms
  PROVE  /\ form.from \in Seq(Nodes) /\ Len(form.from) \in 1..MaxFrom
         /\ \A i \in 1..Len(form.from) : form.from[i] \in Nodes
         /\ form.targets \subseteq Targets
         /\ form.count \in 1..MaxEvents
  BY PingTaskConstants

LEMMA TaskTypeInit == Init => TaskTypeOK
<1> SUFFICES ASSUME Init PROVE TaskTypeOK
  OBVIOUS
<1>1. form \in Forms BY DEF Init
<1>2. entries \subseteq Nodes /\ live \subseteq entries
  BY <1>1, FormFacts DEF Init
<1>3. next \in 1..(MaxFrom + 1) BY PingTaskConstants DEF Init
<1>4. sent \in [Stream -> 0..MaxEvents] /\ total \in [Stream -> 0..MaxEvents]
  BY PingTaskConstants DEF Init
<1>5. \A j \in Stream : body[j] = <<>> /\ forward[j] = <<>> /\ delivered[j] = <<>>
  BY DEF Init
<1>6. <<>> \in Seq(Item) /\ Len(<<>>) = 0 BY EmptySeq
<1>7. /\ body \in [Stream -> Seq(Item)] /\ forward \in [Stream -> Seq(Item)]
      /\ delivered \in [Stream -> Seq(Item)] /\ \A j \in Stream : Len(forward[j]) <= 2
  BY <1>5, <1>6 DEF Init
<1> QED BY <1>1, <1>2, <1>3, <1>4, <1>7 DEF Init, TaskTypeOK

LEMMA SeqFacts ==
  ASSUME NEW s \in Seq(Item), s # <<>>
  PROVE  /\ Len(s) \in Nat /\ Len(s) >= 1
         /\ Head(s) = s[1] /\ Head(s) \in Item
         /\ Tail(s) \in Seq(Item) /\ Len(Tail(s)) = Len(s) - 1
         /\ \A i \in 1..(Len(s) - 1) : Tail(s)[i] = s[i + 1]
<1>1. Len(s) \in Nat BY LenProperties
<1>2. Len(s) # 0 BY EmptySeq
<1> QED BY <1>1, <1>2, HeadTailProperties

LEMMA AppendFacts ==
  ASSUME NEW s \in Seq(Item), NEW e \in Item
  PROVE  /\ Append(s, e) \in Seq(Item)
         /\ Len(s) \in Nat /\ Len(Append(s, e)) = Len(s) + 1
         /\ \A i \in 1..Len(s) : Append(s, e)[i] = s[i]
         /\ Append(s, e)[Len(s) + 1] = e
  BY AppendProperties, LenProperties

LEMMA TaskTypeStep == TaskTypeOK /\ [Next]_vars => TaskTypeOK'
<1> SUFFICES ASSUME TaskTypeOK, [Next]_vars PROVE TaskTypeOK'
  OBVIOUS
<1> USE DEF TaskTypeOK, registryVars, dispatchVars, streamVars, agentVars
<1>1. CASE Lookup
  <2>1. next <= Len(form.from) /\ Len(form.from) \in 1..MaxFrom BY <1>1, FormFacts DEF Lookup
  <2>2. form.from[next] \in Nodes BY <2>1, FormFacts
  <2>3. MaxFrom \in Nat BY PingTaskConstants
  <2>4. ASSUME form.from[next] \in entries
        PROVE  next' \in 1..(MaxFrom + 1) /\ absent' \subseteq Nodes /\ looked' \in BOOLEAN
    <3>1. looked' = TRUE /\ next' = next /\ absent' = absent BY <1>1, <2>4 DEF Lookup
    <3> QED BY <3>1
  <2>5. ASSUME form.from[next] \notin entries
        PROVE  next' \in 1..(MaxFrom + 1) /\ absent' \subseteq Nodes /\ looked' \in BOOLEAN
    <3>1. absent' = absent \cup {form.from[next]} /\ next' = next + 1 /\ looked' = looked
      BY <1>1, <2>5 DEF Lookup
    <3>2. next \in 1..(MaxFrom + 1) OBVIOUS
    <3>3. next + 1 \in 1..(MaxFrom + 1)
      BY ONLY <2>1, <2>3, <3>2
    <3> QED BY <2>2, <3>1, <3>3
  <2>6. next' \in 1..(MaxFrom + 1) /\ absent' \subseteq Nodes /\ looked' \in BOOLEAN
    BY <2>4, <2>5
  <2>7. looked' => next' <= Len(form.from) BY <1>1, <2>1 DEF Lookup
  <2> QED BY <1>1, <2>6, <2>7 DEF Lookup
<1>2. CASE Build
  <2>1. next <= Len(form.from) /\ Len(form.from) \in 1..MaxFrom BY <1>2, FormFacts DEF Build
  <2>2. form.from[next] \in Nodes /\ form.targets \subseteq Targets BY <2>1, FormFacts
  <2>3. refused' \subseteq Nodes \X Targets BY <1>2, <2>2 DEF Build, PolicyOutcomes
  <2>4. pingers' \in [Stream -> Transports \cup {"none"}]
    BY <1>2 DEF Build, PolicyOutcomes
  <2>5. next' \in 1..(MaxFrom + 1) /\ looked' = FALSE
    BY <1>2, <2>1, PingTaskConstants DEF Build
  <2> QED BY <1>2, <2>3, <2>4, <2>5 DEF Build
<1>3. CASE Start BY <1>3 DEF Start
<1>4. CASE HandlerEnds BY <1>4 DEF HandlerEnds
<1>5. ASSUME NEW j \in Stream, Encode(j) \/ EncodeFails(j) PROVE TaskTypeOK'
  <2>1. forward[j] \in Seq(Item) /\ forward[j] # <<>> /\ delivered[j] \in Seq(Item)
    BY <1>5 DEF Encode, EncodeFails
  <2>2. /\ Tail(forward[j]) \in Seq(Item) /\ Len(Tail(forward[j])) <= 2
        /\ Append(delivered[j], Head(forward[j])) \in Seq(Item)
    BY <2>1, SeqFacts, AppendFacts
  <2>3. forward' = [forward EXCEPT ![j] = Tail(forward[j])]
    BY <1>5 DEF Encode, EncodeFails
  <2>4. /\ forward' \in [Stream -> Seq(Item)] /\ \A k \in Stream : Len(forward'[k]) <= 2
        /\ delivered' \in [Stream -> Seq(Item)]
        /\ pc' \in {"dispatch", "stream", "done"}
    BY <1>5, <2>2, <2>3 DEF Encode, EncodeFails
  <2> QED BY <1>5, <2>4 DEF Encode, EncodeFails
<1>6. ASSUME NEW j \in Stream, Request(j) PROVE TaskTypeOK'
  <2>1. <<Refusal>> \in Seq(Item) BY DEF Item
  <2>2. form.count \in 1..MaxEvents BY FormFacts
  <2>3. MaxEvents \in Nat BY PingTaskConstants
  <2>4. \A k \in 1..form.count : k \in 0..MaxEvents BY <2>2, <2>3
  <2>5. ServePing(j) BY <1>6 DEF Request
  <2>6. \/ \E k \in 1..form.count : total' = [total EXCEPT ![j] = k]
        \/ total' = total
    BY <2>5 DEF ServePing
  <2>7. total' \in [Stream -> 0..MaxEvents] BY <2>6, <2>4
  <2>8. body' = body \/ body' = [body EXCEPT ![j] = <<Refusal>>] BY <2>5 DEF ServePing
  <2>9. body' \in [Stream -> Seq(Item)] BY <2>8, <2>1
  <2>10. agent' = [agent EXCEPT ![j] = "run"] \/ agent' = [agent EXCEPT ![j] = "done"]
    BY <2>5 DEF ServePing
  <2>11. agent' \in [Stream -> {"none", "run", "done"}] BY <2>10
  <2>12. /\ total' \in [Stream -> 0..MaxEvents]
        /\ body' \in [Stream -> Seq(Item)]
        /\ agent' \in [Stream -> {"none", "run", "done"}]
    BY <2>7, <2>9, <2>11
  <2> QED BY <1>6, <2>12 DEF Request
<1>7. ASSUME NEW j \in Stream, RequestFails(j) PROVE TaskTypeOK'
  BY <1>7 DEF RequestFails, Item
<1>8. ASSUME NEW j \in Stream, Scan(j) PROVE TaskTypeOK'
  <2>1. body[j] \in Seq(Item) /\ body[j] # <<>> BY <1>8 DEF Scan
  <2>2. Head(body[j]) \in Item /\ Tail(body[j]) \in Seq(Item) BY <2>1, SeqFacts
  <2>3. held' \in [Stream -> Item \cup {None}] /\ body' \in [Stream -> Seq(Item)]
    BY <1>8, <2>2 DEF Scan
  <2> QED BY <1>8, <2>3 DEF Scan
<1>9. ASSUME NEW j \in Stream, RemoteEnds(j) PROVE TaskTypeOK'
  BY <1>9 DEF RemoteEnds
<1>10. ASSUME NEW j \in Stream, Forward(j) PROVE TaskTypeOK'
  <2>1. forward[j] \in Seq(Item) /\ held[j] \in Item /\ Len(forward[j]) < 2
    BY <1>10 DEF Forward
  <2>2. /\ Append(forward[j], held[j]) \in Seq(Item)
        /\ Len(Append(forward[j], held[j])) <= 2
    BY <2>1, AppendFacts
  <2>3. forward' \in [Stream -> Seq(Item)] /\ \A k \in Stream : Len(forward'[k]) <= 2
    BY <1>10, <2>2 DEF Forward
  <2> QED BY <1>10, <2>3 DEF Forward
<1>11. ASSUME NEW j \in Stream, ForwardEnds(j) PROVE TaskTypeOK'
  BY <1>11 DEF ForwardEnds
<1>12. ASSUME NEW j \in Stream, AgentWrites(j) PROVE TaskTypeOK'
  <2>1. sent[j] \in 0..MaxEvents /\ total[j] \in 0..MaxEvents /\ sent[j] < total[j]
    BY <1>12 DEF AgentWrites
  <2>2. sent[j] + 1 \in 1..MaxEvents BY <2>1, PingTaskConstants
  <2>3. body[j] \in Seq(Item) /\ sent[j] + 1 \in Item BY <2>2 DEF Item
  <2>4. Append(body[j], sent[j] + 1) \in Seq(Item) BY <2>3, AppendFacts
  <2>5. sent' \in [Stream -> 0..MaxEvents] BY <1>12, <2>2 DEF AgentWrites
  <2>6. body' \in [Stream -> Seq(Item)] BY <1>12, <2>4 DEF AgentWrites
  <2> QED BY <1>12, <2>5, <2>6 DEF AgentWrites
<1>13. ASSUME NEW j \in Stream, AgentEnds(j) PROVE TaskTypeOK'
  BY <1>13 DEF AgentEnds
<1>14. CASE Environment
  <2>1. CASE ClientLeaves BY <2>1 DEF ClientLeaves
  <2>2. ASSUME NEW n, Break(n) PROVE TaskTypeOK'
    BY <2>2 DEF Break
  <2>3. ASSUME NEW n, Deregister(n) PROVE TaskTypeOK'
    BY <2>3 DEF Deregister
  <2>4. ASSUME NEW j \in Stream, BreakResponse(j) PROVE TaskTypeOK'
    BY <2>4 DEF BreakResponse
  <2> QED BY <1>14, <2>1, <2>2, <2>3, <2>4 DEF Environment
<1>15. CASE UNCHANGED vars BY <1>15 DEF vars
<1> QED
  BY <1>1, <1>2, <1>3, <1>4, <1>5, <1>6, <1>7, <1>8, <1>9, <1>10, <1>11, <1>12, <1>13,
     <1>14, <1>15 DEF Next, Handler, Remote, Forwarder, Agent

\* The variables keep their types: the two forwarding goroutines never hold
\* more than two events, and no pinger sends more than the packets asked for.
THEOREM TaskTypeCorrect == Spec => []TaskTypeOK
  BY TaskTypeInit, TaskTypeStep, PTL DEF Spec

-----------------------------------------------------------------------------
(* DeliveredInOrder.  An event of a stream is in one of four places: the   *)
(* response, the hand of the remote pinger, the forwarding goroutines or   *)
(* the client's response.  Read from the last place to the first they hold *)
(* consecutive numbers, unless one error took the place of all of them.    *)

\* Events that the remote pinger, and that the forwarders, have taken.
HeldCount(j) == IF held[j] = None THEN 0 ELSE 1
Scanned(j) == sent[j] - Len(body[j])
PassedOn(j) == Scanned(j) - HeldCount(j) - Len(forward[j])

EventsInOrder(j) ==
  /\ Len(delivered[j]) <= PassedOn(j)
  /\ \A i \in 1..Len(body[j]) : body[j][i] = Scanned(j) + i
  /\ held[j] # None => held[j] = Scanned(j)
  /\ \A i \in 1..Len(forward[j]) : forward[j][i] = PassedOn(j) + i
  /\ \A i \in 1..Len(delivered[j]) : delivered[j][i] = i
  /\ ~gone => Len(delivered[j]) = PassedOn(j)

Errors == {Refusal, Failure}

OneError(j) ==
  /\ agent[j] # "run"
  /\ remote[j] \notin {"none", "request"}
  /\ Len(body[j]) + HeldCount(j) + Len(forward[j]) + Len(delivered[j]) <= 1
  /\ \A i \in 1..Len(body[j]) : body[j][i] \in Errors
  /\ held[j] # None => held[j] \in Errors
  /\ \A i \in 1..Len(forward[j]) : forward[j][i] \in Errors
  /\ \A i \in 1..Len(delivered[j]) : delivered[j][i] \in Errors

Fresh(j) ==
  /\ agent[j] = "none" /\ sent[j] = 0 /\ held[j] = None
  /\ body[j] = <<>> /\ forward[j] = <<>> /\ delivered[j] = <<>>

StreamInOrder(j) ==
  /\ pc = "dispatch" => remote[j] = "none"
  /\ remote[j] \in {"none", "request"} => Fresh(j)
  /\ EventsInOrder(j) \/ OneError(j)

OrderInv == \A j \in Stream : StreamInOrder(j)

LEMMA OrderInit == Init => OrderInv
<1> SUFFICES ASSUME Init, NEW j \in Stream PROVE StreamInOrder(j)
  BY DEF OrderInv
<1>1. Fresh(j) /\ remote[j] = "none" BY DEF Init, Fresh
<1>2. Len(<<>>) = 0 BY EmptySeq
<1>3. /\ delivered[j] = <<>> /\ forward[j] = <<>> /\ body[j] = <<>> /\ held[j] = None
      /\ sent[j] = 0
  BY DEF Init
<1>4. Len(delivered[j]) = 0 /\ Len(forward[j]) = 0 /\ Len(body[j]) = 0 BY <1>2, <1>3
<1>5. sent[j] = 0 /\ HeldCount(j) = 0 BY <1>3 DEF HeldCount
<1>6. Scanned(j) = 0 BY ONLY <1>4, <1>5 DEF Scanned
<1>7. PassedOn(j) = 0 BY ONLY <1>4, <1>5, <1>6 DEF PassedOn
<1>8. EventsInOrder(j)
  BY <1>3, <1>4, <1>6, <1>7 DEF EventsInOrder
<1> QED BY <1>1, <1>8 DEF StreamInOrder

\* What the order of a stream depends on stays as it is.
LEMMA StreamKept ==
  ASSUME NEW k \in Stream, StreamInOrder(k),
         remote'[k] = remote[k], held'[k] = held[k], forward'[k] = forward[k],
         agent'[k] = agent[k], sent'[k] = sent[k], body'[k] = body[k],
         delivered'[k] = delivered[k],
         gone => gone', pc' = "dispatch" => pc = "dispatch"
  PROVE  StreamInOrder(k)'
<1>1. EventsInOrder(k) => EventsInOrder(k)'
  BY DEF EventsInOrder, Scanned, HeldCount, PassedOn
<1>2. OneError(k) => OneError(k)' BY DEF OneError, HeldCount
<1>3. Fresh(k) => Fresh(k)' BY DEF Fresh
<1> QED BY <1>1, <1>2, <1>3 DEF StreamInOrder

LEMMA NoneIsNoItem == None \notin Item
  BY PingTaskConstants DEF Item

LEMMA AtMostOne ==
  \A a, b, c, d \in Nat : a + b + c + d <= 1 =>
    /\ a >= 1 => a = 1 /\ b = 0 /\ c = 0 /\ d = 0
    /\ b >= 1 => a = 0 /\ b = 1 /\ c = 0 /\ d = 0
    /\ c >= 1 => a = 0 /\ b = 0 /\ c = 1 /\ d = 0
  OBVIOUS

LEMMA ScanInOrder ==
  ASSUME TaskTypeOK, NEW j \in Stream, StreamInOrder(j), Scan(j)
  PROVE  StreamInOrder(j)'
<1>1. /\ body[j] \in Seq(Item) /\ body[j] # <<>> /\ held[j] = None /\ remote[j] = "scan"
      /\ sent[j] \in Nat /\ forward[j] \in Seq(Item) /\ delivered[j] \in Seq(Item)
  BY PingTaskConstants DEF Scan, TaskTypeOK
<1>2. /\ held'[j] = Head(body[j]) /\ body'[j] = Tail(body[j])
      /\ remote'[j] = "scan" /\ forward'[j] = forward[j] /\ agent'[j] = agent[j]
      /\ sent'[j] = sent[j] /\ delivered'[j] = delivered[j] /\ gone' = gone /\ pc' = pc
  BY DEF Scan, TaskTypeOK, registryVars, dispatchVars
<1>3. /\ Len(body[j]) \in Nat /\ Len(body[j]) >= 1
      /\ Head(body[j]) = body[j][1] /\ Head(body[j]) \in Item
      /\ Len(Tail(body[j])) = Len(body[j]) - 1
      /\ \A i \in 1..(Len(body[j]) - 1) : Tail(body[j])[i] = body[j][i + 1]
  BY <1>1, SeqFacts
<1>4. Len(forward[j]) \in Nat /\ Len(delivered[j]) \in Nat BY <1>1, LenProperties
<1>5. held'[j] # None BY <1>2, <1>3, NoneIsNoItem
<1>6. ASSUME EventsInOrder(j) PROVE EventsInOrder(j)'
  <2>1. Scanned(j)' = Scanned(j) + 1 BY <1>1, <1>2, <1>3 DEF Scanned
  <2>2. Scanned(j) \in Int BY <1>1, <1>3 DEF Scanned
  <2>3. PassedOn(j)' = PassedOn(j)
    BY <1>1, <1>2, <1>4, <1>5, <2>1, <2>2 DEF PassedOn, HeldCount
  <2>4. held'[j] = Scanned(j)' BY <1>2, <1>3, <1>6, <2>1, <2>2 DEF EventsInOrder
  <2>5. \A i \in 1..Len(body'[j]) : body'[j][i] = Scanned(j)' + i
    <3> SUFFICES ASSUME NEW i \in 1..(Len(body[j]) - 1)
                 PROVE  Tail(body[j])[i] = Scanned(j) + 1 + i
      BY <1>2, <1>3, <2>1
    <3>1. Tail(body[j])[i] = body[j][i + 1] /\ i + 1 \in 1..Len(body[j]) BY <1>3
    <3>2. body[j][i + 1] = Scanned(j) + (i + 1) BY <3>1, <1>6 DEF EventsInOrder
    <3> QED BY <3>1, <3>2, <2>2
  <2> QED BY <1>2, <1>6, <2>3, <2>4, <2>5 DEF EventsInOrder
<1>7. ASSUME OneError(j) PROVE OneError(j)'
  <2>1. HeldCount(j) = 0 /\ HeldCount(j)' = 1 BY <1>1, <1>5 DEF HeldCount
  <2>2. Head(body[j]) \in Errors BY <1>3, <1>7 DEF OneError
  <2>3. Len(body[j]) + HeldCount(j) + Len(forward[j]) + Len(delivered[j]) <= 1
    BY <1>7 DEF OneError
  <2>7. Len(body[j]) \in Nat /\ Len(forward[j]) \in Nat /\ Len(delivered[j]) \in Nat
    BY <1>3, <1>4
  <2>4. Len(body[j]) = 1 /\ Len(forward[j]) = 0 /\ Len(delivered[j]) = 0
    <3>1. HeldCount(j) \in Nat BY <2>1
    <3>2. Len(body[j]) >= 1 =>
            /\ Len(body[j]) = 1 /\ Len(forward[j]) = 0 /\ Len(delivered[j]) = 0
      BY ONLY <3>1, <2>3, <2>7, AtMostOne
    <3>3. Len(body[j]) >= 1 BY <1>3
    <3> QED BY ONLY <3>2, <3>3
  <2>5. Len(body'[j]) = 0 /\ Len(forward'[j]) = 0 /\ Len(delivered'[j]) = 0
    BY <1>2, <1>3, <2>4
  <2>6. Len(body'[j]) + HeldCount(j)' + Len(forward'[j]) + Len(delivered'[j]) <= 1
    BY <2>1, <2>5
  <2> QED BY <1>2, <1>7, <2>2, <2>5, <2>6 DEF OneError
<1> QED BY <1>1, <1>2, <1>6, <1>7 DEF StreamInOrder

LEMMA ForwardInOrder ==
  ASSUME TaskTypeOK, NEW j \in Stream, StreamInOrder(j), Forward(j)
  PROVE  StreamInOrder(j)'
<1>1. /\ held[j] \in Item /\ held[j] # None /\ forward[j] \in Seq(Item)
      /\ body[j] \in Seq(Item) /\ sent[j] \in Nat /\ delivered[j] \in Seq(Item)
  BY PingTaskConstants DEF Forward, TaskTypeOK
<1>2. /\ forward'[j] = Append(forward[j], held[j]) /\ held'[j] = None
      /\ remote'[j] = remote[j] /\ body'[j] = body[j] /\ agent'[j] = agent[j]
      /\ sent'[j] = sent[j] /\ delivered'[j] = delivered[j] /\ gone' = gone /\ pc' = pc
  BY DEF Forward, TaskTypeOK, registryVars, dispatchVars, agentVars
<1>3. /\ Len(forward[j]) \in Nat /\ Len(Append(forward[j], held[j])) = Len(forward[j]) + 1
      /\ \A i \in 1..Len(forward[j]) : Append(forward[j], held[j])[i] = forward[j][i]
      /\ Append(forward[j], held[j])[Len(forward[j]) + 1] = held[j]
  BY <1>1, AppendFacts
<1>4. Len(body[j]) \in Nat /\ Len(delivered[j]) \in Nat BY <1>1, LenProperties
<1>5. HeldCount(j) = 1 /\ HeldCount(j)' = 0 BY <1>1, <1>2 DEF HeldCount
<1>6. remote[j] \notin {"none", "request"} BY <1>1 DEF StreamInOrder, Fresh
<1>7. ASSUME EventsInOrder(j) PROVE EventsInOrder(j)'
  <2>1. Scanned(j)' = Scanned(j) /\ Scanned(j) \in Int BY <1>1, <1>2, <1>4 DEF Scanned
  <2>5. PassedOn(j) = Scanned(j) - 1 - Len(forward[j]) BY <1>5 DEF PassedOn
  <2>6. PassedOn(j)' = Scanned(j)' - 0 - Len(forward'[j]) BY <1>5 DEF PassedOn
  <2>7. Len(forward'[j]) = Len(forward[j]) + 1 BY <1>2, <1>3
  <2>2. PassedOn(j)' = PassedOn(j) /\ PassedOn(j) = Scanned(j) - 1 - Len(forward[j])
    BY <1>3, <2>1, <2>5, <2>6, <2>7
  <2>3. held[j] = Scanned(j) BY <1>1, <1>7 DEF EventsInOrder
  <2>4. \A i \in 1..Len(forward'[j]) : forward'[j][i] = PassedOn(j)' + i
    <3> SUFFICES ASSUME NEW i \in 1..(Len(forward[j]) + 1)
                 PROVE  Append(forward[j], held[j])[i] = PassedOn(j) + i
      BY <1>2, <1>3, <2>2
    <3>1. CASE i \in 1..Len(forward[j]) BY <3>1, <1>3, <1>7 DEF EventsInOrder
    <3>2. CASE i = Len(forward[j]) + 1 BY <3>2, <1>3, <2>1, <2>2, <2>3
    <3> QED BY <3>1, <3>2, <1>3
  <2> QED BY <1>2, <1>7, <2>1, <2>2, <2>4 DEF EventsInOrder
<1>8. ASSUME OneError(j) PROVE OneError(j)'
  <2>1. held[j] \in Errors BY <1>1, <1>8 DEF OneError
  <2>2. \A i \in 1..Len(forward'[j]) : forward'[j][i] \in Errors
    BY <1>2, <1>3, <1>8, <2>1 DEF OneError
  <2>4. Len(body[j]) + HeldCount(j) + Len(forward[j]) + Len(delivered[j]) <= 1
    BY <1>8 DEF OneError
  <2>7. Len(body[j]) \in Nat /\ Len(forward[j]) \in Nat /\ Len(delivered[j]) \in Nat
    BY <1>3, <1>4
  <2>5. Len(body[j]) = 0 /\ Len(forward[j]) = 0 /\ Len(delivered[j]) = 0
    <3>1. HeldCount(j) \in Nat /\ HeldCount(j) >= 1 BY <1>5
    <3> QED BY ONLY <3>1, <2>4, <2>7, AtMostOne
  <2>6. Len(body'[j]) = 0 /\ Len(forward'[j]) = 1 /\ Len(delivered'[j]) = 0
    BY <1>2, <1>3, <2>5
  <2>3. Len(body'[j]) + HeldCount(j)' + Len(forward'[j]) + Len(delivered'[j]) <= 1
    BY <1>5, <2>6
  <2> QED BY <1>2, <1>8, <2>2, <2>3 DEF OneError
<1> QED BY <1>2, <1>6, <1>7, <1>8 DEF StreamInOrder

LEMMA EncodeInOrder ==
  ASSUME TaskTypeOK, NEW j \in Stream, StreamInOrder(j), Encode(j) \/ EncodeFails(j)
  PROVE  StreamInOrder(j)'
<1>1. /\ forward[j] \in Seq(Item) /\ forward[j] # <<>> /\ delivered[j] \in Seq(Item)
      /\ body[j] \in Seq(Item) /\ sent[j] \in Nat /\ pc = "stream"
  BY PingTaskConstants DEF Encode, EncodeFails, TaskTypeOK
<1>2. /\ forward'[j] = Tail(forward[j]) /\ held'[j] = held[j]
      /\ remote'[j] = remote[j] /\ body'[j] = body[j] /\ agent'[j] = agent[j]
      /\ sent'[j] = sent[j] /\ gone' = gone /\ pc' # "dispatch"
  BY DEF Encode, EncodeFails, TaskTypeOK, registryVars, dispatchVars, agentVars
<1>3. \/ gone /\ delivered'[j] = delivered[j]
      \/ ~gone /\ delivered'[j] = Append(delivered[j], Head(forward[j]))
  BY DEF Encode, EncodeFails, TaskTypeOK
<1>4. /\ Len(forward[j]) \in Nat /\ Len(forward[j]) >= 1
      /\ Head(forward[j]) = forward[j][1] /\ Head(forward[j]) \in Item
      /\ Len(Tail(forward[j])) = Len(forward[j]) - 1
      /\ \A i \in 1..(Len(forward[j]) - 1) : Tail(forward[j])[i] = forward[j][i + 1]
  BY <1>1, SeqFacts
<1>5. /\ Len(delivered[j]) \in Nat
      /\ Len(Append(delivered[j], Head(forward[j]))) = Len(delivered[j]) + 1
      /\ \A i \in 1..Len(delivered[j]) :
           Append(delivered[j], Head(forward[j]))[i] = delivered[j][i]
      /\ Append(delivered[j], Head(forward[j]))[Len(delivered[j]) + 1] = Head(forward[j])
  BY <1>1, <1>4, AppendFacts
<1>6. Len(body[j]) \in Nat BY <1>1, LenProperties
<1>7. HeldCount(j)' = HeldCount(j) /\ HeldCount(j) \in Nat BY <1>2 DEF HeldCount
<1>8. remote[j] \notin {"none", "request"} BY <1>1 DEF StreamInOrder, Fresh
<1>9. ASSUME EventsInOrder(j) PROVE EventsInOrder(j)'
  <2>1. Scanned(j)' = Scanned(j) /\ Scanned(j) \in Int BY <1>1, <1>2, <1>6 DEF Scanned
  <2>2. PassedOn(j)' = Scanned(j)' - HeldCount(j)' - Len(forward'[j]) BY DEF PassedOn
  <2>3. PassedOn(j) = Scanned(j) - HeldCount(j) - Len(forward[j]) BY DEF PassedOn
  <2>4. Len(forward'[j]) = Len(forward[j]) - 1 BY <1>2, <1>4
  <2>5. PassedOn(j)' = PassedOn(j) + 1 /\ PassedOn(j) \in Int
    BY <1>4, <1>7, <2>1, <2>2, <2>3, <2>4
  <2>6. Head(forward[j]) = PassedOn(j) + 1 BY <1>4, <1>9 DEF EventsInOrder
  <2>7. \A i \in 1..Len(forward'[j]) : forward'[j][i] = PassedOn(j)' + i
    <3> SUFFICES ASSUME NEW i \in 1..(Len(forward[j]) - 1)
                 PROVE  Tail(forward[j])[i] = PassedOn(j) + 1 + i
      BY <1>2, <1>4, <2>5
    <3>1. Tail(forward[j])[i] = forward[j][i + 1] /\ i + 1 \in 1..Len(forward[j]) BY <1>4
    <3>2. forward[j][i + 1] = PassedOn(j) + (i + 1) BY <3>1, <1>9 DEF EventsInOrder
    <3> QED BY <3>1, <3>2, <2>5
  <2>8. CASE gone
    <3>1. Len(delivered'[j]) <= PassedOn(j)' BY <2>8, <1>3, <1>5, <1>9, <2>5 DEF EventsInOrder
    <3>2. \A i \in 1..Len(delivered'[j]) : delivered'[j][i] = i
      BY <2>8, <1>3, <1>9 DEF EventsInOrder
    <3> QED BY <1>2, <1>9, <2>1, <2>7, <2>8, <3>1, <3>2 DEF EventsInOrder
  <2>9. CASE ~gone
    <3>1. Len(delivered[j]) = PassedOn(j) BY <2>9, <1>9 DEF EventsInOrder
    <3>2. Len(delivered'[j]) = PassedOn(j)' BY <2>9, <1>3, <1>5, <2>5, <3>1
    <3>3. \A i \in 1..Len(delivered[j]) : delivered[j][i] = i BY <1>9 DEF EventsInOrder
    <3>4. \A i \in 1..Len(delivered'[j]) : delivered'[j][i] = i
      <4> SUFFICES ASSUME NEW i \in 1..(Len(delivered[j]) + 1)
                   PROVE  Append(delivered[j], Head(forward[j]))[i] = i
        BY <2>9, <1>3, <1>5
      <4>1. CASE i \in 1..Len(delivered[j]) BY <4>1, <1>5, <3>3
      <4>2. CASE i = Len(delivered[j]) + 1 BY <4>2, <1>5, <2>6, <3>1
      <4> QED BY <4>1, <4>2, <1>5
    <3>5. Len(delivered'[j]) <= PassedOn(j)' BY <1>5, <3>1, <3>2, <2>5
    <3> QED BY <1>2, <1>9, <2>1, <2>7, <3>2, <3>4, <3>5 DEF EventsInOrder
  <2> QED BY <2>8, <2>9
<1>10. ASSUME OneError(j) PROVE OneError(j)'
  <2>1. Len(body[j]) + HeldCount(j) + Len(forward[j]) + Len(delivered[j]) <= 1
    BY <1>10 DEF OneError
  <2>2. Len(body[j]) \in Nat /\ Len(forward[j]) \in Nat /\ Len(delivered[j]) \in Nat
    BY <1>4, <1>5, <1>6
  <2>3. Len(forward[j]) >= 1 =>
          /\ Len(body[j]) = 0 /\ HeldCount(j) = 0 /\ Len(forward[j]) = 1
          /\ Len(delivered[j]) = 0
    BY ONLY <1>7, <2>1, <2>2, AtMostOne
  <2>4. Len(body'[j]) = 0 /\ HeldCount(j)' = 0 /\ Len(forward'[j]) = 0
    BY <1>2, <1>4, <1>7, <2>3
  <2>5. Head(forward[j]) \in Errors BY <1>4, <1>10 DEF OneError
  <2>6. \/ Len(delivered'[j]) = 0
        \/ Len(delivered'[j]) = 1 /\ delivered'[j][1] = Head(forward[j])
    <3>1. Len(delivered[j]) = 0 BY <1>4, <2>3
    <3>2. CASE delivered'[j] = delivered[j] BY <3>1, <3>2
    <3>3. CASE delivered'[j] = Append(delivered[j], Head(forward[j]))
      <4>1. Len(delivered'[j]) = Len(delivered[j]) + 1 BY <3>3, <1>5
      <4>2. delivered'[j][Len(delivered[j]) + 1] = Head(forward[j]) BY <3>3, <1>5
      <4> QED BY <3>1, <4>1, <4>2
    <3> QED BY <1>3, <3>2, <3>3
  <2>7. Len(body'[j]) + HeldCount(j)' + Len(forward'[j]) + Len(delivered'[j]) <= 1
    <3>1. CASE Len(delivered'[j]) = 0 BY ONLY <2>4, <3>1
    <3>2. CASE Len(delivered'[j]) = 1 BY ONLY <2>4, <3>2
    <3> QED BY <2>6, <3>1, <3>2
  <2>8. \A i \in 1..Len(delivered'[j]) : delivered'[j][i] \in Errors BY <2>5, <2>6
  <2>9. agent'[j] # "run" /\ remote'[j] \notin {"none", "request"}
    BY <1>2, <1>10 DEF OneError
  <2>10. held'[j] # None => held'[j] \in Errors BY <1>2, <1>10 DEF OneError
  <2>11. (1..Len(body'[j])) = {} /\ (1..Len(forward'[j])) = {} BY <2>4
  <2> QED BY <2>7, <2>8, <2>9, <2>10, <2>11 DEF OneError
<1> QED BY <1>1, <1>2, <1>8, <1>9, <1>10 DEF StreamInOrder

\* A stream that has not reached its agent, and is about to.
LEMMA FreshLens ==
  ASSUME NEW j \in Stream, Fresh(j)
  PROVE  /\ Len(body[j]) = 0 /\ Len(forward[j]) = 0 /\ Len(delivered[j]) = 0
         /\ HeldCount(j) = 0 /\ Scanned(j) = 0 /\ PassedOn(j) = 0
<1>1. Len(<<>>) = 0 BY EmptySeq
<1>2. Len(body[j]) = 0 /\ Len(forward[j]) = 0 /\ Len(delivered[j]) = 0 BY <1>1 DEF Fresh
<1>3. sent[j] = 0 /\ HeldCount(j) = 0 BY DEF Fresh, HeldCount
<1>4. Scanned(j) = 0 BY ONLY <1>2, <1>3 DEF Scanned
<1>5. PassedOn(j) = 0 BY ONLY <1>2, <1>3, <1>4 DEF PassedOn
<1> QED BY <1>2, <1>3, <1>4, <1>5

LEMMA RequestInOrder ==
  ASSUME TaskTypeOK, NEW j \in Stream, StreamInOrder(j), Request(j) \/ RequestFails(j)
  PROVE  StreamInOrder(j)'
<1>1. Fresh(j) /\ remote[j] = "request" /\ pc # "dispatch"
  BY DEF Request, RequestFails, StreamInOrder
<1>2. /\ remote'[j] \in {"scan", "fail"} /\ forward'[j] = forward[j]
      /\ sent'[j] = sent[j] /\ delivered'[j] = delivered[j] /\ gone' = gone /\ pc' = pc
  BY DEF Request, RequestFails, TaskTypeOK, registryVars, dispatchVars, agentVars
<1>3. \/ held'[j] = held[j] /\ body'[j] = body[j]
      \/ held'[j] = held[j] /\ body'[j] = <<Refusal>> /\ agent'[j] = "done"
      \/ held'[j] = Failure /\ body'[j] = body[j] /\ agent'[j] = agent[j]
  BY DEF Request, RequestFails, ServePing, TaskTypeOK, agentVars
<1>4. /\ Len(body[j]) = 0 /\ Len(forward[j]) = 0 /\ Len(delivered[j]) = 0
      /\ HeldCount(j) = 0 /\ Scanned(j) = 0 /\ PassedOn(j) = 0
  BY <1>1, FreshLens
<1>5. held[j] = None /\ agent[j] = "none" /\ sent[j] = 0 BY <1>1 DEF Fresh
<1>6. Len(forward'[j]) = 0 /\ Len(delivered'[j]) = 0 BY <1>2, <1>4
<1>7. CASE held'[j] = held[j] /\ body'[j] = body[j]
  <2>1. Len(body'[j]) = 0 BY <1>7, <1>4
  <2>2. HeldCount(j)' = 0 BY <1>5, <1>7 DEF HeldCount
  <2>3. sent'[j] = 0 BY <1>2, <1>5
  <2>4. Scanned(j)' = 0 BY ONLY <2>1, <2>3 DEF Scanned
  <2>5. PassedOn(j)' = 0 BY ONLY <1>6, <2>2, <2>4 DEF PassedOn
  <2>6. EventsInOrder(j)' BY <1>5, <1>6, <1>7, <2>1, <2>4, <2>5 DEF EventsInOrder
  <2> QED BY <1>1, <1>2, <2>6 DEF StreamInOrder
<1>8. CASE held'[j] = held[j] /\ body'[j] = <<Refusal>> /\ agent'[j] = "done"
  <2>1. Len(body'[j]) = 1 /\ body'[j][1] = Refusal BY <1>8
  <2>2. HeldCount(j)' = 0 BY <1>5, <1>8 DEF HeldCount
  <2>3. Len(body'[j]) + HeldCount(j)' + Len(forward'[j]) + Len(delivered'[j]) <= 1
    BY ONLY <1>6, <2>1, <2>2
  <2>4. \A i \in 1..Len(body'[j]) : body'[j][i] \in Errors BY <2>1 DEF Errors
  <2>5. OneError(j)' BY <1>2, <1>5, <1>6, <1>8, <2>3, <2>4 DEF OneError
  <2> QED BY <1>1, <1>2, <2>5 DEF StreamInOrder
<1>9. CASE held'[j] = Failure /\ body'[j] = body[j] /\ agent'[j] = agent[j]
  <2>1. Len(body'[j]) = 0 BY <1>9, <1>4
  <2>2. HeldCount(j)' = 1 BY <1>9, PingTaskConstants DEF HeldCount
  <2>3. Len(body'[j]) + HeldCount(j)' + Len(forward'[j]) + Len(delivered'[j]) <= 1
    BY ONLY <1>6, <2>1, <2>2
  <2>4. OneError(j)' BY <1>2, <1>5, <1>6, <1>9, <2>1, <2>3 DEF OneError, Errors
  <2> QED BY <1>1, <1>2, <2>4 DEF StreamInOrder
<1> QED BY <1>3, <1>7, <1>8, <1>9

\* Neither goroutine holds an event when its state changes so.
LEMMA EndsInOrder ==
  ASSUME TaskTypeOK, NEW j \in Stream, StreamInOrder(j), RemoteEnds(j) \/ AgentEnds(j)
  PROVE  StreamInOrder(j)'
<1>1. /\ held'[j] = held[j] /\ forward'[j] = forward[j] /\ body'[j] = body[j]
      /\ sent'[j] = sent[j] /\ delivered'[j] = delivered[j] /\ gone' = gone /\ pc' = pc
      /\ agent'[j] = agent[j] \/ agent'[j] = "done"
      /\ remote'[j] = remote[j] \/ remote'[j] = "ended"
  BY DEF RemoteEnds, AgentEnds, TaskTypeOK, registryVars, dispatchVars, streamVars, agentVars
<1>2. remote[j] \notin {"none", "request"}
  BY DEF RemoteEnds, AgentEnds, StreamInOrder, Fresh
<1>3. EventsInOrder(j) => EventsInOrder(j)'
  BY <1>1 DEF EventsInOrder, Scanned, HeldCount, PassedOn
<1>4. OneError(j) => OneError(j)' BY <1>1 DEF OneError, HeldCount
<1> QED BY <1>1, <1>2, <1>3, <1>4 DEF StreamInOrder

LEMMA AgentWritesInOrder ==
  ASSUME TaskTypeOK, NEW j \in Stream, StreamInOrder(j), AgentWrites(j)
  PROVE  StreamInOrder(j)'
<1>1. /\ body[j] \in Seq(Item) /\ sent[j] \in Nat /\ agent[j] = "run"
      /\ sent[j] < total[j] /\ total[j] \in 0..MaxEvents
      /\ forward[j] \in Seq(Item) /\ delivered[j] \in Seq(Item)
  BY PingTaskConstants DEF AgentWrites, TaskTypeOK
<1>2. /\ sent'[j] = sent[j] + 1 /\ body'[j] = Append(body[j], sent[j] + 1)
      /\ held'[j] = held[j] /\ forward'[j] = forward[j] /\ agent'[j] = agent[j]
      /\ remote'[j] = remote[j] /\ delivered'[j] = delivered[j] /\ gone' = gone /\ pc' = pc
  BY DEF AgentWrites, TaskTypeOK, registryVars, dispatchVars, streamVars
<1>3. sent[j] + 1 \in Item
  <2>1. sent[j] + 1 \in 1..MaxEvents BY <1>1, PingTaskConstants
  <2> QED BY <2>1 DEF Item
<1>4. /\ Len(body[j]) \in Nat /\ Len(Append(body[j], sent[j] + 1)) = Len(body[j]) + 1
      /\ \A i \in 1..Len(body[j]) : Append(body[j], sent[j] + 1)[i] = body[j][i]
      /\ Append(body[j], sent[j] + 1)[Len(body[j]) + 1] = sent[j] + 1
  BY <1>1, <1>3, AppendFacts
<1>5. remote[j] \notin {"none", "request"} BY <1>1 DEF StreamInOrder, Fresh
<1>6. EventsInOrder(j) BY <1>1 DEF StreamInOrder, OneError
<1>7. EventsInOrder(j)'
  <2>1. Len(body'[j]) = Len(body[j]) + 1 BY <1>2, <1>4
  <2>2. Scanned(j) = sent[j] - Len(body[j]) /\ Scanned(j)' = sent'[j] - Len(body'[j])
    BY DEF Scanned
  <2>3. Scanned(j)' = Scanned(j) /\ Scanned(j) \in Int BY <1>1, <1>2, <1>4, <2>1, <2>2
  <2>4. PassedOn(j)' = PassedOn(j) BY <1>2, <2>3 DEF PassedOn, HeldCount
  <2>5. \A i \in 1..Len(body'[j]) : body'[j][i] = Scanned(j)' + i
    <3> SUFFICES ASSUME NEW i \in 1..(Len(body[j]) + 1)
                 PROVE  Append(body[j], sent[j] + 1)[i] = Scanned(j) + i
      BY <1>2, <1>4, <2>3
    <3>1. CASE i \in 1..Len(body[j]) BY <3>1, <1>4, <1>6 DEF EventsInOrder
    <3>2. CASE i = Len(body[j]) + 1 BY <3>2, <1>1, <1>4, <2>2, <2>3
    <3> QED BY <3>1, <3>2, <1>4
  <2> QED BY <1>2, <1>6, <2>3, <2>4, <2>5 DEF EventsInOrder
<1> QED BY <1>2, <1>5, <1>7 DEF StreamInOrder

LEMMA OrderStep == TaskTypeOK /\ OrderInv /\ [Next]_vars => OrderInv'
<1> SUFFICES ASSUME TaskTypeOK, OrderInv, [Next]_vars, NEW k \in Stream
             PROVE  StreamInOrder(k)'
  BY DEF OrderInv
<1> StreamInOrder(k) BY DEF OrderInv
<1> DEFINE Same ==
      /\ remote'[k] = remote[k] /\ held'[k] = held[k] /\ forward'[k] = forward[k]
      /\ agent'[k] = agent[k] /\ sent'[k] = sent[k] /\ body'[k] = body[k]
      /\ delivered'[k] = delivered[k]
      /\ gone => gone'
      /\ pc' = "dispatch" => pc = "dispatch"
<1>0. Same => StreamInOrder(k)' BY StreamKept
<1> USE DEF TaskTypeOK, registryVars, dispatchVars, streamVars, agentVars
<1>1. CASE Lookup \/ Build
  <2>1. Same BY <1>1 DEF Lookup, Build
  <2> QED BY <1>0, <2>1
<1>2. CASE Start
  <2>1. Fresh(k) BY <1>2 DEF Start, StreamInOrder
  <2>2. /\ pc' # "dispatch" /\ gone' = gone
        /\ held'[k] = held[k] /\ forward'[k] = forward[k] /\ agent'[k] = agent[k]
        /\ sent'[k] = sent[k] /\ body'[k] = body[k] /\ delivered'[k] = delivered[k]
        /\ remote'[k] \in {"none", "request"}
    BY <1>2 DEF Start
  <2>3. Fresh(k)' BY <2>1, <2>2 DEF Fresh
  <2>4. ~OneError(k) BY <1>2 DEF Start, StreamInOrder, OneError
  <2>5. EventsInOrder(k) BY <2>4 DEF StreamInOrder
  <2>6. EventsInOrder(k)'
    BY <2>2, <2>5 DEF EventsInOrder, Scanned, HeldCount, PassedOn
  <2> QED BY <2>2, <2>3, <2>6 DEF StreamInOrder
<1>3. CASE HandlerEnds
  <2>1. Same BY <1>3 DEF HandlerEnds
  <2> QED BY <1>0, <2>1
<1>4. ASSUME NEW j \in Stream, Encode(j) \/ EncodeFails(j) PROVE StreamInOrder(k)'
  <2>1. CASE j = k BY <1>4, <2>1, EncodeInOrder
  <2>2. CASE j # k
    <3>1. Same BY <1>4, <2>2 DEF Encode, EncodeFails
    <3> QED BY <1>0, <3>1
  <2> QED BY <2>1, <2>2
<1>5. ASSUME NEW j \in Stream, Request(j) \/ RequestFails(j) PROVE StreamInOrder(k)'
  <2>1. CASE j = k BY <1>5, <2>1, RequestInOrder
  <2>2. CASE j # k
    <3>1. Same BY <1>5, <2>2 DEF Request, RequestFails, ServePing
    <3> QED BY <1>0, <3>1
  <2> QED BY <2>1, <2>2
<1>6. ASSUME NEW j \in Stream, Scan(j) PROVE StreamInOrder(k)'
  <2>1. CASE j = k BY <1>6, <2>1, ScanInOrder
  <2>2. CASE j # k
    <3>1. Same BY <1>6, <2>2 DEF Scan
    <3> QED BY <1>0, <3>1
  <2> QED BY <2>1, <2>2
<1>7. ASSUME NEW j \in Stream, RemoteEnds(j) \/ AgentEnds(j) PROVE StreamInOrder(k)'
  <2>1. CASE j = k BY <1>7, <2>1, EndsInOrder
  <2>2. CASE j # k
    <3>1. Same BY <1>7, <2>2 DEF RemoteEnds, AgentEnds
    <3> QED BY <1>0, <3>1
  <2> QED BY <2>1, <2>2
<1>8. ASSUME NEW j \in Stream, Forward(j) PROVE StreamInOrder(k)'
  <2>1. CASE j = k BY <1>8, <2>1, ForwardInOrder
  <2>2. CASE j # k
    <3>1. Same BY <1>8, <2>2 DEF Forward
    <3> QED BY <1>0, <3>1
  <2> QED BY <2>1, <2>2
<1>9. ASSUME NEW j \in Stream, ForwardEnds(j) PROVE StreamInOrder(k)'
  <2>1. Same BY <1>9 DEF ForwardEnds
  <2> QED BY <1>0, <2>1
<1>10. ASSUME NEW j \in Stream, AgentWrites(j) PROVE StreamInOrder(k)'
  <2>1. CASE j = k BY <1>10, <2>1, AgentWritesInOrder
  <2>2. CASE j # k
    <3>1. Same BY <1>10, <2>2 DEF AgentWrites
    <3> QED BY <1>0, <3>1
  <2> QED BY <2>1, <2>2
<1>11. CASE Environment
  <2>1. CASE ClientLeaves
    <3>1. Same BY <2>1 DEF ClientLeaves
    <3> QED BY <1>0, <3>1
  <2>2. ASSUME NEW n, Break(n) \/ Deregister(n) PROVE StreamInOrder(k)'
    <3>1. Same BY <2>2 DEF Break, Deregister
    <3> QED BY <1>0, <3>1
  <2>3. ASSUME NEW j \in Stream, BreakResponse(j) PROVE StreamInOrder(k)'
    <3>1. Same BY <2>3 DEF BreakResponse
    <3> QED BY <1>0, <3>1
  <2> QED BY <1>11, <2>1, <2>2, <2>3 DEF Environment
<1>12. CASE UNCHANGED vars
  <2>1. Same BY <1>12 DEF vars
  <2> QED BY <1>0, <2>1
<1> QED
  BY <1>1, <1>2, <1>3, <1>4, <1>5, <1>6, <1>7, <1>8, <1>9, <1>10, <1>11, <1>12
  DEF Next, Handler, Remote, Forwarder, Agent

LEMMA OrderImplies == TaskTypeOK /\ OrderInv => DeliveredInOrder
<1> SUFFICES ASSUME TaskTypeOK, OrderInv, NEW j \in Stream
             PROVE  \/ delivered[j] \in {<<Refusal>>, <<Failure>>}
                    \/ /\ Len(delivered[j]) <= sent[j]
                       /\ delivered[j] = UpTo(Len(delivered[j]))
  BY DEF DeliveredInOrder
<1>1. /\ delivered[j] \in Seq(Item) /\ body[j] \in Seq(Item) /\ forward[j] \in Seq(Item)
      /\ sent[j] \in Nat
  BY PingTaskConstants DEF TaskTypeOK
<1>2. /\ Len(delivered[j]) \in Nat /\ Len(body[j]) \in Nat /\ Len(forward[j]) \in Nat
      /\ delivered[j] \in [1..Len(delivered[j]) -> Item]
  BY <1>1, LenProperties
<1>3. HeldCount(j) \in Nat BY DEF HeldCount
<1>4. CASE EventsInOrder(j)
  <2>1. /\ Len(delivered[j]) <= PassedOn(j)
        /\ \A i \in 1..Len(delivered[j]) : delivered[j][i] = i
    BY <1>4 DEF EventsInOrder
  <2>2. PassedOn(j) = sent[j] - Len(body[j]) - HeldCount(j) - Len(forward[j])
    BY DEF PassedOn, Scanned
  <2>3. \A s, d, b, h, f \in Nat : d <= s - b - h - f => d <= s OBVIOUS
  <2>4. Len(delivered[j]) <= sent[j] BY ONLY <1>1, <1>2, <1>3, <2>1, <2>2, <2>3
  <2>5. delivered[j] = UpTo(Len(delivered[j])) BY <1>2, <2>1 DEF UpTo
  <2> QED BY <2>4, <2>5
<1>5. CASE OneError(j)
  <2>1. Len(body[j]) + HeldCount(j) + Len(forward[j]) + Len(delivered[j]) <= 1
    BY <1>5 DEF OneError
  <2>2. \A b, h, f, d \in Nat : b + h + f + d <= 1 => d = 0 \/ d = 1 OBVIOUS
  <2>3. Len(delivered[j]) = 0 \/ Len(delivered[j]) = 1
    BY ONLY <1>2, <1>3, <2>1, <2>2
  <2>4. CASE Len(delivered[j]) = 0
    <3>1. delivered[j] = UpTo(Len(delivered[j])) BY <1>2, <2>4 DEF UpTo
    <3> QED BY <1>1, <2>4, <3>1
  <2>5. CASE Len(delivered[j]) = 1
    <3>1. delivered[j][1] \in Errors BY <1>5, <2>5 DEF OneError
    <3>2. delivered[j] = <<delivered[j][1]>> BY <1>1, <1>2, <2>5
    <3> QED BY <3>1, <3>2 DEF Errors
  <2> QED BY <2>3, <2>4, <2>5
<1> QED BY <1>4, <1>5 DEF OrderInv, StreamInOrder

\* The client sees of each stream a beginning of what the agent's pinger
\* produced, in order, or one error: through three goroutines and a response
\* that may break anywhere, whatever the number of nodes, targets and events.
THEOREM DeliveredOrderCorrect == Spec => []DeliveredInOrder
<1>1. Init => TaskTypeOK /\ OrderInv BY TaskTypeInit, OrderInit
<1>2. TaskTypeOK /\ OrderInv /\ [Next]_vars => (TaskTypeOK /\ OrderInv)'
  BY TaskTypeStep, OrderStep
<1> QED BY <1>1, <1>2, OrderImplies, PTL DEF Spec

-----------------------------------------------------------------------------
(* CompleteAtEnd and EveryPairAnswered.  While the client is there no event *)
(* disappears: those the agent has sent, or the one error of a stream that *)
(* never got a pinger, are in one of the four places.  A stream ends only  *)
(* when its places are empty, unless its response broke off, and the       *)
(* handler only when all streams have.                                     *)

\* The error of a stream whose request failed or was refused.
ErrorCount(j) == IF remote[j] \in {"none", "request"} \/ total[j] # 0 THEN 0 ELSE 1

InBody(j) == Len(body[j])
InForward(j) == Len(forward[j])
Written(j) == Len(delivered[j])
InFlight(j) == InBody(j) + HeldCount(j) + InForward(j)

Conserved(j) == ~gone => InFlight(j) + Written(j) = sent[j] + ErrorCount(j)

CutShort(j) == gone \/ broken[j]

\* How far the agent and the goroutines of a stream have come.
Stages(j) ==
  /\ sent[j] <= total[j]
  /\ agent[j] = "none" => total[j] = 0 /\ body[j] = <<>>
  /\ remote[j] \in {"none", "request", "fail"} => agent[j] = "none"
  /\ remote[j] = "scan" => agent[j] # "none"
  /\ remote[j] # "none" => pingers[j] # "none"
  /\ agent[j] = "done" => sent[j] = total[j] \/ CutShort(j)
  /\ remote[j] = "ended" =>
       held[j] = None /\ (CutShort(j) \/ (agent[j] # "run" /\ body[j] = <<>>))
  /\ ended[j] => remote[j] = "ended" /\ forward[j] = <<>>

DoneAfterStreams == pc = "done" /\ ~gone => \A j \in Dispatched : ended[j]

EndInv == DoneAfterStreams /\ \A j \in Stream : Conserved(j) /\ Stages(j)

\* A node of the request has been looked up, and is answered for.
Covered(i) ==
  \A t \in form.targets :
    \/ form.from[i] \in absent
    \/ <<form.from[i], t>> \in refused
    \/ \E j \in Dispatched : j[2] = form.from[i] /\ t \in j[3]

CoverInv ==
  /\ \A i \in 1..Len(form.from) : i < next => Covered(i)
  /\ pc # "dispatch" => next > Len(form.from)

LEMMA CountsTyped ==
  ASSUME TaskTypeOK, NEW j \in Stream
  PROVE  /\ body[j] \in Seq(Item) /\ forward[j] \in Seq(Item) /\ delivered[j] \in Seq(Item)
         /\ InBody(j) \in Nat /\ InForward(j) \in Nat /\ Written(j) \in Nat
         /\ HeldCount(j) \in Nat /\ sent[j] \in Nat /\ total[j] \in Nat
         /\ held[j] \in Item \cup {None}
         /\ ErrorCount(j) \in Nat
<1>1. body[j] \in Seq(Item) /\ forward[j] \in Seq(Item) /\ delivered[j] \in Seq(Item)
  BY DEF TaskTypeOK
<1>2. sent[j] \in 0..MaxEvents /\ total[j] \in 0..MaxEvents /\ MaxEvents \in Nat
  BY PingTaskConstants DEF TaskTypeOK
<1>3. sent[j] \in Nat /\ total[j] \in Nat BY <1>2
<1>4. HeldCount(j) \in Nat /\ ErrorCount(j) \in Nat BY DEF HeldCount, ErrorCount
<1> QED BY <1>1, <1>3, <1>4, LenProperties DEF TaskTypeOK, InBody, InForward, Written

LEMMA EndInit == Init => EndInv
<1> SUFFICES ASSUME Init PROVE EndInv
  OBVIOUS
<1>1. Len(<<>>) = 0 BY EmptySeq
<1>2. ASSUME NEW j \in Stream PROVE Conserved(j) /\ Stages(j)
  <2>1. /\ body[j] = <<>> /\ forward[j] = <<>> /\ delivered[j] = <<>> /\ held[j] = None
        /\ sent[j] = 0 /\ total[j] = 0 /\ remote[j] = "none" /\ agent[j] = "none"
        /\ ended[j] = FALSE
    BY DEF Init
  <2>2. HeldCount(j) = 0 /\ ErrorCount(j) = 0 BY <2>1 DEF HeldCount, ErrorCount
  <2>3. Conserved(j) BY <1>1, <2>1, <2>2 DEF Conserved, InFlight, InBody, InForward, Written
  <2>4. Stages(j) BY <2>1 DEF Stages
  <2> QED BY <2>3, <2>4
<1>3. pc # "done" BY DEF Init
<1> QED BY <1>2, <1>3 DEF EndInv, DoneAfterStreams

\* What the end of a stream depends on stays as it is.
LEMMA EndKept ==
  ASSUME NEW k \in Stream, Conserved(k), Stages(k),
         remote'[k] = remote[k], held'[k] = held[k], forward'[k] = forward[k],
         ended'[k] = ended[k], agent'[k] = agent[k], total'[k] = total[k],
         sent'[k] = sent[k], body'[k] = body[k], delivered'[k] = delivered[k],
         broken[k] => broken'[k], gone => gone',
         pingers[k] # "none" => pingers'[k] # "none"
  PROVE  Conserved(k)' /\ Stages(k)'
<1>1. HeldCount(k)' = HeldCount(k) /\ ErrorCount(k)' = ErrorCount(k)
  BY DEF HeldCount, ErrorCount
<1>2. Conserved(k)' BY <1>1 DEF Conserved, InFlight, InBody, InForward, Written
<1>3. CutShort(k) => CutShort(k)' BY DEF CutShort
<1>4. Stages(k)' BY <1>3 DEF Stages
<1> QED BY <1>2, <1>4

\* A line is taken from the response: by the remote pinger, a forwarder, the client.
LEMMA MoveKept ==
  ASSUME TaskTypeOK, NEW j \in Stream, Conserved(j), Stages(j),
         Scan(j) \/ Forward(j) \/ Encode(j) \/ EncodeFails(j)
  PROVE  Conserved(j)' /\ Stages(j)'
<1>1. /\ remote'[j] = remote[j] /\ ended'[j] = ended[j] /\ agent'[j] = agent[j]
      /\ total'[j] = total[j] /\ sent'[j] = sent[j] /\ broken'[j] = broken[j]
      /\ gone' = gone /\ pingers'[j] = pingers[j]
  BY DEF Scan, Forward, Encode, EncodeFails, registryVars, dispatchVars, agentVars
<1>2. ErrorCount(j)' = ErrorCount(j) BY <1>1 DEF ErrorCount
<1>3. CutShort(j)' = CutShort(j) BY <1>1 DEF CutShort
<1>4. /\ InBody(j) \in Nat /\ InForward(j) \in Nat /\ Written(j) \in Nat
      /\ HeldCount(j) \in Nat
  BY CountsTyped
<1>5. CASE Scan(j)
  <2>1. /\ body[j] \in Seq(Item) /\ body[j] # <<>> /\ held[j] = None /\ remote[j] = "scan"
    BY <1>5, CountsTyped DEF Scan
  <2>2. Len(Tail(body[j])) = Len(body[j]) - 1 /\ Head(body[j]) \in Item BY <2>1, SeqFacts
  <2>3. /\ held'[j] = Head(body[j]) /\ body'[j] = Tail(body[j])
        /\ forward'[j] = forward[j] /\ delivered'[j] = delivered[j]
    BY <1>5 DEF Scan, TaskTypeOK
  <2>4. HeldCount(j) = 0 /\ HeldCount(j)' = 1
    BY <2>1, <2>2, <2>3, NoneIsNoItem DEF HeldCount
  <2>5. /\ InBody(j)' = InBody(j) - 1 /\ InForward(j)' = InForward(j)
        /\ Written(j)' = Written(j)
    BY <2>2, <2>3 DEF InBody, InForward, Written
  <2>6. InFlight(j)' = InFlight(j) BY <1>4, <2>4, <2>5 DEF InFlight
  <2>7. Conserved(j)' BY <1>1, <1>2, <2>5, <2>6 DEF Conserved
  <2>8. Stages(j)' BY <1>1, <1>3, <2>1, <2>3 DEF Stages
  <2> QED BY <2>7, <2>8
<1>6. CASE Forward(j)
  <2>1. forward[j] \in Seq(Item) /\ held[j] # None /\ held[j] \in Item
    BY <1>6, CountsTyped DEF Forward
  <2>2. /\ held'[j] = None /\ forward'[j] = Append(forward[j], held[j])
        /\ body'[j] = body[j] /\ delivered'[j] = delivered[j]
    BY <1>6 DEF Forward, TaskTypeOK, agentVars
  <2>3. Len(forward'[j]) = Len(forward[j]) + 1 BY <2>1, <2>2, AppendFacts
  <2>4. HeldCount(j) = 1 /\ HeldCount(j)' = 0 BY <2>1, <2>2 DEF HeldCount
  <2>5. /\ InBody(j)' = InBody(j) /\ InForward(j)' = InForward(j) + 1
        /\ Written(j)' = Written(j)
    BY <2>2, <2>3 DEF InBody, InForward, Written
  <2>6. InFlight(j)' = InFlight(j) BY <1>4, <2>4, <2>5 DEF InFlight
  <2>7. Conserved(j)' BY <1>1, <1>2, <2>5, <2>6 DEF Conserved
  <2>8. ~ended[j] /\ remote[j] # "ended" BY <2>1 DEF Stages
  <2>9. Stages(j)' BY <1>1, <1>3, <2>2, <2>8 DEF Stages
  <2> QED BY <2>7, <2>9
<1>7. CASE Encode(j) \/ EncodeFails(j)
  <2>1. forward[j] \in Seq(Item) /\ forward[j] # <<>> /\ delivered[j] \in Seq(Item)
    BY <1>7, CountsTyped DEF Encode, EncodeFails
  <2>2. Len(Tail(forward[j])) = Len(forward[j]) - 1 /\ Head(forward[j]) \in Item
    BY <2>1, SeqFacts
  <2>3. /\ forward'[j] = Tail(forward[j]) /\ held'[j] = held[j] /\ body'[j] = body[j]
        /\ gone \/ delivered'[j] = Append(delivered[j], Head(forward[j]))
    BY <1>7 DEF Encode, EncodeFails, TaskTypeOK, agentVars
  <2>4. HeldCount(j)' = HeldCount(j) BY <2>3 DEF HeldCount
  <2>5. InBody(j)' = InBody(j) /\ InForward(j)' = InForward(j) - 1
    BY <2>2, <2>3 DEF InBody, InForward
  <2>6. ASSUME ~gone PROVE InFlight(j)' + Written(j)' = InFlight(j) + Written(j)
    <3>1. Written(j)' = Written(j) + 1
      BY <2>1, <2>2, <2>3, <2>6, AppendFacts DEF Written
    <3> QED BY <1>4, <2>4, <2>5, <3>1 DEF InFlight
  <2>7. Conserved(j)' BY <1>1, <1>2, <2>6 DEF Conserved
  <2>8. ~ended[j] BY <2>1 DEF Stages
  <2>9. Stages(j)' BY <1>1, <1>3, <2>3, <2>8 DEF Stages
  <2> QED BY <2>7, <2>9
<1> QED BY <1>5, <1>6, <1>7

\* The request is served, refused, or fails.
LEMMA RequestKept ==
  ASSUME TaskTypeOK, NEW j \in Stream, StreamInOrder(j), Conserved(j), Stages(j),
         Request(j) \/ RequestFails(j)
  PROVE  Conserved(j)' /\ Stages(j)'
<1>1. Fresh(j) /\ remote[j] = "request" /\ ~ended[j] /\ total[j] = 0 /\ pingers[j] # "none"
  BY DEF Request, RequestFails, StreamInOrder, Stages, Fresh
<1>2. /\ remote'[j] \in {"scan", "fail"} /\ forward'[j] = forward[j] /\ ended'[j] = ended[j]
      /\ sent'[j] = sent[j] /\ delivered'[j] = delivered[j] /\ pingers'[j] = pingers[j]
  BY DEF Request, RequestFails, TaskTypeOK, registryVars, dispatchVars, agentVars
<1>3. \/ /\ held'[j] = None /\ body'[j] = <<>> /\ agent'[j] = "run" /\ total'[j] \in Nat \ {0}
         /\ remote'[j] = "scan"
      \/ /\ held'[j] = None /\ body'[j] = <<Refusal>> /\ agent'[j] = "done" /\ total'[j] = 0
         /\ remote'[j] = "scan"
      \/ /\ held'[j] = Failure /\ body'[j] = <<>> /\ agent'[j] = "none" /\ total'[j] = 0
         /\ remote'[j] = "fail"
  <2>1. held[j] = None /\ body[j] = <<>> /\ agent[j] = "none" BY <1>1 DEF Fresh
  <2>2. CASE Request(j)
    <3>1. ServePing(j) /\ held'[j] = None /\ remote'[j] = "scan"
      BY <2>1, <2>2 DEF Request, TaskTypeOK
    <3>2. \A k \in 1..form.count : k \in Nat \ {0} OBVIOUS
    <3>3. CASE /\ total' \in {[total EXCEPT ![j] = k] : k \in 1..form.count}
               /\ agent' = [agent EXCEPT ![j] = "run"]
               /\ UNCHANGED body
      <4>1. total'[j] \in Nat \ {0} BY <3>2, <3>3 DEF TaskTypeOK
      <4> QED BY <2>1, <3>1, <3>3, <4>1 DEF TaskTypeOK
    <3>4. CASE /\ body' = [body EXCEPT ![j] = <<Refusal>>]
               /\ agent' = [agent EXCEPT ![j] = "done"]
               /\ UNCHANGED total
      BY <1>1, <3>1, <3>4 DEF TaskTypeOK
    <3> QED BY <3>1, <3>3, <3>4 DEF ServePing
  <2>3. CASE RequestFails(j)
    BY <1>1, <2>1, <2>3 DEF RequestFails, TaskTypeOK, agentVars
  <2> QED BY <2>2, <2>3
<1>4. /\ Len(<<>>) = 0 /\ Len(<<Refusal>>) = 1 BY EmptySeq
<1>5. /\ forward'[j] = <<>> /\ delivered'[j] = <<>> /\ sent'[j] = 0 /\ ~ended'[j]
  BY <1>1, <1>2 DEF Fresh
<1>6. InFlight(j)' = ErrorCount(j)'
  <2>1. CASE body'[j] = <<>> /\ held'[j] = None /\ remote'[j] = "scan" /\ total'[j] \in Nat \ {0}
    BY <1>4, <1>5, <2>1 DEF InFlight, InBody, InForward, ErrorCount, HeldCount
  <2>2. CASE body'[j] = <<Refusal>> /\ held'[j] = None /\ remote'[j] = "scan" /\ total'[j] = 0
    BY <1>4, <1>5, <2>2 DEF InFlight, InBody, InForward, ErrorCount, HeldCount
  <2>3. CASE body'[j] = <<>> /\ held'[j] = Failure /\ remote'[j] = "fail" /\ total'[j] = 0
    <3>1. Failure # None BY PingTaskConstants
    <3> QED BY <1>4, <1>5, <2>3, <3>1 DEF InFlight, InBody, InForward, ErrorCount, HeldCount
  <2> QED BY <1>3, <2>1, <2>2, <2>3
<1>7. ErrorCount(j)' \in Nat BY DEF ErrorCount
<1>8. Conserved(j)' BY <1>4, <1>5, <1>6, <1>7 DEF Conserved, Written
<1>9. Stages(j)' BY <1>1, <1>2, <1>3, <1>5 DEF Stages
<1> QED BY <1>8, <1>9

\* The goroutines and the agent of a stream end.
LEMMA EndsKept ==
  ASSUME TaskTypeOK, DoneAfterStreams, NEW j \in Stream, Conserved(j), Stages(j),
         RemoteEnds(j) \/ AgentEnds(j) \/ ForwardEnds(j)
  PROVE  Conserved(j)' /\ Stages(j)'
<1>1. /\ held'[j] = held[j] /\ forward'[j] = forward[j] /\ body'[j] = body[j]
      /\ total'[j] = total[j] /\ sent'[j] = sent[j] /\ delivered'[j] = delivered[j]
      /\ broken'[j] = broken[j] /\ gone' = gone /\ pingers'[j] = pingers[j]
  BY DEF RemoteEnds, AgentEnds, ForwardEnds, registryVars, dispatchVars, streamVars, agentVars
<1>2. CutShort(j)' = CutShort(j) BY <1>1 DEF CutShort
<1>3. HeldCount(j)' = HeldCount(j) BY <1>1 DEF HeldCount
<1>4. ASSUME pc = "done", ~gone, pingers[j] # "none"
      PROVE  remote[j] = "ended"
  BY <1>4 DEF DoneAfterStreams, Dispatched, Stages
<1>5. CASE RemoteEnds(j)
  <2>1. /\ remote'[j] = "ended" /\ agent'[j] = agent[j] /\ ended'[j] = ended[j]
        /\ held[j] = None /\ remote[j] \in {"scan", "fail"}
    BY <1>5 DEF RemoteEnds, TaskTypeOK, agentVars
  <2>2. ErrorCount(j)' = ErrorCount(j) BY <1>1, <2>1 DEF ErrorCount
  <2>3. Conserved(j)' BY <1>1, <1>3, <2>2 DEF Conserved, InFlight, InBody, InForward, Written
  <2>4. CutShort(j) \/ (agent[j] # "run" /\ body[j] = <<>>)
    <3>1. CASE remote[j] = "fail" BY <3>1 DEF Stages
    <3>2. CASE remote[j] = "scan"
      <4>1. broken[j] \/ CtxDone \/ (agent[j] = "done" /\ body[j] = <<>>)
        BY <1>5, <3>2 DEF RemoteEnds
      <4>2. CtxDone => gone BY <1>4, <3>2 DEF CtxDone, Stages
      <4> QED BY <4>1, <4>2 DEF CutShort
    <3> QED BY <2>1, <3>1, <3>2
  <2>5. Stages(j)' BY <1>1, <1>2, <2>1, <2>4 DEF Stages
  <2> QED BY <2>3, <2>5
<1>6. CASE AgentEnds(j)
  <2>1. /\ remote'[j] = remote[j] /\ agent'[j] = "done" /\ ended'[j] = ended[j]
        /\ agent[j] = "run"
    BY <1>6 DEF AgentEnds, TaskTypeOK, streamVars
  <2>2. ErrorCount(j)' = ErrorCount(j) BY <1>1, <2>1 DEF ErrorCount
  <2>3. Conserved(j)' BY <1>1, <1>3, <2>2 DEF Conserved, InFlight, InBody, InForward, Written
  <2>4. sent[j] = total[j] \/ CutShort(j)
    <3>1. sent[j] = total[j] \/ Cancelled(j) BY <1>6 DEF AgentEnds
    <3>2. pingers[j] # "none" BY <2>1 DEF Stages, TaskTypeOK
    <3>3. CASE CtxDone \/ remote[j] = "ended"
      <4>1. gone \/ remote[j] = "ended" BY <1>4, <3>2, <3>3 DEF CtxDone
      <4> QED BY <2>1, <4>1 DEF Stages, CutShort
    <3> QED BY <3>1, <3>3 DEF Cancelled, CutShort
  <2>5. Stages(j)' BY <1>1, <1>2, <2>1, <2>4 DEF Stages
  <2> QED BY <2>3, <2>5
<1>7. CASE ForwardEnds(j)
  <2>1. /\ remote'[j] = remote[j] /\ agent'[j] = agent[j]
        /\ remote[j] = "ended" /\ forward[j] = <<>>
    BY <1>7 DEF ForwardEnds, agentVars
  <2>2. ErrorCount(j)' = ErrorCount(j) BY <1>1, <2>1 DEF ErrorCount
  <2>3. Conserved(j)' BY <1>1, <1>3, <2>2 DEF Conserved, InFlight, InBody, InForward, Written
  <2>4. Stages(j)' BY <1>1, <1>2, <2>1 DEF Stages
  <2> QED BY <2>3, <2>4
<1> QED BY <1>5, <1>6, <1>7

LEMMA AgentWritesKept ==
  ASSUME TaskTypeOK, NEW j \in Stream, Conserved(j), Stages(j), AgentWrites(j)
  PROVE  Conserved(j)' /\ Stages(j)'
<1>1. /\ body[j] \in Seq(Item) /\ sent[j] \in Nat /\ total[j] \in Nat
      /\ agent[j] = "run" /\ sent[j] < total[j] /\ total[j] \in 0..MaxEvents
      /\ InBody(j) \in Nat /\ InForward(j) \in Nat /\ Written(j) \in Nat
      /\ HeldCount(j) \in Nat /\ ErrorCount(j) \in Nat
  BY CountsTyped DEF AgentWrites, TaskTypeOK
<1>2. /\ sent'[j] = sent[j] + 1 /\ body'[j] = Append(body[j], sent[j] + 1)
      /\ held'[j] = held[j] /\ forward'[j] = forward[j] /\ agent'[j] = agent[j]
      /\ remote'[j] = remote[j] /\ delivered'[j] = delivered[j] /\ gone' = gone
      /\ total'[j] = total[j] /\ ended'[j] = ended[j] /\ broken'[j] = broken[j]
      /\ pingers'[j] = pingers[j]
  BY DEF AgentWrites, TaskTypeOK, registryVars, dispatchVars, streamVars
<1>3. sent[j] + 1 \in Item
  <2>1. sent[j] + 1 \in 1..MaxEvents BY <1>1, PingTaskConstants
  <2> QED BY <2>1 DEF Item
<1>4. Len(body'[j]) = Len(body[j]) + 1 BY <1>1, <1>2, <1>3, AppendFacts
<1>5. HeldCount(j)' = HeldCount(j) /\ ErrorCount(j)' = ErrorCount(j) /\ CutShort(j)' = CutShort(j)
  BY <1>2 DEF HeldCount, ErrorCount, CutShort
<1>6. InBody(j)' = InBody(j) + 1 /\ InForward(j)' = InForward(j) /\ Written(j)' = Written(j)
  BY <1>2, <1>4 DEF InBody, InForward, Written
<1>7. Conserved(j)'
  <2> SUFFICES ASSUME ~gone PROVE InFlight(j)' + Written(j)' = sent'[j] + ErrorCount(j)'
    BY <1>2 DEF Conserved
  <2>1. InFlight(j) + Written(j) = sent[j] + ErrorCount(j) BY DEF Conserved
  <2>2. /\ InBody(j) \in Nat /\ InForward(j) \in Nat /\ Written(j) \in Nat
        /\ HeldCount(j) \in Nat /\ sent[j] \in Nat /\ ErrorCount(j) \in Nat
    BY <1>1
  <2>3. InFlight(j)' = (InBody(j) + 1) + HeldCount(j) + InForward(j)
    BY <1>5, <1>6 DEF InFlight
  <2>4. InFlight(j) = InBody(j) + HeldCount(j) + InForward(j) BY DEF InFlight
  <2>5. InFlight(j)' = InFlight(j) + 1 /\ InFlight(j) \in Nat
    BY ONLY <2>2, <2>3, <2>4
  <2>6. Written(j)' = Written(j) /\ ErrorCount(j)' = ErrorCount(j) /\ sent'[j] = sent[j] + 1
    BY <1>2, <1>5, <1>6
  <2>7. (InFlight(j) + 1) + Written(j) = (sent[j] + 1) + ErrorCount(j)
    BY ONLY <2>1, <2>2, <2>5
  <2> QED BY ONLY <2>5, <2>6, <2>7
<1>8. sent'[j] <= total'[j] BY <1>1, <1>2
<1>9. Stages(j)' BY <1>1, <1>2, <1>5, <1>8 DEF Stages
<1> QED BY <1>7, <1>9

\* All pingers are made before the first is started.
LEMMA StartKept ==
  ASSUME TaskTypeOK, NEW k \in Stream, StreamInOrder(k), Conserved(k), Stages(k), Start
  PROVE  Conserved(k)' /\ Stages(k)'
<1>1. remote[k] = "none" /\ Fresh(k) BY DEF Start, StreamInOrder
<1>2. /\ remote'[k] \in {"none", "request"}
      /\ remote'[k] # "none" => pingers[k] # "none"
      /\ held'[k] = held[k] /\ forward'[k] = forward[k] /\ ended'[k] = ended[k]
      /\ agent'[k] = agent[k] /\ total'[k] = total[k] /\ sent'[k] = sent[k]
      /\ body'[k] = body[k] /\ delivered'[k] = delivered[k] /\ broken'[k] = broken[k]
      /\ gone' = gone /\ pingers'[k] = pingers[k]
  BY DEF Start, Dispatched, dispatchVars, agentVars
<1>3. ErrorCount(k) = 0 /\ ErrorCount(k)' = 0 BY <1>1, <1>2 DEF ErrorCount
<1>4. HeldCount(k)' = HeldCount(k) BY <1>2 DEF HeldCount
<1>5. Conserved(k)'
  BY <1>2, <1>3, <1>4 DEF Conserved, InFlight, InBody, InForward, Written
<1>6. Stages(k)' BY <1>1, <1>2 DEF Stages, Fresh
<1> QED BY <1>5, <1>6

LEMMA DoneStep == TaskTypeOK /\ EndInv /\ [Next]_vars => DoneAfterStreams'
<1> SUFFICES ASSUME TaskTypeOK, EndInv, [Next]_vars, pc' = "done", ~gone'
             PROVE  \A j \in Dispatched' : ended'[j]
  BY DEF DoneAfterStreams
<1> DEFINE Same == /\ pc = "done" /\ ~gone /\ pingers' = pingers
                   /\ \A j \in Stream : ended[j] => ended'[j]
<1>0. Same => \A j \in Dispatched' : ended'[j]
  BY DEF EndInv, DoneAfterStreams, Dispatched
<1> USE DEF TaskTypeOK, registryVars, dispatchVars, streamVars, agentVars
<1>1. CASE Lookup \/ Build BY <1>1 DEF Lookup, Build
<1>2. CASE Start
  <2>1. Dispatched = {} /\ pingers' = pingers BY <1>2 DEF Start
  <2> QED BY <2>1 DEF Dispatched
<1>3. CASE HandlerEnds BY <1>3 DEF HandlerEnds, Dispatched
<1>4. ASSUME NEW j \in Stream, Encode(j) \/ EncodeFails(j) PROVE FALSE
  BY <1>4 DEF Encode, EncodeFails
<1>5. ASSUME NEW j \in Stream, Request(j) \/ RequestFails(j) \/ Scan(j) \/ RemoteEnds(j)
      PROVE  Same
  BY <1>5 DEF Request, RequestFails, Scan, RemoteEnds
<1>6. ASSUME NEW j \in Stream, Forward(j) \/ ForwardEnds(j) PROVE Same
  BY <1>6 DEF Forward, ForwardEnds
<1>7. ASSUME NEW j \in Stream, AgentWrites(j) \/ AgentEnds(j) PROVE Same
  BY <1>7 DEF AgentWrites, AgentEnds
<1>8. CASE Environment
  <2>1. ASSUME NEW n, Break(n) \/ Deregister(n) PROVE pc' = pc
    BY <2>1 DEF Break, Deregister
  <2>2. ASSUME NEW j, BreakResponse(j) PROVE pc' = pc BY <2>2 DEF BreakResponse
  <2>3. ClientLeaves => pc' = pc BY DEF ClientLeaves
  <2> QED BY <1>8, <2>1, <2>2, <2>3 DEF Environment
<1>9. CASE UNCHANGED vars
  <2>1. Same BY <1>9 DEF vars
  <2> QED BY <1>0, <2>1
<1> QED
  BY <1>0, <1>1, <1>2, <1>3, <1>4, <1>5, <1>6, <1>7, <1>8, <1>9
  DEF Next, Handler, Remote, Forwarder, Agent

LEMMA EndStep == TaskTypeOK /\ OrderInv /\ EndInv /\ [Next]_vars => EndInv'
<1> SUFFICES ASSUME TaskTypeOK, OrderInv, EndInv, [Next]_vars, NEW k \in Stream
             PROVE  Conserved(k)' /\ Stages(k)'
  BY DoneStep DEF EndInv
<1> StreamInOrder(k) /\ Conserved(k) /\ Stages(k) /\ DoneAfterStreams BY DEF OrderInv, EndInv
<1> DEFINE Kept == Conserved(k)' /\ Stages(k)'
           Same ==
             /\ remote'[k] = remote[k] /\ held'[k] = held[k] /\ forward'[k] = forward[k]
             /\ ended'[k] = ended[k] /\ agent'[k] = agent[k] /\ total'[k] = total[k]
             /\ sent'[k] = sent[k] /\ body'[k] = body[k] /\ delivered'[k] = delivered[k]
             /\ broken[k] => broken'[k]
             /\ gone => gone'
             /\ pingers[k] # "none" => pingers'[k] # "none"
<1>0. Same => Kept BY EndKept
<1> USE DEF TaskTypeOK, registryVars, dispatchVars, streamVars, agentVars
<1>1. CASE Lookup \/ Build
  <2>1. pingers[k] # "none" => pingers'[k] # "none" BY <1>1 DEF Lookup, Build, Transports
  <2>2. Same BY <1>1, <2>1 DEF Lookup, Build
  <2> QED BY <1>0, <2>2
<1>2. CASE Start BY <1>2, StartKept
<1>3. CASE HandlerEnds
  <2>1. Same BY <1>3 DEF HandlerEnds
  <2> QED BY <1>0, <2>1
<1>4. ASSUME NEW j \in Stream, Scan(j) \/ Forward(j) \/ Encode(j) \/ EncodeFails(j) PROVE Kept
  <2>1. CASE j = k BY <1>4, <2>1, MoveKept
  <2>2. j # k => Same BY <1>4 DEF Scan, Forward, Encode, EncodeFails
  <2> QED BY <1>0, <2>1, <2>2
<1>5. ASSUME NEW j \in Stream, Request(j) \/ RequestFails(j) PROVE Kept
  <2>1. CASE j = k BY <1>5, <2>1, RequestKept
  <2>2. j # k => Same BY <1>5 DEF Request, RequestFails, ServePing
  <2> QED BY <1>0, <2>1, <2>2
<1>6. ASSUME NEW j \in Stream, RemoteEnds(j) \/ AgentEnds(j) \/ ForwardEnds(j) PROVE Kept
  <2>1. CASE j = k BY <1>6, <2>1, EndsKept
  <2>2. j # k => Same BY <1>6 DEF RemoteEnds, AgentEnds, ForwardEnds
  <2> QED BY <1>0, <2>1, <2>2
<1>7. ASSUME NEW j \in Stream, AgentWrites(j) PROVE Kept
  <2>1. CASE j = k BY <1>7, <2>1, AgentWritesKept
  <2>2. j # k => Same BY <1>7 DEF AgentWrites
  <2> QED BY <1>0, <2>1, <2>2
<1>8. CASE Environment
  <2>1. ClientLeaves => Same BY DEF ClientLeaves
  <2>2. ASSUME NEW n, Break(n) \/ Deregister(n) PROVE Same
    BY <2>2 DEF Break, Deregister
  <2>3. ASSUME NEW j \in Stream, BreakResponse(j) PROVE Same
    BY <2>3 DEF BreakResponse
  <2> QED BY <1>0, <1>8, <2>1, <2>2, <2>3 DEF Environment
<1>9. CASE UNCHANGED vars
  <2>1. Same BY <1>9 DEF vars
  <2> QED BY <1>0, <2>1
<1> QED
  BY <1>1, <1>2, <1>3, <1>4, <1>5, <1>6, <1>7, <1>8, <1>9
  DEF Next, Handler, Remote, Forwarder, Agent

\* What a stream that has ended without being cut short has delivered.
LEMMA EndedStream ==
  ASSUME TaskTypeOK, OrderInv, EndInv, pc = "done", ~gone, NEW j \in Dispatched
  PROVE  /\ remote[j] = "ended" /\ ended[j]
         /\ \/ broken[j]
            \/ Written(j) >= 1 /\ delivered[j] \in {<<Refusal>>, <<Failure>>}
            \/ Written(j) >= 1 /\ agent[j] = "done" /\ delivered[j] = UpTo(total[j])
<1>1. j \in Stream /\ Conserved(j) /\ Stages(j) /\ ended[j]
  BY DEF Dispatched, EndInv, DoneAfterStreams
<1>2. remote[j] = "ended" /\ forward[j] = <<>> /\ held[j] = None BY <1>1 DEF Stages
<1>3. /\ InBody(j) \in Nat /\ Written(j) \in Nat /\ sent[j] \in Nat /\ total[j] \in Nat
      /\ delivered[j] \in Seq(Item)
  BY <1>1, CountsTyped
<1>4. SUFFICES ASSUME ~broken[j]
               PROVE  \/ Written(j) >= 1 /\ delivered[j] \in {<<Refusal>>, <<Failure>>}
                      \/ Written(j) >= 1 /\ agent[j] = "done" /\ delivered[j] = UpTo(total[j])
  BY <1>1, <1>2
<1>5. agent[j] # "run" /\ body[j] = <<>> BY <1>1, <1>2, <1>4 DEF Stages, CutShort
<1>6. Written(j) = sent[j] + ErrorCount(j)
  <2>1. InBody(j) = 0 /\ InForward(j) = 0 /\ HeldCount(j) = 0
    BY <1>2, <1>5, EmptySeq DEF InBody, InForward, HeldCount
  <2>2. InFlight(j) = 0 BY <2>1 DEF InFlight
  <2>3. ErrorCount(j) \in Nat BY <1>1, CountsTyped
  <2>4. InFlight(j) + Written(j) = sent[j] + ErrorCount(j) BY <1>1 DEF Conserved
  <2> QED BY <1>3, <2>2, <2>3, <2>4
<1>7. \/ delivered[j] \in {<<Refusal>>, <<Failure>>}
      \/ Written(j) <= sent[j] /\ delivered[j] = UpTo(Written(j))
  BY <1>1, OrderImplies DEF DeliveredInOrder, Written
<1>8. CASE total[j] = 0
  <2>1. ErrorCount(j) = 1 /\ sent[j] = 0
    BY <1>1, <1>2, <1>3, <1>8 DEF ErrorCount, Stages
  <2>2. Written(j) = 1 BY <1>6, <2>1
  <2> QED BY <1>7, <2>1, <2>2
<1>9. CASE total[j] # 0
  <2>1. ErrorCount(j) = 0 BY <1>9 DEF ErrorCount
  <2>2. agent[j] = "done" BY <1>1, <1>5, <1>9 DEF Stages, TaskTypeOK
  <2>3. sent[j] = total[j] BY <1>1, <1>4, <2>2 DEF Stages, CutShort
  <2>4. Written(j) = total[j] BY <1>3, <1>6, <2>1, <2>3
  <2> QED BY <1>3, <1>7, <1>9, <2>2, <2>4
<1> QED BY <1>8, <1>9

\* A response that the client has waited for holds every event of every
\* stream whose connection held, and every goroutine of the hub has returned.
THEOREM TaskCompleteAtEnd == Spec => []CompleteAtEnd
<1>1. Init => TaskTypeOK /\ OrderInv /\ EndInv BY TaskTypeInit, OrderInit, EndInit
<1>2. TaskTypeOK /\ OrderInv /\ EndInv /\ [Next]_vars => (TaskTypeOK /\ OrderInv /\ EndInv)'
  BY TaskTypeStep, OrderStep, EndStep
<1>3. TaskTypeOK /\ OrderInv /\ EndInv => CompleteAtEnd
  BY EndedStream DEF CompleteAtEnd
<1> QED BY <1>1, <1>2, <1>3, PTL DEF Spec

LEMMA CoverInit == Init => CoverInv
  BY FormFacts DEF Init, CoverInv

\* What has been answered for stays answered for.
LEMMA CoveredKept ==
  ASSUME NEW i, Covered(i), form' = form, absent \subseteq absent', refused \subseteq refused',
         \A j \in Stream : pingers[j] # "none" => pingers'[j] # "none"
  PROVE  Covered(i)'
  BY DEF Covered, Dispatched

\* The streams made for a node are among those of the request.
LEMMA NewStreamsOfRequest ==
  ASSUME form \in Forms, NEW i \in 1..Len(form.from), next = i,
         NEW ok \in SUBSET form.targets, NEW t \in form.targets,
         t \in ok \/ form.mode = "http"
  PROVE  \E j \in NewStreams(form.from[i], ok) :
           j \in Stream /\ j[2] = form.from[i] /\ t \in j[3]
<1>1. i \in DOMAIN form.from BY FormFacts
<1>2. CASE form.mode = "http"
  <2>1. <<i, form.from[i], form.targets>> \in HTTPStreams(form) BY <1>1 DEF HTTPStreams
  <2>2. <<i, form.from[i], form.targets>> \in Stream BY <1>2, <2>1 DEF Stream
  <2> QED BY <1>2, <2>2 DEF NewStreams
<1>3. CASE form.mode # "http"
  <2>1. <<0, form.from[i], {t}>> \in PingStreams(form) BY <1>1 DEF PingStreams
  <2>2. <<0, form.from[i], {t}>> \in Stream BY <1>3, <2>1 DEF Stream
  <2> QED BY <1>3, <2>2 DEF NewStreams
<1> QED BY <1>2, <1>3

LEMMA BuildCovers ==
  ASSUME TaskTypeOK, Build, NEW i, i = next
  PROVE  Covered(i)'
<1>1. i \in 1..Len(form.from) /\ form' = form
  BY FormFacts DEF Build, TaskTypeOK
<1> SUFFICES ASSUME NEW t \in form.targets
             PROVE  \/ <<form.from[i], t>> \in refused'
                    \/ \E j \in Dispatched' : j[2] = form.from[i] /\ t \in j[3]
  BY <1>1 DEF Covered
<1>2. CASE refused' = refused \cup ({form.from[i]} \X form.targets)
  BY <1>2
<1>3. ASSUME NEW ok \in PolicyOutcomes, NEW via \in Transports,
             pingers' = [j \in Stream |-> IF j \in NewStreams(form.from[i], ok)
                                           THEN via ELSE pingers[j]],
             refused' = refused \cup ({form.from[i]} \X (form.targets \ ok))
      PROVE  \/ <<form.from[i], t>> \in refused'
             \/ \E j \in Dispatched' : j[2] = form.from[i] /\ t \in j[3]
  <2>1. CASE t \in ok
    <3>1. PICK j \in NewStreams(form.from[i], ok) :
            j \in Stream /\ j[2] = form.from[i] /\ t \in j[3]
      BY <1>1, <2>1, NewStreamsOfRequest DEF TaskTypeOK, PolicyOutcomes
    <3>2. pingers'[j] # "none" BY <1>3, <3>1 DEF Transports
    <3> QED BY <3>1, <3>2 DEF Dispatched
  <2>2. CASE t \notin ok BY <1>3, <2>2
  <2> QED BY <2>1, <2>2
<1> QED BY <1>2, <1>3 DEF Build

LEMMA CoverStep == TaskTypeOK /\ CoverInv /\ [Next]_vars => CoverInv'
<1> SUFFICES ASSUME TaskTypeOK, CoverInv, [Next]_vars PROVE CoverInv'
  OBVIOUS
<1>0. form \in Forms /\ Len(form.from) \in Nat /\ next \in Nat
  BY FormFacts DEF TaskTypeOK
<1> DEFINE Same == /\ form' = form /\ next' = next
                   /\ absent' = absent /\ refused' = refused /\ pingers' = pingers
                   /\ pc' # "dispatch" => pc # "dispatch"
<1>1. ASSUME Same PROVE CoverInv'
  <2>1. ASSUME NEW i \in 1..Len(form.from), i < next PROVE Covered(i)'
    BY <1>1, <2>1, CoveredKept DEF CoverInv
  <2> QED BY <1>1, <2>1 DEF CoverInv
<1> USE DEF registryVars, dispatchVars, streamVars, agentVars
<1>2. CASE Lookup
  <2>1. form' = form /\ pc' = pc /\ pc = "dispatch" /\ refused' = refused /\ pingers' = pingers
    BY <1>2 DEF Lookup
  <2>2. CASE form.from[next] \in entries
    <3>1. Same BY <1>2, <2>1, <2>2 DEF Lookup
    <3> QED BY <1>1, <3>1
  <2>3. CASE form.from[next] \notin entries
    <3>1. absent' = absent \cup {form.from[next]} /\ next' = next + 1
      BY <1>2, <2>3 DEF Lookup
    <3>2. ASSUME NEW i \in 1..Len(form.from), i < next' PROVE Covered(i)'
      <4>1. CASE i < next BY <2>1, <3>1, <4>1, CoveredKept DEF CoverInv
      <4>2. CASE i = next BY <2>1, <3>1, <4>2 DEF Covered
      <4> QED BY <1>0, <3>1, <3>2, <4>1, <4>2
    <3> QED BY <2>1, <3>2 DEF CoverInv
  <2> QED BY <2>2, <2>3
<1>3. CASE Build
  <2>1. /\ form' = form /\ pc' = pc /\ pc = "dispatch" /\ absent' = absent
        /\ next' = next + 1 /\ refused \subseteq refused'
        /\ \A j \in Stream : pingers[j] # "none" => pingers'[j] # "none"
    BY <1>3 DEF Build, Transports, TaskTypeOK
  <2>2. ASSUME NEW i \in 1..Len(form.from), i < next' PROVE Covered(i)'
    <3>1. CASE i < next BY <2>1, <3>1, CoveredKept DEF CoverInv
    <3>2. CASE i = next BY <1>3, <3>2, BuildCovers
    <3> QED BY <1>0, <2>1, <2>2, <3>1, <3>2
  <2> QED BY <2>1, <2>2 DEF CoverInv
<1>4. CASE Start
  <2>1. /\ form' = form /\ next' = next /\ absent' = absent /\ refused' = refused
        /\ pingers' = pingers /\ next > Len(form.from)
    BY <1>4 DEF Start
  <2>2. ASSUME NEW i \in 1..Len(form.from), i < next PROVE Covered(i)'
    BY <2>1, <2>2, CoveredKept DEF CoverInv
  <2> QED BY <2>1, <2>2 DEF CoverInv
<1>5. CASE HandlerEnds
  <2>1. Same BY <1>5 DEF HandlerEnds
  <2> QED BY <1>1, <2>1
<1>6. ASSUME NEW j \in Stream, Encode(j) \/ EncodeFails(j) PROVE Same
  BY <1>6 DEF Encode, EncodeFails
<1>7. ASSUME NEW j \in Stream, Remote(j) PROVE Same
  BY <1>7 DEF Remote, Request, RequestFails, Scan, RemoteEnds
<1>8. ASSUME NEW j \in Stream, Forwarder(j) \/ Agent(j) PROVE Same
  BY <1>8 DEF Forwarder, Agent, Forward, ForwardEnds, AgentWrites, AgentEnds
<1>9. CASE Environment
  <2>1. ClientLeaves => Same BY DEF ClientLeaves
  <2>2. ASSUME NEW n, Break(n) \/ Deregister(n) PROVE Same
    BY <2>2 DEF Break, Deregister
  <2>3. ASSUME NEW j \in Stream, BreakResponse(j) PROVE Same
    BY <2>3 DEF BreakResponse
  <2> QED BY <1>1, <1>9, <2>1, <2>2, <2>3 DEF Environment
<1>10. CASE UNCHANGED vars
  <2>1. Same BY <1>10 DEF vars
  <2> QED BY <1>1, <2>1
<1> QED
  BY <1>1, <1>2, <1>3, <1>4, <1>5, <1>6, <1>7, <1>8, <1>9, <1>10 DEF Next, Handler

LEMMA CoverImplies ==
  TaskTypeOK /\ OrderInv /\ EndInv /\ CoverInv => EveryPairAnswered
<1> SUFFICES ASSUME TaskTypeOK, OrderInv, EndInv, CoverInv, pc = "done", ~gone,
                    NEW pair \in Requested
             PROVE  \/ pair[1] \in absent
                    \/ pair \in refused
                    \/ \E j \in Dispatched : /\ j[2] = pair[1]
                                             /\ pair[2] \in j[3]
                                             /\ delivered[j] # <<>> \/ broken[j]
  BY DEF EveryPairAnswered
<1>1. PICK i \in DOMAIN form.from, t \in form.targets : pair = <<form.from[i], t>>
  BY DEF Requested
<1>2. i \in 1..Len(form.from) /\ i < next
  BY FormFacts DEF CoverInv, TaskTypeOK
<1>3. Covered(i) BY <1>2 DEF CoverInv
<1>4. ASSUME NEW j \in Dispatched PROVE delivered[j] # <<>> \/ broken[j]
  <2>1. Written(j) >= 1 \/ broken[j] BY EndedStream
  <2>2. Written(j) >= 1 => delivered[j] # <<>>
    <3>1. Len(<<>>) = 0 BY EmptySeq
    <3> QED BY <3>1 DEF Written
  <2> QED BY <2>1, <2>2
<1> QED BY <1>1, <1>3, <1>4 DEF Covered

\* Nothing that was asked for is passed over in silence: every node and target
\* has an event or an error in the response, but for the nodes the registry did
\* not have, whatever the order of the nodes and whichever streams they share.
THEOREM TaskEveryPairAnswered == Spec => []EveryPairAnswered
<1>1. Init => TaskTypeOK /\ OrderInv /\ EndInv /\ CoverInv
  BY TaskTypeInit, OrderInit, EndInit, CoverInit
<1>2. /\ TaskTypeOK /\ OrderInv /\ EndInv /\ CoverInv /\ [Next]_vars
      => (TaskTypeOK /\ OrderInv /\ EndInv /\ CoverInv)'
  BY TaskTypeStep, OrderStep, EndStep, CoverStep
<1> QED BY <1>1, <1>2, CoverImplies, PTL DEF Spec
=============================================================================
