------------------------- MODULE ICMPTrackerProofs -------------------------
(***************************************************************************)
(* TLAPS proofs about the packet tracker, for any set of sequence numbers, *)
(* any number of replies and any channel capacity.                         *)
(***************************************************************************)
EXTENDS ICMPTracker, FiniteSetTheorems, TLAPS

USE DEF Absent

LEMMA TrackerTypeInit == TrackerInit => TrackerTypeOK
<1> SUFFICES ASSUME TrackerInit PROVE TrackerTypeOK
  OBVIOUS
<1>1. recvEvC \in Seq(Event) /\ Len(recvEvC) <= BufCap
  BY TrackerConstants DEF TrackerInit
<1> QED BY <1>1 DEF TrackerInit, TrackerTypeOK

LEMMA TrackerTypeStep ==
  TrackerTypeOK /\ [TrackerNext]_trackerVars => TrackerTypeOK'
<1> SUFFICES ASSUME TrackerTypeOK, [TrackerNext]_trackerVars
             PROVE  TrackerTypeOK'
  OBVIOUS
<1> USE TrackerConstants DEF TrackerTypeOK
<1>1. CASE OwnerExit BY <1>1 DEF OwnerExit
<1>2. CASE CloseCloseCh BY <1>2 DEF CloseCloseCh
<1>3. ASSUME NEW s \in Seqs, HandleTimeout(s) PROVE TrackerTypeOK'
  BY <1>3 DEF HandleTimeout
<1>4. ASSUME NEW s \in Seqs, EmitTimeout(s) PROVE TrackerTypeOK'
  <2>1. TimeoutEvent(s) \in Event BY DEF TimeoutEvent, Event
  <2>2. recvEvC' \in Seq(Event) /\ Len(recvEvC') = Len(recvEvC) + 1
    BY <1>4, <2>1 DEF EmitTimeout
  <2>3. Len(recvEvC') <= BufCap BY <1>4, <2>2 DEF EmitTimeout
  <2> QED BY <1>4, <2>2, <2>3 DEF EmitTimeout
<1>5. ASSUME NEW s \in Seqs, HandleTimeoutLate(s) PROVE TrackerTypeOK'
  BY <1>5 DEF HandleTimeoutLate
<1>6. ASSUME NEW s \in Seqs, CleanupEntry(s) PROVE TrackerTypeOK'
  BY <1>6 DEF CleanupEntry
<1>7. ASSUME NEW s \in Seqs, StartWaiter(s) PROVE TrackerTypeOK'
  BY <1>7 DEF StartWaiter
<1>8. ASSUME NEW s \in Seqs, TimerFires(s) PROVE TrackerTypeOK'
  BY <1>8 DEF TimerFires
<1>9. ASSUME NEW e \in Event, SendEvent(e) PROVE TrackerTypeOK'
  <2>1. CASE recvEvC' = Append(recvEvC, e) /\ Len(recvEvC) < BufCap
    <3>1. recvEvC' \in Seq(Event) /\ Len(recvEvC') = Len(recvEvC) + 1
      BY <2>1
    <3>2. Len(recvEvC') <= BufCap BY <2>1, <3>1
    <3> QED BY <1>9, <3>1, <3>2 DEF SendEvent
  <2>2. CASE recvEvC' = recvEvC BY <1>9, <2>2 DEF SendEvent
  <2> QED BY <1>9, <2>1, <2>2 DEF SendEvent
<1>10. CASE ForgetAll BY <1>10 DEF ForgetAll
<1>11. CASE CancelCtx BY <1>11 DEF CancelCtx
<1>12. ASSUME NEW s \in Seqs, MarkSent(s) PROVE TrackerTypeOK'
  BY <1>12 DEF MarkSent
<1>13. ASSUME NEW s \in Seqs, MarkReceived(s) PROVE TrackerTypeOK'
  BY <1>13 DEF MarkReceived, Event
<1>14. ASSUME NEW e \in Event, Receive(e) PROVE TrackerTypeOK'
  <2>1. recvEvC' \in Seq(Event) /\ Len(recvEvC') <= Len(recvEvC)
    <3>1. CASE recvEvC # <<>> /\ recvEvC' = Tail(recvEvC) BY <3>1
    <3>2. CASE recvEvC' = recvEvC BY <3>2
    <3> QED BY <1>14, <3>1, <3>2 DEF Receive
  <2>2. Len(recvEvC') <= BufCap BY <2>1
  <2>3. store' \in [Seqs -> (0..MaxReplies) \cup {Absent}]
    BY <1>14 DEF Receive
  <2>4. senders' \subseteq Event /\ emitting' \subseteq Seqs
    BY <1>14 DEF Receive
  <2>5. delivered' \in [Event -> Nat] BY <1>14 DEF Receive
  <2> QED BY <1>14, <2>1, <2>2, <2>3, <2>4, <2>5 DEF Receive
<1>15. CASE UNCHANGED trackerVars BY <1>15 DEF trackerVars
<1> QED
  BY <1>1, <1>2, <1>3, <1>4, <1>5, <1>6, <1>7, <1>8, <1>9, <1>10, <1>11,
     <1>12, <1>13, <1>14, <1>15 DEF TrackerNext, TrackerStep

\* The tracker never leaves its types; RecvEvC never exceeds its capacity.
THEOREM TrackerTypeCorrect == TrackerSpec => []TrackerTypeOK
BY TrackerTypeInit, TrackerTypeStep, PTL DEF TrackerSpec

-----------------------------------------------------------------------------
(* Sequences as channels: what is in a buffer after a send and a receive.  *)

LEMMA AppendElements ==
  ASSUME NEW S, NEW q \in Seq(S), NEW e \in S, NEW x
  PROVE  (\E i \in 1..Len(Append(q, e)) : Append(q, e)[i] = x)
           <=> (\E i \in 1..Len(q) : q[i] = x) \/ x = e
<1>1. Len(Append(q, e)) = Len(q) + 1 /\ Append(q, e)[Len(q) + 1] = e
  OBVIOUS
<1>2. \A i \in 1..Len(q) : Append(q, e)[i] = q[i]
  OBVIOUS
<1>3. Len(q) \in Nat
  OBVIOUS
<1>4. ASSUME NEW i \in 1..(Len(q) + 1), Append(q, e)[i] = x
      PROVE  (\E j \in 1..Len(q) : q[j] = x) \/ x = e
  <2>1. CASE i = Len(q) + 1 BY <2>1, <1>1, <1>4
  <2>2. CASE i \in 1..Len(q) BY <2>2, <1>2, <1>4
  <2> QED BY <1>3, <2>1, <2>2
<1>5. ASSUME NEW j \in 1..Len(q), q[j] = x
      PROVE  \E i \in 1..(Len(q) + 1) : Append(q, e)[i] = x
  BY <1>2, <1>3, <1>5
<1>6. x = e => \E i \in 1..(Len(q) + 1) : Append(q, e)[i] = x
  BY <1>1, <1>3
<1> QED BY <1>1, <1>4, <1>5, <1>6

LEMMA TailElements ==
  ASSUME NEW S, NEW q \in Seq(S), q # <<>>, NEW x
  PROVE  (\E i \in 1..Len(q) : q[i] = x)
           <=> x = Head(q) \/ (\E i \in 1..Len(Tail(q)) : Tail(q)[i] = x)
<1>1. Len(q) \in Nat /\ Len(q) > 0 /\ Len(Tail(q)) = Len(q) - 1 /\ Head(q) = q[1]
  OBVIOUS
<1>2. \A i \in 1..(Len(q) - 1) : Tail(q)[i] = q[i + 1]
  OBVIOUS
<1>3. ASSUME NEW i \in 1..Len(q), q[i] = x
      PROVE  x = Head(q) \/ (\E j \in 1..Len(Tail(q)) : Tail(q)[j] = x)
  <2>1. CASE i = 1 BY <2>1, <1>1, <1>3
  <2>2. CASE i # 1
    <3>1. i - 1 \in 1..(Len(q) - 1) BY <2>2, <1>1
    <3>2. Tail(q)[i - 1] = x BY <3>1, <1>2, <1>3
    <3> QED BY <3>1, <3>2, <1>1
  <2> QED BY <2>1, <2>2
<1>4. ASSUME NEW j \in 1..Len(Tail(q)), Tail(q)[j] = x
      PROVE  \E i \in 1..Len(q) : q[i] = x
  <2>1. j + 1 \in 1..Len(q) /\ q[j + 1] = x BY <1>1, <1>2, <1>4
  <2> QED BY <2>1
<1>5. x = Head(q) => \E i \in 1..Len(q) : q[i] = x
  BY <1>1
<1> QED BY <1>3, <1>4, <1>5

-----------------------------------------------------------------------------
(* How the steps change the set of generated events.                       *)

SameGenerated == \A e \in Event : Generated(e)' <=> Generated(e)

AddsEvent(new) ==
  \A e \in Event : Generated(e)' <=> Generated(e) \/ e = new

OneEmitting == \A a, b \in emitting : a = b

LEMMA UntouchedChannel ==
  ASSUME UNCHANGED <<senders, emitting, recvEvC, delivered>>
  PROVE  SameGenerated
BY DEF SameGenerated, Generated, InFlight, Buffered

LEMMA EmitTimeoutKeepsEvents ==
  ASSUME TrackerTypeOK, OneEmitting, NEW s \in Seqs, EmitTimeout(s)
  PROVE  SameGenerated
<1> SUFFICES ASSUME NEW e \in Event PROVE Generated(e)' <=> Generated(e)
  BY DEF SameGenerated
<1>1. TimeoutEvent(s) \in Event
  BY TrackerConstants DEF TimeoutEvent, Event
<1>2. Buffered(e)' <=> Buffered(e) \/ e = TimeoutEvent(s)
  <2>1. recvEvC \in Seq(Event) /\ recvEvC' = Append(recvEvC, TimeoutEvent(s))
    BY DEF TrackerTypeOK, EmitTimeout
  <2> QED BY <1>1, <2>1, AppendElements DEF Buffered
<1>3. emitting = {s} /\ emitting' = {}
  BY DEF OneEmitting, EmitTimeout
<1>4. senders' = senders /\ delivered' = delivered
  BY DEF EmitTimeout
<1> QED BY <1>2, <1>3, <1>4 DEF Generated, InFlight

LEMMA SendEventKeepsEvents ==
  ASSUME TrackerTypeOK, NEW new \in Event, SendEvent(new)
  PROVE  SameGenerated
<1> SUFFICES ASSUME NEW e \in Event PROVE Generated(e)' <=> Generated(e)
  BY DEF SameGenerated
<1>1. emitting' = emitting /\ delivered' = delivered /\ new \in senders
  BY DEF SendEvent
<1>2. CASE alive
  <2>1. recvEvC' = Append(recvEvC, new) /\ senders' = senders \ {new}
    BY <1>2 DEF SendEvent
  <2>0. recvEvC \in Seq(Event) BY DEF TrackerTypeOK
  <2>2. Buffered(e)' <=> Buffered(e) \/ e = new
    BY <2>0, <2>1, AppendElements DEF Buffered
  <2> QED BY <1>1, <2>1, <2>2 DEF Generated, InFlight
<1>3. CASE ~alive
  <2>1. recvEvC' = recvEvC /\ senders' = senders BY <1>3 DEF SendEvent
  <2> QED BY <1>1, <2>1 DEF Generated, InFlight, Buffered
<1> QED BY <1>2, <1>3

LEMMA ReceiveKeepsEvents ==
  ASSUME TrackerTypeOK, OneEmitting, NEW got \in Event, Receive(got)
  PROVE  SameGenerated
<1> SUFFICES ASSUME NEW e \in Event PROVE Generated(e)' <=> Generated(e)
  BY DEF SameGenerated
<1>1. (delivered'[e] > 0) <=> (delivered[e] > 0 \/ e = got)
  <2>1. delivered \in [Event -> Nat]
        /\ delivered' = [delivered EXCEPT ![got] = @ + 1]
    BY DEF TrackerTypeOK, Receive
  <2>2. delivered'[e] = IF e = got THEN delivered[e] + 1 ELSE delivered[e]
    BY <2>1
  <2> QED BY <2>1, <2>2
<1>2. CASE /\ recvEvC # <<>> /\ got = Head(recvEvC)
           /\ recvEvC' = Tail(recvEvC)
           /\ UNCHANGED <<senders, emitting>>
  <2>0. recvEvC \in Seq(Event) BY DEF TrackerTypeOK
  <2>1. Buffered(e) <=> e = got \/ Buffered(e)'
    BY <1>2, <2>0, TailElements DEF Buffered
  <2> QED BY <1>1, <1>2, <2>1 DEF Generated, InFlight
<1>3. CASE /\ got \in senders /\ senders' = senders \ {got}
           /\ UNCHANGED <<recvEvC, emitting>>
  BY <1>1, <1>3 DEF Generated, InFlight, Buffered
<1>4. CASE /\ \E s \in emitting : got = TimeoutEvent(s)
           /\ emitting' = {}
           /\ UNCHANGED <<recvEvC, senders>>
  <2>1. PICK s \in emitting : got = TimeoutEvent(s) BY <1>4
  <2>2. (\E u \in emitting : e = TimeoutEvent(u)) <=> e = got
    BY <2>1 DEF OneEmitting
  <2> QED BY <1>1, <1>4, <2>2 DEF Generated, InFlight, Buffered
<1> QED BY <1>2, <1>3, <1>4 DEF Receive

LEMMA MarkReceivedAdds ==
  ASSUME TrackerTypeOK, NEW s \in Seqs, MarkReceived(s)
  PROVE  AddsEvent(<<s, store[s] + 1>>)
BY DEF MarkReceived, AddsEvent, Generated, InFlight, Buffered

LEMMA HandleTimeoutAdds ==
  ASSUME TrackerTypeOK, NEW s \in Seqs, HandleTimeout(s), emitting' = {s}
  PROVE  AddsEvent(TimeoutEvent(s))
BY DEF HandleTimeout, AtSelect, AddsEvent, Generated, InFlight, Buffered

-----------------------------------------------------------------------------
(* The inductive invariant: what the store, the goroutines and the events  *)
(* of one packet have to do with each other.                               *)

PacketInv(s) ==
  /\ Generated(TimeoutEvent(s)) =>
       /\ waiter[s] = "done"
       /\ store[s] = Absent \/ s \in emitting
       /\ \A k \in 1..MaxReplies : ~Generated(<<s, k>>)
  /\ s \in emitting => store[s] = 0 /\ waiter[s] = "done"
  /\ waiter[s] = "none" => store[s] = Absent /\ s \notin Judged
  /\ waiter[s] # "none" =>
       ((s \in UnAckedSeqs \ emitting) <=> (s \notin Judged))
  /\ cleanups[s] > 0 => store[s] # 0 /\ s \in Judged

VerdictInv == TrackerTypeOK /\ OneEmitting /\ \A s \in Seqs : PacketInv(s)

LEMMA JudgedSame == SameGenerated => Judged' = Judged
BY TrackerConstants DEF SameGenerated, Judged, Event

LEMMA JudgedAdds ==
  ASSUME NEW s \in Seqs, NEW k \in 0..MaxReplies, AddsEvent(<<s, k>>)
  PROVE  Judged' = Judged \cup {s}
<1>1. \A u \in Seqs, j \in 0..MaxReplies :
        Generated(<<u, j>>)' <=> Generated(<<u, j>>) \/ (u = s /\ j = k)
  BY DEF AddsEvent, Event
<1> QED BY <1>1 DEF Judged

EventsOfSame(s) ==
  \A k \in 0..MaxReplies : Generated(<<s, k>>)' <=> Generated(<<s, k>>)

LEMMA SameGeneratedPerPacket ==
  ASSUME SameGenerated, NEW s \in Seqs
  PROVE  EventsOfSame(s)
BY DEF SameGenerated, EventsOfSame, Event

LEMMA AddsEventPerPacket ==
  ASSUME NEW s \in Seqs, NEW k \in 0..MaxReplies, AddsEvent(<<s, k>>),
         NEW u \in Seqs, u # s
  PROVE  EventsOfSame(u)
BY DEF AddsEvent, EventsOfSame, Event

LEMMA EventsOfSameJudged ==
  ASSUME NEW s \in Seqs, EventsOfSame(s)
  PROVE  /\ s \in Judged' <=> s \in Judged
         /\ Generated(TimeoutEvent(s))' <=> Generated(TimeoutEvent(s))
         /\ (\A k \in 1..MaxReplies : ~Generated(<<s, k>>))' <=>
              \A k \in 1..MaxReplies : ~Generated(<<s, k>>)
BY TrackerConstants DEF EventsOfSame, Judged, TimeoutEvent

\* A step that leaves everything PacketInv says of s.
LEMMA QuietStep ==
  ASSUME VerdictInv, NEW s \in Seqs, EventsOfSame(s),
         UNCHANGED <<store[s], waiter[s], cleanups[s]>>,
         s \in emitting' <=> s \in emitting
  PROVE  PacketInv(s)'
<1>1. PacketInv(s) BY DEF VerdictInv
<1>2. (s \in UnAckedSeqs \ emitting)' <=> s \in UnAckedSeqs \ emitting
  BY DEF UnAckedSeqs
<1> QED BY <1>1, <1>2, EventsOfSameJudged DEF PacketInv

LEMMA VerdictInvStep == VerdictInv /\ [TrackerNext]_trackerVars => VerdictInv'
<1> SUFFICES ASSUME VerdictInv, [TrackerNext]_trackerVars
             PROVE  VerdictInv'
  OBVIOUS
<1>T. TrackerTypeOK /\ OneEmitting /\ TrackerTypeOK'
  BY TrackerTypeStep DEF VerdictInv
<1>P. \A s \in Seqs : PacketInv(s)
  BY DEF VerdictInv
<1> SUFFICES OneEmitting' /\ \A u \in Seqs : PacketInv(u)'
  BY <1>T DEF VerdictInv
\* Steps that touch nothing PacketInv speaks of.
<1>1. ASSUME UNCHANGED <<store, waiter, cleanups, emitting>>, SameGenerated
      PROVE  OneEmitting' /\ \A u \in Seqs : PacketInv(u)'
  BY <1>1, <1>T, QuietStep, SameGeneratedPerPacket DEF OneEmitting
<1>2. CASE OwnerExit \/ CloseCloseCh \/ ForgetAll \/ CancelCtx \/ UNCHANGED trackerVars
  <2>1. UNCHANGED <<store, waiter, cleanups, emitting, senders, recvEvC, delivered>>
    BY <1>2 DEF OwnerExit, CloseCloseCh, ForgetAll, CancelCtx, trackerVars
  <2> QED BY <2>1, <1>1, UntouchedChannel
<1>3. ASSUME NEW e \in Event, SendEvent(e)
      PROVE  OneEmitting' /\ \A u \in Seqs : PacketInv(u)'
  BY <1>1, <1>3, <1>T, SendEventKeepsEvents DEF SendEvent
\* Steps of the goroutine of packet s before its timeout is handled.
<1>4. ASSUME NEW s \in Seqs,
             StartWaiter(s) \/ TimerFires(s) \/ HandleTimeoutLate(s)
      PROVE  OneEmitting' /\ \A u \in Seqs : PacketInv(u)'
  <2>1. UNCHANGED <<store, cleanups, emitting, senders, recvEvC, delivered>>
    BY <1>4 DEF StartWaiter, TimerFires, HandleTimeoutLate
  <2>2. SameGenerated BY <2>1, UntouchedChannel
  <2>3. /\ waiter[s] \in {"new", "waiting", "handle"}
        /\ waiter'[s] # "none"
        /\ \A u \in Seqs \ {s} : waiter'[u] = waiter[u]
    BY <1>4, <1>T DEF StartWaiter, TimerFires, HandleTimeoutLate, TrackerTypeOK
  <2>4. PacketInv(s)'
    BY <2>1, <2>2, <2>3, <1>P, EventsOfSameJudged, SameGeneratedPerPacket
       DEF PacketInv, UnAckedSeqs
  <2>5. ASSUME NEW u \in Seqs, u # s PROVE PacketInv(u)'
    BY <2>1, <2>2, <2>3, <2>5, QuietStep, SameGeneratedPerPacket
  <2> QED BY <2>1, <2>4, <2>5, <1>T DEF OneEmitting
<1>5. ASSUME NEW s \in Seqs, MarkSent(s)
      PROVE  OneEmitting' /\ \A u \in Seqs : PacketInv(u)'
  <2>1. UNCHANGED <<cleanups, emitting, senders, recvEvC, delivered>>
    BY <1>5 DEF MarkSent
  <2>2. SameGenerated BY <2>1, UntouchedChannel
  <2>3. /\ waiter[s] = "none" /\ waiter'[s] = "new" /\ store'[s] = 0
        /\ emitting = {}
        /\ \A u \in Seqs \ {s} : waiter'[u] = waiter[u] /\ store'[u] = store[u]
    BY <1>5, <1>T DEF MarkSent, AtSelect, TrackerTypeOK
  <2>4. PacketInv(s)'
    <3>1. s \notin Judged /\ ~(cleanups[s] > 0) BY <1>P, <2>3 DEF PacketInv
    <3>2. s \notin Judged' BY <3>1, <2>2, JudgedSame
    <3>3. ~Generated(TimeoutEvent(s))'
      BY <3>2, TrackerConstants DEF Judged, TimeoutEvent
    <3>4. (s \in UnAckedSeqs \ emitting)' BY <2>1, <2>3 DEF UnAckedSeqs
    <3> QED BY <2>1, <2>3, <3>1, <3>2, <3>3, <3>4 DEF PacketInv
  <2>5. ASSUME NEW u \in Seqs, u # s PROVE PacketInv(u)'
    BY <2>1, <2>2, <2>3, <2>5, QuietStep, SameGeneratedPerPacket
  <2> QED BY <2>1, <2>4, <2>5, <1>T DEF OneEmitting
<1>6. ASSUME NEW s \in Seqs, CleanupEntry(s)
      PROVE  OneEmitting' /\ \A u \in Seqs : PacketInv(u)'
  <2>1. UNCHANGED <<waiter, emitting, senders, recvEvC, delivered>>
    BY <1>6 DEF CleanupEntry
  <2>2. SameGenerated BY <2>1, UntouchedChannel
  <2>3. /\ cleanups[s] > 0
        /\ store'[s] = store[s] \/ store'[s] = Absent
        /\ \A u \in Seqs \ {s} : /\ store'[u] = store[u]
                                 /\ cleanups'[u] = cleanups[u]
    BY <1>6, <1>T DEF CleanupEntry, TrackerTypeOK
  <2>4. PacketInv(s)'
    <3>1. store[s] # 0 /\ s \in Judged /\ s \notin emitting
      BY <1>P, <2>3 DEF PacketInv
    <3>2. store'[s] # 0 /\ s \in Judged' /\ s \notin emitting'
      BY <2>1, <2>2, <2>3, <3>1, JudgedSame
    <3> QED BY <1>P, <2>1, <2>2, <2>3, <3>1, <3>2, EventsOfSameJudged,
               SameGeneratedPerPacket DEF PacketInv, UnAckedSeqs
  <2>5. ASSUME NEW u \in Seqs, u # s PROVE PacketInv(u)'
    BY <2>1, <2>2, <2>3, <2>5, QuietStep, SameGeneratedPerPacket
  <2> QED BY <2>1, <2>4, <2>5, <1>T DEF OneEmitting
\* Steps that end a timeout: the event has left the owner, the entry is gone.
<1>7. ASSUME NEW s \in emitting, SameGenerated, emitting' = {},
             store' = [store EXCEPT ![s] = Absent],
             UNCHANGED <<waiter, cleanups>>
      PROVE  OneEmitting' /\ \A u \in Seqs : PacketInv(u)'
  <2>1. s \in Seqs /\ emitting = {s} BY <1>T DEF TrackerTypeOK, OneEmitting
  <2>2. store'[s] = Absent /\ \A u \in Seqs \ {s} : store'[u] = store[u]
    BY <1>7, <1>T, <2>1 DEF TrackerTypeOK
  <2>3. PacketInv(s)'
    <3>1. Generated(TimeoutEvent(s)) BY DEF Generated, InFlight
    <3>2. s \in Judged BY <2>1, <3>1, TrackerConstants DEF Judged, TimeoutEvent
    <3> QED BY <1>7, <1>P, <2>1, <2>2, <3>2, EventsOfSameJudged,
               SameGeneratedPerPacket DEF PacketInv, UnAckedSeqs
  <2>4. ASSUME NEW u \in Seqs, u # s PROVE PacketInv(u)'
    BY <1>7, <2>1, <2>2, <2>4, QuietStep, SameGeneratedPerPacket
  <2> QED BY <1>7, <2>3, <2>4 DEF OneEmitting
<1>8. ASSUME NEW s \in Seqs, EmitTimeout(s)
      PROVE  OneEmitting' /\ \A u \in Seqs : PacketInv(u)'
  BY <1>7, <1>8, <1>T, EmitTimeoutKeepsEvents DEF EmitTimeout
<1>9. ASSUME NEW e \in Event, Receive(e)
      PROVE  OneEmitting' /\ \A u \in Seqs : PacketInv(u)'
  <2>1. SameGenerated BY <1>9, <1>T, ReceiveKeepsEvents
  <2>2. UNCHANGED <<waiter, cleanups>> BY <1>9 DEF Receive
  <2>3. \/ UNCHANGED <<store, emitting>>
        \/ \E s \in emitting : /\ emitting' = {}
                               /\ store' = [store EXCEPT ![s] = Absent]
    BY <1>9 DEF Receive
  <2> QED BY <1>1, <1>7, <2>1, <2>2, <2>3
\* Steps that generate an event.
<1>10. ASSUME NEW s \in Seqs, MarkReceived(s)
       PROVE  OneEmitting' /\ \A u \in Seqs : PacketInv(u)'
  <2>1. UNCHANGED <<waiter, emitting>> /\ emitting = {}
    BY <1>10 DEF MarkReceived, AtSelect
  <2>2. /\ store[s] \in 0..(MaxReplies - 1)
        /\ store'[s] = store[s] + 1
        /\ \A u \in Seqs \ {s} : /\ store'[u] = store[u]
                                 /\ cleanups'[u] = cleanups[u]
    BY <1>10, <1>T DEF MarkReceived, TrackerTypeOK
  <2>3. store[s] + 1 \in 0..MaxReplies /\ store[s] + 1 # 0
    BY <2>2, TrackerConstants
  <2>4. AddsEvent(<<s, store[s] + 1>>) BY <1>10, <1>T, MarkReceivedAdds
  <2>5. PacketInv(s)'
    <3>1. ~Generated(TimeoutEvent(s)) /\ waiter[s] # "none"
      BY <1>P, <2>1, <2>2 DEF PacketInv
    <3>2. TimeoutEvent(s) \in Event /\ TimeoutEvent(s) # <<s, store[s] + 1>>
      BY <2>3, TrackerConstants DEF TimeoutEvent, Event
    <3>3. ~Generated(TimeoutEvent(s))' BY <2>4, <3>1, <3>2 DEF AddsEvent
    <3>4. s \in Judged' BY <2>3, <2>4, JudgedAdds
    <3>5. store'[s] # 0 BY <2>2, <2>3
    <3> QED BY <2>1, <3>1, <3>3, <3>4, <3>5 DEF PacketInv, UnAckedSeqs
  <2>6. ASSUME NEW u \in Seqs, u # s PROVE PacketInv(u)'
    BY <2>1, <2>2, <2>3, <2>4, <2>6, QuietStep, AddsEventPerPacket
  <2> QED BY <2>1, <2>5, <2>6 DEF OneEmitting
<1>11. ASSUME NEW s \in Seqs, HandleTimeout(s)
       PROVE  OneEmitting' /\ \A u \in Seqs : PacketInv(u)'
  <2>1. /\ emitting = {} /\ waiter[s] = "handle" /\ waiter'[s] = "done"
        /\ UNCHANGED <<cleanups, senders, recvEvC, delivered>>
        /\ \A u \in Seqs \ {s} : waiter'[u] = waiter[u] /\ store'[u] = store[u]
    BY <1>11, <1>T DEF HandleTimeout, AtSelect, TrackerTypeOK
  <2>2. CASE emitting' = {}
    <3>1. SameGenerated BY <2>1, <2>2, UntouchedChannel
    <3>2. store'[s] = store[s] \/ (store'[s] = Absent /\ store[s] # 0)
      BY <1>11, <1>T, <2>2 DEF HandleTimeout, TrackerTypeOK
    <3>3. PacketInv(s)'
      BY <1>P, <2>1, <2>2, <3>1, <3>2, EventsOfSameJudged,
         SameGeneratedPerPacket DEF PacketInv, UnAckedSeqs
    <3>4. ASSUME NEW u \in Seqs, u # s PROVE PacketInv(u)'
      BY <2>1, <2>2, <3>1, <3>4, QuietStep, SameGeneratedPerPacket
    <3> QED BY <2>2, <3>3, <3>4 DEF OneEmitting
  <2>3. CASE emitting' = {s} /\ store[s] = 0 /\ UNCHANGED store
    <3>1. AddsEvent(TimeoutEvent(s)) BY <1>11, <1>T, <2>3, HandleTimeoutAdds
    <3>2. 0 \in 0..MaxReplies BY TrackerConstants
    <3>3. s \notin Judged /\ ~(cleanups[s] > 0)
      BY <1>P, <2>1, <2>3 DEF PacketInv, UnAckedSeqs
    <3>4. s \in Judged' BY <3>1, <3>2, JudgedAdds DEF TimeoutEvent
    <3>5. \A k \in 1..MaxReplies : ~Generated(<<s, k>>)'
      BY <3>1, <3>3, TrackerConstants DEF AddsEvent, Judged, TimeoutEvent, Event
    <3>6. PacketInv(s)'
      BY <2>1, <2>3, <3>3, <3>4, <3>5 DEF PacketInv, UnAckedSeqs
    <3>7. ASSUME NEW u \in Seqs, u # s PROVE PacketInv(u)'
      BY <2>1, <2>3, <3>1, <3>2, <3>7, QuietStep, AddsEventPerPacket
         DEF TimeoutEvent
    <3> QED BY <2>3, <3>6, <3>7 DEF OneEmitting
  <2> QED BY <1>11, <2>1, <2>2, <2>3 DEF HandleTimeout
<1> QED
  BY <1>2, <1>3, <1>4, <1>5, <1>6, <1>8, <1>9, <1>10, <1>11
     DEF TrackerNext, TrackerStep

LEMMA VerdictInvInit == TrackerInit => VerdictInv
<1> SUFFICES ASSUME TrackerInit PROVE VerdictInv
  OBVIOUS
<1>1. \A e \in Event : ~Generated(e)
  <2>1. Len(recvEvC) = 0 BY DEF TrackerInit
  <2>2. \A e \in Event : ~Buffered(e) BY <2>1 DEF Buffered
  <2>3. senders = {} /\ emitting = {} BY DEF TrackerInit
  <2>4. \A e \in Event : delivered[e] = 0 BY DEF TrackerInit
  <2> QED BY <2>2, <2>3, <2>4 DEF Generated, InFlight
<1>2. Judged = {} /\ \A s \in Seqs : ~Generated(TimeoutEvent(s))
  <2>1. \A s \in Seqs, k \in 0..MaxReplies : ~Generated(<<s, k>>)
    <3>1. \A s \in Seqs, k \in 0..MaxReplies : <<s, k>> \in Event BY DEF Event
    <3> QED BY <1>1, <3>1
  <2>2. Judged = {} BY <2>1 DEF Judged
  <2>3. 0 \in 0..MaxReplies BY TrackerConstants
  <2> QED BY <2>1, <2>2, <2>3 DEF TimeoutEvent
<1>3. ASSUME NEW s \in Seqs PROVE PacketInv(s)
  <2>1. /\ store[s] = Absent /\ waiter[s] = "none" /\ cleanups[s] = 0
        /\ emitting = {}
    BY DEF TrackerInit
  <2> QED BY <1>2, <2>1 DEF PacketInv
<1> QED BY <1>3, TrackerTypeInit DEF VerdictInv, OneEmitting, TrackerInit

\* The verdict on a packet is final: whatever the order in which its timer,
\* its replies and its cleanups reach the owner goroutine, a packet whose
\* timeout was reported is not reported answered.
THEOREM TrackerVerdictIsFinal == TrackerSpec => []VerdictIsFinal
<1>1. VerdictInv => VerdictIsFinal
  BY DEF VerdictInv, PacketInv, VerdictIsFinal
<1> QED BY <1>1, VerdictInvInit, VerdictInvStep, PTL DEF TrackerSpec

\* A packet marked sent is counted as un-acked or has an event, never both
\* and never neither.
THEOREM TrackerSentIsAccounted == TrackerSpec => []SentIsAccounted
<1>1. VerdictInv => SentIsAccounted
  BY DEF VerdictInv, PacketInv, SentIsAccounted, Sent
<1> QED BY <1>1, VerdictInvInit, VerdictInvStep, PTL DEF TrackerSpec

LEMMA AckedSeqExactInit == TrackerInit => AckedSeqExact
<1> SUFFICES ASSUME TrackerInit PROVE AckedSeqExact
  OBVIOUS
<1>1. VerdictInv BY VerdictInvInit
<1>2. Sent = {} BY DEF TrackerInit, Sent
<1>3. Judged = {} BY <1>1, <1>2 DEF VerdictInv, PacketInv, Sent, Judged
<1>4. Cardinality(Judged) = 0 BY <1>3, FS_EmptySet
<1> QED BY <1>4 DEF AckedSeqExact, TrackerInit

LEMMA AckedSeqExactStep ==
  VerdictInv /\ AckedSeqExact /\ [TrackerNext]_trackerVars => AckedSeqExact'
<1> SUFFICES ASSUME VerdictInv, AckedSeqExact, [TrackerNext]_trackerVars
             PROVE  AckedSeqExact'
  OBVIOUS
<1>T. TrackerTypeOK /\ OneEmitting /\ \A s \in Seqs : PacketInv(s)
  BY DEF VerdictInv
<1>1. IsFiniteSet(Judged)
  <2>1. Judged \subseteq Seqs BY DEF Judged
  <2> QED BY <2>1, FS_Subset, TrackerConstants
\* Steps without a new event keep the counter.
<1>2. ASSUME SameGenerated, UNCHANGED ackedSeq PROVE AckedSeqExact'
  BY <1>2, JudgedSame DEF AckedSeqExact
\* A new event of a packet that had none counts.
<1>3. ASSUME NEW s \in Seqs, s \notin Judged, Judged' = Judged \cup {s},
             ackedSeq' = ackedSeq + 1
      PROVE  AckedSeqExact'
  BY <1>1, <1>3, FS_AddElement DEF AckedSeqExact
<1>4. ASSUME NEW s \in Seqs, MarkReceived(s) PROVE AckedSeqExact'
  <2>1. store[s] + 1 \in 0..MaxReplies
    BY <1>4, <1>T, TrackerConstants DEF MarkReceived, TrackerTypeOK
  <2>2. Judged' = Judged \cup {s}
    BY <1>4, <1>T, <2>1, MarkReceivedAdds, JudgedAdds
  <2>3. emitting = {} /\ waiter[s] # "none"
    BY <1>4, <1>T DEF MarkReceived, AtSelect, PacketInv
  <2>4. CASE store[s] = 0
    <3>1. s \notin Judged BY <1>T, <2>3, <2>4 DEF PacketInv, UnAckedSeqs
    <3>2. ackedSeq' = ackedSeq + 1 BY <1>4, <2>4 DEF MarkReceived
    <3> QED BY <1>3, <2>2, <3>1, <3>2
  <2>5. CASE store[s] # 0
    <3>1. s \in Judged BY <1>T, <2>3, <2>5 DEF PacketInv, UnAckedSeqs
    <3>2. Judged' = Judged BY <2>2, <3>1
    <3>3. ackedSeq' = ackedSeq BY <1>4, <2>5 DEF MarkReceived
    <3> QED BY <3>2, <3>3 DEF AckedSeqExact
  <2> QED BY <2>4, <2>5
<1>5. ASSUME NEW s \in Seqs, HandleTimeout(s) PROVE AckedSeqExact'
  <2>1. CASE UNCHANGED <<ackedSeq, emitting>>
    <3>1. SameGenerated BY <1>5, <2>1, UntouchedChannel DEF HandleTimeout
    <3> QED BY <1>2, <2>1, <3>1
  <2>2. CASE store[s] = 0 /\ emitting' = {s} /\ ackedSeq' = ackedSeq + 1
    <3>1. AddsEvent(<<s, 0>>)
      BY <1>5, <1>T, <2>2, HandleTimeoutAdds DEF TimeoutEvent
    <3>2. Judged' = Judged \cup {s} BY <3>1, JudgedAdds, TrackerConstants
    <3>3. emitting = {} /\ waiter[s] # "none"
      BY <1>5 DEF HandleTimeout, AtSelect
    <3>4. s \notin Judged BY <1>T, <2>2, <3>3 DEF PacketInv, UnAckedSeqs
    <3> QED BY <1>3, <2>2, <3>2, <3>4
  <2> QED BY <1>5, <2>1, <2>2 DEF HandleTimeout
<1>6. ASSUME NEW s \in Seqs, EmitTimeout(s) PROVE AckedSeqExact'
  BY <1>2, <1>6, <1>T, EmitTimeoutKeepsEvents DEF EmitTimeout
<1>7. ASSUME NEW e \in Event, SendEvent(e) PROVE AckedSeqExact'
  BY <1>2, <1>7, <1>T, SendEventKeepsEvents DEF SendEvent
<1>8. ASSUME NEW e \in Event, Receive(e) PROVE AckedSeqExact'
  BY <1>2, <1>8, <1>T, ReceiveKeepsEvents DEF Receive
<1>9. ASSUME UNCHANGED <<ackedSeq, senders, emitting, recvEvC, delivered>>
      PROVE  AckedSeqExact'
  BY <1>2, <1>9, UntouchedChannel
<1>10. CASE OwnerExit \/ CloseCloseCh \/ ForgetAll \/ CancelCtx
            \/ UNCHANGED trackerVars
  BY <1>9, <1>10
     DEF OwnerExit, CloseCloseCh, ForgetAll, CancelCtx, trackerVars
<1>11. ASSUME NEW s \in Seqs,
              \/ HandleTimeoutLate(s) \/ CleanupEntry(s) \/ StartWaiter(s)
              \/ TimerFires(s) \/ MarkSent(s)
       PROVE  AckedSeqExact'
  BY <1>9, <1>11
     DEF HandleTimeoutLate, CleanupEntry, StartWaiter, TimerFires, MarkSent
<1> QED
  BY <1>4, <1>5, <1>6, <1>7, <1>8, <1>10, <1>11 DEF TrackerNext, TrackerStep

\* ackedSeq is the number of packets with an event: the counter that ends a
\* ping neither misses a packet nor counts one twice.
THEOREM TrackerAckedSeqExact == TrackerSpec => []AckedSeqExact
BY VerdictInvInit, VerdictInvStep, AckedSeqExactInit, AckedSeqExactStep, PTL
   DEF TrackerSpec

\* The two counters SimplePinger stops by, GetAckedSeq and GetUnAcked, are
\* exact together.
THEOREM TrackerCountersExact == TrackerSpec => []CountersExact
BY TrackerAckedSeqExact, TrackerSentIsAccounted, PTL DEF CountersExact

-----------------------------------------------------------------------------
(* No event reaches the consumer twice.                                    *)

\* Replies of a packet are recorded one after the other.
RepliesInOrder ==
  \A s \in Seqs : store[s] # Absent =>
    \A k \in 1..MaxReplies : k > store[s] => ~Generated(<<s, k>>)

BufferedOnce(e) ==
  \A i, j \in 1..Len(recvEvC) : recvEvC[i] = e /\ recvEvC[j] = e => i = j

\* An event is with the goroutine that sends it, with the owner, at one place
\* of the buffer, or was delivered.
OnePlace(e) ==
  /\ e \in senders => ~Buffered(e)
  /\ \A s \in emitting : e = TimeoutEvent(s) => e \notin senders /\ ~Buffered(e)
  /\ BufferedOnce(e)
  /\ delivered[e] > 0 => delivered[e] = 1 /\ ~InFlight(e)

OnceInv == RepliesInOrder /\ \A e \in Event : OnePlace(e)

LEMMA AppendOnce ==
  ASSUME NEW S, NEW q \in Seq(S), NEW x \in S, NEW e,
         \A i, j \in 1..Len(q) : q[i] = e /\ q[j] = e => i = j,
         x = e => ~\E i \in 1..Len(q) : q[i] = e,
         NEW i \in 1..Len(Append(q, x)), NEW j \in 1..Len(Append(q, x)),
         Append(q, x)[i] = e, Append(q, x)[j] = e
  PROVE  i = j
<1>1. Len(q) \in Nat /\ Len(Append(q, x)) = Len(q) + 1 /\ Append(q, x)[Len(q) + 1] = x
  OBVIOUS
<1>2. \A k \in 1..Len(q) : Append(q, x)[k] = q[k]
  OBVIOUS
<1>3. i \in 1..Len(q) \/ i = Len(q) + 1 BY <1>1
<1>4. j \in 1..Len(q) \/ j = Len(q) + 1 BY <1>1
<1> QED BY <1>1, <1>2, <1>3, <1>4

LEMMA TailOnce ==
  ASSUME NEW S, NEW q \in Seq(S), q # <<>>, NEW e,
         \A i, j \in 1..Len(q) : q[i] = e /\ q[j] = e => i = j
  PROVE  /\ \A i, j \in 1..Len(Tail(q)) : Tail(q)[i] = e /\ Tail(q)[j] = e => i = j
         /\ e = Head(q) => ~\E i \in 1..Len(Tail(q)) : Tail(q)[i] = e
<1>1. Len(q) \in Nat /\ Len(q) > 0 /\ Len(Tail(q)) = Len(q) - 1 /\ Head(q) = q[1]
  OBVIOUS
<1>2. \A i \in 1..(Len(q) - 1) : Tail(q)[i] = q[i + 1] /\ i + 1 \in 1..Len(q)
  BY <1>1
<1>3. ASSUME NEW i \in 1..(Len(q) - 1), NEW j \in 1..(Len(q) - 1),
             Tail(q)[i] = e, Tail(q)[j] = e
      PROVE  i = j
  <2>1. i + 1 = j + 1 BY <1>2, <1>3
  <2> QED BY <2>1
<1>4. ASSUME NEW i \in 1..(Len(q) - 1), Tail(q)[i] = e, e = Head(q)
      PROVE  FALSE
  <2>1. 1 \in 1..Len(q) BY <1>1
  <2>2. i + 1 = 1 BY <1>1, <1>2, <1>4, <2>1
  <2> QED BY <2>2
<1> QED BY <1>1, <1>3, <1>4

\* The store of a packet is set to 0 only before it has any event.
LEMMA RepliesInOrderKept ==
  ASSUME VerdictInv, RepliesInOrder, SameGenerated,
         \A s \in Seqs : store'[s] \in {store[s], Absent} \/ s \notin Judged
  PROVE  RepliesInOrder'
<1> SUFFICES ASSUME NEW s \in Seqs, store'[s] # Absent,
                    NEW k \in 1..MaxReplies, k > store'[s]
             PROVE  ~Generated(<<s, k>>)'
  BY DEF RepliesInOrder
<1>1. <<s, k>> \in Event /\ k \in 0..MaxReplies BY TrackerConstants DEF Event
<1>2. CASE store'[s] = store[s] BY <1>1, <1>2 DEF RepliesInOrder, SameGenerated
<1>3. CASE s \notin Judged BY <1>1, <1>3 DEF Judged, SameGenerated
<1> QED BY <1>2, <1>3

LEMMA PlacesKept ==
  ASSUME UNCHANGED <<senders, emitting, recvEvC, delivered>>, NEW e, OnePlace(e)
  PROVE  OnePlace(e)'
BY DEF OnePlace, BufferedOnce, Buffered, InFlight

LEMMA OnceInvStep == VerdictInv /\ OnceInv /\ [TrackerNext]_trackerVars => OnceInv'
<1> SUFFICES ASSUME VerdictInv, OnceInv, [TrackerNext]_trackerVars
             PROVE  OnceInv'
  OBVIOUS
<1>T. TrackerTypeOK /\ OneEmitting /\ \A s \in Seqs : PacketInv(s)
  BY DEF VerdictInv
<1>O. RepliesInOrder /\ \A e \in Event : OnePlace(e)
  BY DEF OnceInv
<1>B. recvEvC \in Seq(Event) BY <1>T DEF TrackerTypeOK
<1>1. ASSUME UNCHANGED <<senders, emitting, recvEvC, delivered>>,
             \A s \in Seqs : store'[s] \in {store[s], Absent} \/ s \notin Judged
      PROVE  OnceInv'
  <2>1. RepliesInOrder' BY <1>1, <1>O, UntouchedChannel, RepliesInOrderKept
  <2> QED BY <1>1, <1>O, <2>1, PlacesKept DEF OnceInv
<1>2. CASE OwnerExit \/ CloseCloseCh \/ ForgetAll \/ CancelCtx \/ UNCHANGED trackerVars
  BY <1>1, <1>2 DEF OwnerExit, CloseCloseCh, ForgetAll, CancelCtx, trackerVars
<1>3. ASSUME NEW s \in Seqs,
             StartWaiter(s) \/ TimerFires(s) \/ HandleTimeoutLate(s) \/ CleanupEntry(s)
      PROVE  OnceInv'
  <2>1. UNCHANGED <<senders, emitting, recvEvC, delivered>>
    BY <1>3 DEF StartWaiter, TimerFires, HandleTimeoutLate, CleanupEntry
  <2>2. \A u \in Seqs : store'[u] \in {store[u], Absent}
    BY <1>3, <1>T DEF StartWaiter, TimerFires, HandleTimeoutLate, CleanupEntry,
       TrackerTypeOK
  <2> QED BY <1>1, <2>1, <2>2
<1>4. ASSUME NEW s \in Seqs, MarkSent(s) PROVE OnceInv'
  <2>1. UNCHANGED <<senders, emitting, recvEvC, delivered>> BY <1>4 DEF MarkSent
  <2>2. s \notin Judged BY <1>4, <1>T DEF MarkSent, PacketInv
  <2>3. \A u \in Seqs \ {s} : store'[u] = store[u]
    BY <1>4, <1>T DEF MarkSent, TrackerTypeOK
  <2> QED BY <1>1, <2>1, <2>2, <2>3
<1>5. ASSUME NEW new \in Event, SendEvent(new) PROVE OnceInv'
  <2>1. RepliesInOrder'
    BY <1>5, <1>T, <1>O, SendEventKeepsEvents, RepliesInOrderKept DEF SendEvent
  <2>2. CASE ~alive
    <3>1. UNCHANGED <<senders, emitting, recvEvC, delivered>>
      BY <1>5, <2>2 DEF SendEvent
    <3> QED BY <1>O, <2>1, <3>1, PlacesKept DEF OnceInv
  <2>3. CASE alive
    <3>1. /\ new \in senders /\ senders' = senders \ {new}
          /\ recvEvC' = Append(recvEvC, new)
          /\ UNCHANGED <<emitting, delivered>>
      BY <1>5, <2>3 DEF SendEvent
    <3>2. ASSUME NEW e \in Event PROVE OnePlace(e)'
      <4>1. OnePlace(e) /\ OnePlace(new) BY <1>O
      <4>2. Buffered(e)' <=> Buffered(e) \/ e = new
        BY <1>B, <3>1, AppendElements DEF Buffered
      <4>3. new = e => ~Buffered(e) BY <3>1, <4>1 DEF OnePlace
      <4>4. BufferedOnce(e)'
        BY <1>B, <3>1, <4>1, <4>3, AppendOnce DEF OnePlace, BufferedOnce, Buffered
      <4>5. InFlight(e)' <=> InFlight(e) BY <3>1, <4>2 DEF InFlight
      <4>6. \A s \in emitting : e = TimeoutEvent(s) => e \notin senders /\ e # new
        BY <3>1, <4>1 DEF OnePlace
      <4> QED BY <3>1, <4>1, <4>2, <4>4, <4>5, <4>6 DEF OnePlace
    <3> QED BY <2>1, <3>2 DEF OnceInv
  <2> QED BY <2>2, <2>3
<1>6. ASSUME NEW s \in Seqs, EmitTimeout(s) PROVE OnceInv'
  <2>1. /\ emitting = {s} /\ emitting' = {}
        /\ recvEvC' = Append(recvEvC, TimeoutEvent(s))
        /\ UNCHANGED <<senders, delivered>>
        /\ TimeoutEvent(s) \in Event
    BY <1>6, <1>T, TrackerConstants DEF EmitTimeout, OneEmitting, TimeoutEvent, Event
  <2>2. \A u \in Seqs : store'[u] \in {store[u], Absent}
    BY <1>6, <1>T DEF EmitTimeout, TrackerTypeOK
  <2>3. RepliesInOrder'
    BY <1>6, <1>T, <1>O, <2>2, EmitTimeoutKeepsEvents, RepliesInOrderKept
  <2>4. ASSUME NEW e \in Event PROVE OnePlace(e)'
    <3>1. OnePlace(e) BY <1>O
    <3>2. Buffered(e)' <=> Buffered(e) \/ e = TimeoutEvent(s)
      BY <1>B, <2>1, AppendElements DEF Buffered
    <3>3. TimeoutEvent(s) = e => ~Buffered(e) /\ e \notin senders
      BY <2>1, <3>1 DEF OnePlace
    <3>4. BufferedOnce(e)'
      BY <1>B, <2>1, <3>1, <3>3, AppendOnce DEF OnePlace, BufferedOnce, Buffered
    <3>5. InFlight(e)' <=> InFlight(e) BY <2>1, <3>2 DEF InFlight
    <3> QED BY <2>1, <3>1, <3>2, <3>3, <3>4, <3>5 DEF OnePlace
  <2> QED BY <2>3, <2>4 DEF OnceInv
<1>7. ASSUME NEW got \in Event, Receive(got) PROVE OnceInv'
  <2>1. \A u \in Seqs : store'[u] \in {store[u], Absent}
    BY <1>7, <1>T DEF Receive, TrackerTypeOK
  <2>2. RepliesInOrder'
    BY <1>7, <1>T, <1>O, <2>1, ReceiveKeepsEvents, RepliesInOrderKept
  <2>3. \A e \in Event : delivered'[e] = IF e = got THEN delivered[e] + 1 ELSE delivered[e]
    BY <1>7, <1>T DEF Receive, TrackerTypeOK
  <2>4. InFlight(got)
    <3>1. recvEvC # <<>> /\ got = Head(recvEvC) => Buffered(got)
      <4>1. recvEvC # <<>> => 1 \in 1..Len(recvEvC) /\ Head(recvEvC) = recvEvC[1] BY <1>B
      <4> QED BY <4>1 DEF Buffered
    <3> QED BY <1>7, <3>1 DEF Receive, InFlight
  <2>5. delivered[got] = 0 BY <2>4, <1>O, <1>T DEF OnePlace, TrackerTypeOK
  \* Wherever it was, it is there no more.
  <2>6. ASSUME NEW e \in Event,
               /\ senders' \subseteq senders /\ emitting' \subseteq emitting
               /\ Buffered(e)' => Buffered(e)
               /\ BufferedOnce(e)'
               /\ e = got => ~InFlight(e)'
        PROVE  OnePlace(e)'
    <3>1. OnePlace(e) BY <1>O
    <3>2. InFlight(e)' => InFlight(e) BY <2>6 DEF InFlight
    <3>3. delivered[e] \in Nat BY <1>T DEF TrackerTypeOK
    <3>4. delivered'[e] > 0 => delivered'[e] = 1 /\ ~InFlight(e)'
      BY <2>3, <2>5, <2>6, <3>1, <3>2, <3>3 DEF OnePlace
    <3> QED BY <2>6, <3>1, <3>4 DEF OnePlace
  <2>7. CASE /\ recvEvC # <<>> /\ got = Head(recvEvC)
             /\ recvEvC' = Tail(recvEvC)
             /\ UNCHANGED <<senders, emitting>>
    <3>1. ASSUME NEW e \in Event PROVE OnePlace(e)'
      <4>1. OnePlace(e) BY <1>O
      <4>2. Buffered(e) <=> e = got \/ Buffered(e)'
        BY <1>B, <2>7, TailElements DEF Buffered
      <4>3. BufferedOnce(e)' /\ (e = got => ~Buffered(e)')
        BY <1>B, <2>7, <4>1, TailOnce DEF OnePlace, BufferedOnce, Buffered
      <4>4. e = got => ~InFlight(e)'
        BY <2>7, <4>1, <4>2, <4>3 DEF OnePlace, InFlight
      <4> QED BY <2>6, <2>7, <4>2, <4>3, <4>4
    <3> QED BY <2>2, <3>1 DEF OnceInv
  <2>8. CASE /\ got \in senders /\ senders' = senders \ {got}
             /\ UNCHANGED <<recvEvC, emitting>>
    <3>1. ASSUME NEW e \in Event PROVE OnePlace(e)'
      <4>1. OnePlace(e) BY <1>O
      <4>2. Buffered(e)' <=> Buffered(e) BY <2>8 DEF Buffered
      <4>3. BufferedOnce(e)' BY <2>8, <4>1 DEF OnePlace, BufferedOnce
      <4>4. e = got => ~InFlight(e)' BY <2>8, <4>1, <4>2 DEF OnePlace, InFlight
      <4> QED BY <2>6, <2>8, <4>2, <4>3, <4>4
    <3> QED BY <2>2, <3>1 DEF OnceInv
  <2>9. CASE /\ \E s \in emitting : got = TimeoutEvent(s)
             /\ emitting' = {}
             /\ UNCHANGED <<recvEvC, senders>>
    <3>1. ASSUME NEW e \in Event PROVE OnePlace(e)'
      <4>1. OnePlace(e) BY <1>O
      <4>2. Buffered(e)' <=> Buffered(e) BY <2>9 DEF Buffered
      <4>3. BufferedOnce(e)' BY <2>9, <4>1 DEF OnePlace, BufferedOnce
      <4>4. e = got => ~InFlight(e)' BY <2>9, <4>1, <4>2 DEF OnePlace, InFlight
      <4> QED BY <2>6, <2>9, <4>2, <4>3, <4>4
    <3> QED BY <2>2, <3>1 DEF OnceInv
  <2> QED BY <1>7, <2>7, <2>8, <2>9 DEF Receive
<1>8. ASSUME NEW s \in Seqs, MarkReceived(s) PROVE OnceInv'
  <2> DEFINE new == <<s, store[s] + 1>>
  <2>1. /\ store[s] \in 0..(MaxReplies - 1) /\ emitting = {}
        /\ store'[s] = store[s] + 1
        /\ senders' = senders \cup {new}
        /\ UNCHANGED <<emitting, recvEvC, delivered>>
        /\ \A u \in Seqs \ {s} : store'[u] = store[u]
    BY <1>8, <1>T DEF MarkReceived, AtSelect, TrackerTypeOK
  <2>2. store[s] + 1 \in 1..MaxReplies /\ store[s] + 1 > store[s] /\ store[s] # Absent
    BY <2>1, TrackerConstants
  <2>3. new \in Event /\ ~Generated(new)
    BY <1>O, <2>2 DEF RepliesInOrder, Event
  <2>4. AddsEvent(new) BY <1>8, <1>T, MarkReceivedAdds
  <2>5. RepliesInOrder'
    <3> SUFFICES ASSUME NEW u \in Seqs, store'[u] # Absent,
                        NEW k \in 1..MaxReplies, k > store'[u]
                 PROVE  ~Generated(<<u, k>>)'
      BY DEF RepliesInOrder
    <3>1. <<u, k>> \in Event BY TrackerConstants DEF Event
    <3>2. <<u, k>> # new BY <2>1, <2>2
    <3>3. store[u] # Absent /\ k > store[u] BY <2>1, <2>2
    <3> QED BY <1>O, <2>4, <3>1, <3>2, <3>3 DEF RepliesInOrder, AddsEvent
  <2>6. ASSUME NEW e \in Event PROVE OnePlace(e)'
    <3> HIDE DEF new
    <3>1. OnePlace(e) BY <1>O
    <3>2. Buffered(e)' <=> Buffered(e) BY <2>1 DEF Buffered
    <3>3. BufferedOnce(e)' BY <2>1, <3>1 DEF OnePlace, BufferedOnce
    <3>4. ~Buffered(new) /\ ~(delivered[new] > 0) BY <2>3 DEF Generated, InFlight
    <3> QED BY <2>1, <3>1, <3>2, <3>3, <3>4 DEF OnePlace, InFlight
  <2> QED BY <2>5, <2>6 DEF OnceInv
<1>9. ASSUME NEW s \in Seqs, HandleTimeout(s) PROVE OnceInv'
  <2>1. UNCHANGED <<senders, recvEvC, delivered>> /\ emitting = {}
    BY <1>9 DEF HandleTimeout, AtSelect
  <2>2. CASE emitting' = emitting
    <3>1. \A u \in Seqs : store'[u] \in {store[u], Absent}
      BY <1>9, <1>T DEF HandleTimeout, TrackerTypeOK
    <3> QED BY <1>1, <2>1, <2>2, <3>1
  <2>3. CASE store[s] = 0 /\ emitting' = {s} /\ UNCHANGED store
    <3>1. AddsEvent(TimeoutEvent(s)) BY <1>9, <1>T, <2>3, HandleTimeoutAdds
    <3>2. waiter[s] # "none" BY <1>9 DEF HandleTimeout
    <3>3. s \notin Judged BY <1>T, <2>1, <2>3, <3>2 DEF PacketInv, UnAckedSeqs
    <3>4. ~Generated(TimeoutEvent(s))
      BY <3>3, TrackerConstants DEF Judged, TimeoutEvent
    <3>5. RepliesInOrder'
      <4> SUFFICES ASSUME NEW u \in Seqs, store'[u] # Absent,
                          NEW k \in 1..MaxReplies, k > store'[u]
                   PROVE  ~Generated(<<u, k>>)'
        BY DEF RepliesInOrder
      <4>1. <<u, k>> \in Event /\ <<u, k>> # TimeoutEvent(s)
        BY TrackerConstants DEF Event, TimeoutEvent
      <4> QED BY <1>O, <2>3, <3>1, <4>1 DEF RepliesInOrder, AddsEvent
    <3>6. ASSUME NEW e \in Event PROVE OnePlace(e)'
      <4>1. OnePlace(e) BY <1>O
      <4>2. Buffered(e)' <=> Buffered(e) BY <2>1 DEF Buffered
      <4>3. BufferedOnce(e)' BY <2>1, <4>1 DEF OnePlace, BufferedOnce
      <4>4. e = TimeoutEvent(s) => e \notin senders /\ ~Buffered(e) /\ ~(delivered[e] > 0)
        BY <3>4 DEF Generated, InFlight
      <4> QED BY <2>1, <2>3, <4>1, <4>2, <4>3, <4>4 DEF OnePlace, InFlight
    <3> QED BY <3>5, <3>6 DEF OnceInv
  <2> QED BY <1>9, <2>2, <2>3 DEF HandleTimeout
<1> QED
  BY <1>2, <1>3, <1>4, <1>5, <1>6, <1>7, <1>8, <1>9 DEF TrackerNext, TrackerStep

LEMMA NothingGeneratedInit ==
  TrackerInit => \A e \in Event : ~Generated(e) /\ delivered[e] = 0
<1> SUFFICES ASSUME TrackerInit, NEW e \in Event
             PROVE  ~Generated(e) /\ delivered[e] = 0
  OBVIOUS
<1>1. Len(recvEvC) = 0 /\ senders = {} /\ emitting = {} BY DEF TrackerInit
<1>2. delivered[e] = 0 BY DEF TrackerInit
<1> QED BY <1>1, <1>2 DEF Generated, InFlight, Buffered

LEMMA OnceInvInit == TrackerInit => OnceInv
<1> SUFFICES ASSUME TrackerInit PROVE OnceInv
  OBVIOUS
<1>1. Len(recvEvC) = 0 /\ senders = {} /\ emitting = {} BY DEF TrackerInit
<1>2. ASSUME NEW e \in Event PROVE OnePlace(e)
  BY <1>1, NothingGeneratedInit DEF OnePlace, BufferedOnce
<1>3. RepliesInOrder BY DEF RepliesInOrder, TrackerInit
<1> QED BY <1>2, <1>3 DEF OnceInv

DeliveredOnce == \A e \in Event : delivered[e] <= 1

\* The consumer gets no event twice, though the owner, the goroutines of the
\* replies and the buffer hand it on.
THEOREM TrackerDeliversOnce == TrackerSpec => []DeliveredOnce
<1>1. VerdictInv /\ OnceInv => DeliveredOnce
  <2> SUFFICES ASSUME VerdictInv, OnceInv, NEW e \in Event PROVE delivered[e] <= 1
    BY DEF DeliveredOnce
  <2>1. delivered[e] \in Nat BY DEF VerdictInv, TrackerTypeOK
  <2> QED BY <2>1 DEF OnceInv, OnePlace
<1> QED
  BY <1>1, VerdictInvInit, VerdictInvStep, OnceInvInit, OnceInvStep, PTL DEF TrackerSpec

-----------------------------------------------------------------------------
(* What the users of the tracker rely on, as long as the network brings at *)
(* most one reply to a packet: each packet has one event in all.           *)

DeliveredSeqs == {s \in Seqs : \E k \in 0..MaxReplies : delivered[<<s, k>>] > 0}

LEMMA DeliveredAreSent ==
  ASSUME VerdictInv
  PROVE  DeliveredSeqs \subseteq Judged /\ Judged \subseteq Sent
BY DEF DeliveredSeqs, Judged, Generated, Sent, VerdictInv, PacketInv

LEMMA ReceiveDelivers ==
  ASSUME VerdictInv, OnceInv, MaxReplies = 1, NEW e \in Event, Receive(e)
  PROVE  /\ e[1] \in Sent \ DeliveredSeqs
         /\ DeliveredSeqs' = DeliveredSeqs \cup {e[1]}
         /\ UNCHANGED <<Sent, alive, closed, closeCh, ctxDone>>
<1>1. PICK s \in Seqs, k \in 0..MaxReplies : e = <<s, k>> BY DEF Event
<1>T. TrackerTypeOK BY DEF VerdictInv
<1>2. InFlight(e)
  <2>1. recvEvC # <<>> /\ e = Head(recvEvC) => Buffered(e)
    <3>1. recvEvC \in Seq(Event) BY <1>T DEF TrackerTypeOK
    <3>2. recvEvC # <<>> => 1 \in 1..Len(recvEvC) /\ Head(recvEvC) = recvEvC[1] BY <3>1
    <3> QED BY <3>2 DEF Buffered
  <2> QED BY <2>1 DEF Receive, InFlight
<1>3. ~(delivered[e] > 0) BY <1>2 DEF OnceInv, OnePlace
<1>4. \A j \in 0..MaxReplies : Generated(<<s, j>>) => j = k
  <2>1. Generated(<<s, k>>) BY <1>1, <1>2 DEF Generated
  <2>2. Generated(<<s, 0>>) => ~Generated(<<s, 1>>)
    BY DEF VerdictInv, PacketInv, TimeoutEvent
  <2>3. \A j \in 0..MaxReplies : j = 0 \/ j = 1 OBVIOUS
  <2> QED BY <2>1, <2>2, <2>3
<1>5. s \notin DeliveredSeqs BY <1>1, <1>3, <1>4 DEF DeliveredSeqs, Generated
<1>6. s \in Sent
  <2>1. s \in Judged BY <1>1, <1>2 DEF Judged, Generated
  <2> QED BY <2>1, DeliveredAreSent
<1>7. \A d \in Event : delivered'[d] > 0 <=> delivered[d] > 0 \/ d = e
  <2>1. \A d \in Event : delivered'[d] = IF d = e THEN delivered[d] + 1 ELSE delivered[d]
    BY <1>T DEF Receive, TrackerTypeOK
  <2>2. delivered[e] \in Nat BY <1>T DEF TrackerTypeOK
  <2> QED BY <2>1, <2>2
<1>8. DeliveredSeqs' = DeliveredSeqs \cup {s}
  <2>1. \A u \in Seqs, j \in 0..MaxReplies : <<u, j>> \in Event BY DEF Event
  <2> QED BY <1>1, <1>7, <2>1 DEF DeliveredSeqs
<1> QED BY <1>1, <1>5, <1>6, <1>8 DEF Receive, Sent

LEMMA MarkSentSends ==
  ASSUME TrackerTypeOK, NEW s \in Seqs, MarkSent(s)
  PROVE  /\ s \notin Sent /\ Sent' = Sent \cup {s}
         /\ UNCHANGED <<DeliveredSeqs, alive, closed, closeCh, ctxDone>>
         /\ alive
BY DEF MarkSent, AtSelect, Sent, DeliveredSeqs, TrackerTypeOK

LEMMA MarkReceivedKeeps ==
  ASSUME NEW s \in Seqs, MarkReceived(s)
  PROVE  UNCHANGED <<Sent, DeliveredSeqs, alive, closed, closeCh, ctxDone>>
BY DEF MarkReceived, Sent, DeliveredSeqs

\* The goroutines of the tracker stop it only when it was told to.
LEMMA TrackerStepKeeps ==
  ASSUME TrackerTypeOK, TrackerStep
  PROVE  /\ UNCHANGED <<Sent, DeliveredSeqs, closed, ctxDone>>
         /\ alive' = alive \/ (~alive' /\ (ctxDone \/ closeCh))
         /\ closeCh' = closeCh \/ closed
<1>1. CASE OwnerExit BY <1>1 DEF OwnerExit, Sent, DeliveredSeqs
<1>2. CASE CloseCloseCh BY <1>2 DEF CloseCloseCh, Sent, DeliveredSeqs
<1>3. ASSUME NEW s \in Seqs,
             \/ HandleTimeout(s) \/ EmitTimeout(s) \/ HandleTimeoutLate(s)
             \/ CleanupEntry(s) \/ StartWaiter(s) \/ TimerFires(s)
      PROVE  UNCHANGED <<Sent, DeliveredSeqs, closed, ctxDone, alive, closeCh>>
  <2>1. UNCHANGED <<delivered, closed, ctxDone, alive, closeCh>>
    BY <1>3 DEF HandleTimeout, EmitTimeout, HandleTimeoutLate, CleanupEntry,
       StartWaiter, TimerFires
  <2>2. \A u \in Seqs : waiter'[u] = "none" <=> waiter[u] = "none"
    BY <1>3 DEF HandleTimeout, EmitTimeout, HandleTimeoutLate, CleanupEntry,
       StartWaiter, TimerFires, TrackerTypeOK
  <2> QED BY <2>1, <2>2 DEF Sent, DeliveredSeqs
<1>4. ASSUME NEW e \in Event, SendEvent(e)
      PROVE  UNCHANGED <<Sent, DeliveredSeqs, closed, ctxDone, alive, closeCh>>
  BY <1>4 DEF SendEvent, Sent, DeliveredSeqs
<1> QED BY <1>1, <1>2, <1>3, <1>4 DEF TrackerStep

LEMMA ContextStaysDone ==
  ASSUME TrackerTypeOK, [TrackerNext]_trackerVars
  PROVE  ctxDone => ctxDone'
<1>1. CASE TrackerStep BY <1>1, TrackerStepKeeps
<1>2. CASE ~TrackerStep
  BY <1>2 DEF TrackerNext, ForgetAll, CancelCtx, MarkSent, MarkReceived, Receive,
     trackerVars
<1> QED BY <1>1, <1>2
=============================================================================
