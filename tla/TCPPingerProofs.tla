-------------------------- MODULE TCPPingerProofs --------------------------
(***************************************************************************)
(* TLAPS proofs about the TCP pinger, for any number of packets, ports,    *)
(* replies and any depth of throttleTicker.                                *)
(***************************************************************************)
EXTENDS TCPPinger, TLAPS

\* While Send is between MarkSent and the start of its goroutine, the packet
\* it sends is the last one marked, and nothing else touches its guard.
SendInProgress ==
  main \in {"write", "arm"} => Current \in Seqs /\ guard[Current] = "marked"

LEMMA TypeInit == Init => TCPTypeOK
<1> SUFFICES ASSUME Init PROVE TCPTypeOK
  OBVIOUS
<1>1. TrackerTypeOK
  BY TCPTrackerConstants DEF Init, TrackerInit, TrackerTypeOK, GuardStates
<1>2. reported \in [Event -> Nat] BY DEF Init
<1>3. wire \in [Seqs -> 0..MaxReplies] BY TCPPingerConstants DEF Init
<1>4. pipe \in 0..PipeDepth BY TCPPingerConstants DEF Init
<1> QED BY <1>1, <1>2, <1>3, <1>4 DEF Init, TCPTypeOK

LEMMA TypeStep == TCPTypeOK /\ SendInProgress /\ [Next]_allVars => TCPTypeOK'
<1> SUFFICES ASSUME TCPTypeOK, SendInProgress, [Next]_allVars PROVE TCPTypeOK'
  OBVIOUS
<1> USE TCPTrackerConstants, TCPPingerConstants
    DEF TCPTypeOK, TrackerTypeOK, GuardStates, MainGoes, trackerVars
<1>1. CASE TakeTick BY <1>1 DEF TakeTick
<1>2. CASE WriteFails BY <1>2 DEF WriteFails
<1>3. CASE MainMarkSent BY <1>3 DEF MainMarkSent, MarkSent
<1>4. CASE SendUntracked BY <1>4 DEF SendUntracked
<1>5. CASE Write
  <2>1. wire' \in [Seqs -> 0..MaxReplies]
    <3>1. PICK n \in 0..MaxReplies : wire' = [wire EXCEPT ![Current] = n]
      BY <1>5 DEF Write
    <3> QED BY <3>1
  <2>2. written' \in Nat BY <1>5 DEF Write
  <2> QED BY <1>5, <2>1, <2>2 DEF Write
<1>6. CASE Arm
  <2>1. guard[Current] = "marked" BY <1>6 DEF Arm, SendInProgress
  <2> QED BY <1>6, <2>1 DEF Arm
<1>7. CASE ReportError BY <1>7 DEF ReportError
<1>8. CASE MainStops BY <1>8 DEF MainStops
<1>9. ASSUME NEW e \in Event, MainTakeEvent(e) PROVE TCPTypeOK'
  BY <1>9 DEF MainTakeEvent, TakeEvent
<1>10. ASSUME NEW e \in Event, Report(e) PROVE TCPTypeOK'
  <2>1. reported' \in [Event -> Nat] BY <1>10 DEF Report
  <2>2. main' \in {"done", "select"} /\ held' = {} BY <1>10 DEF Report
  <2>3. UNCHANGED <<trackerVars, throttled, ticking, pipe, written, wire, recv, recvPort>>
    BY <1>10 DEF Report
  <2> QED BY <2>1, <2>2, <2>3
<1>11. CASE RecvMarkReceived
  <2>1. CASE MarkReceived(recvPort)
    <3>1. recvPort \in Ports /\ store[recvPort] \in Seqs
      BY <1>11, <2>1 DEF RecvMarkReceived, MarkReceived
    <3>2. emitting' \subseteq Event /\ receivedC' \subseteq Seqs
      <4> DEFINE t == store[recvPort]
      <4>1. /\ emitting' = {<<t, "received">>}
            /\ receivedC' = receivedC \cup {t}
        BY <2>1 DEF MarkReceived
      <4>2. t \in Seqs /\ receivedC \subseteq Seqs BY <3>1
      <4> HIDE DEF t
      <4> QED BY ONLY <4>1, <4>2 DEF Event
    <3>3. store' \in [Ports -> Seqs \cup {None}] BY <2>1 DEF MarkReceived
    <3>4. UNCHANGED <<counter, port, guard, alive, ctxDone>> /\ recvPort' = None
          /\ UNCHANGED <<throttled, ticking, pipe, main, held, written, wire, recv, reported>>
      BY <1>11, <2>1 DEF RecvMarkReceived, MarkReceived
    <3> QED BY <3>2, <3>3, <3>4
  <2>2. CASE UNCHANGED trackerVars BY <1>11, <2>2 DEF RecvMarkReceived
  <2> QED BY <1>11, <2>1, <2>2 DEF RecvMarkReceived
<1>12. CASE RecvStops BY <1>12 DEF RecvStops
<1>13. ASSUME NEW s \in Seqs, ReceivePacket(s) PROVE TCPTypeOK'
  BY <1>13 DEF ReceivePacket
<1>14. CASE HoldTick BY <1>14 DEF HoldTick
<1>15. CASE Tracker
  <2> USE DEF pingerVars
  <2>1. CASE OwnerExit BY <1>15, <2>1 DEF Tracker, OwnerExit
  <2>2. ASSUME NEW s \in Seqs, TimerFires(s) PROVE TCPTypeOK'
    BY <1>15, <2>2 DEF Tracker, TimerFires
  <2>3. ASSUME NEW s \in Seqs, SendReset(s) PROVE TCPTypeOK'
    BY <1>15, <2>3 DEF Tracker, SendReset
  <2>4. ASSUME NEW s \in Seqs, HandleTimeout(s) PROVE TCPTypeOK'
    <3>1. emitting' \subseteq Event
      <4> DEFINE t == store[port[s]]
      <4>1. CASE t = None BY <2>4, <4>1 DEF HandleTimeout
      <4>2. CASE t # None /\ port[s] \in Ports
        <5>1. t \in Seqs BY <4>2
        <5> HIDE DEF t
        <5>2. emitting' = {<<t, "timeout">>} BY <2>4, <4>2 DEF HandleTimeout, t
        <5> QED BY <5>1, <5>2 DEF Event
      <4> QED BY <2>4, <4>1, <4>2, port[s] \in Ports DEF HandleTimeout
    <3>2. store' \in [Ports -> Seqs \cup {None}] /\ guard' \in [Seqs -> GuardStates]
      BY <2>4 DEF HandleTimeout
    <3> QED BY <1>15, <2>4, <3>1, <3>2 DEF Tracker, HandleTimeout
  <2>5. ASSUME NEW s \in Seqs, HandleTimeoutLate(s) PROVE TCPTypeOK'
    BY <1>15, <2>5 DEF Tracker, HandleTimeoutLate
  <2> QED BY <1>15, <2>1, <2>2, <2>3, <2>4, <2>5 DEF Tracker, TrackerStep
<1>16. CASE Cancel BY <1>16 DEF Cancel, CancelCtx, pingerVars
<1>17. CASE UNCHANGED allVars BY <1>17 DEF allVars, pingerVars
<1> QED
  BY <1>1, <1>2, <1>3, <1>4, <1>5, <1>6, <1>7, <1>8, <1>9, <1>10, <1>11, <1>12, <1>13,
     <1>14, <1>15, <1>16, <1>17 DEF Next, Main, Receiver

LEMMA SendStep == TCPTypeOK /\ SendInProgress /\ [Next]_allVars => SendInProgress'
<1> SUFFICES ASSUME TCPTypeOK, SendInProgress, [Next]_allVars PROVE SendInProgress'
  OBVIOUS
<1> USE TCPTrackerConstants DEF SendInProgress, Current, MainGoes, trackerVars
<1>1. CASE TakeTick BY <1>1 DEF TakeTick
<1>2. CASE WriteFails BY <1>2 DEF WriteFails
<1>3. CASE MainMarkSent
  <2>1. counter \in Seqs /\ counter' - 1 = counter /\ guard'[counter] = "marked"
    BY <1>3 DEF MainMarkSent, MarkSent, TCPTypeOK, TrackerTypeOK
  <2> QED BY <2>1
<1>4. CASE SendUntracked BY <1>4 DEF SendUntracked
<1>5. CASE Write BY <1>5 DEF Write
<1>6. CASE Arm BY <1>6 DEF Arm
<1>7. CASE ReportError BY <1>7 DEF ReportError
<1>8. CASE MainStops BY <1>8 DEF MainStops
<1>9. ASSUME NEW e \in Event, MainTakeEvent(e) PROVE SendInProgress'
  BY <1>9 DEF MainTakeEvent
<1>10. ASSUME NEW e \in Event, Report(e) PROVE SendInProgress'
  BY <1>10 DEF Report
<1>11. CASE RecvMarkReceived BY <1>11 DEF RecvMarkReceived, MarkReceived
<1>12. CASE RecvStops BY <1>12 DEF RecvStops
<1>13. ASSUME NEW s \in Seqs, ReceivePacket(s) PROVE SendInProgress'
  BY <1>13 DEF ReceivePacket
<1>14. CASE HoldTick BY <1>14 DEF HoldTick
<1>15. CASE Tracker
  <2> USE DEF pingerVars
  <2>1. CASE OwnerExit BY <1>15, <2>1 DEF Tracker, OwnerExit
  <2>2. ASSUME NEW s \in Seqs,
               TimerFires(s) \/ SendReset(s) \/ HandleTimeout(s) \/ HandleTimeoutLate(s)
        PROVE  SendInProgress'
    <3>1. counter' = counter /\ main' = main
      BY <1>15, <2>2 DEF Tracker, TimerFires, SendReset, HandleTimeout, HandleTimeoutLate
    <3>2. guard[s] # "marked" /\ \A r \in Seqs \ {s} : guard'[r] = guard[r]
      BY <2>2 DEF TimerFires, SendReset, HandleTimeout, HandleTimeoutLate, TCPTypeOK,
         TrackerTypeOK
    <3> QED BY <3>1, <3>2
  <2> QED BY <1>15, <2>1, <2>2 DEF Tracker, TrackerStep
<1>16. CASE Cancel BY <1>16 DEF Cancel, CancelCtx, pingerVars
<1>17. CASE UNCHANGED allVars BY <1>17 DEF allVars, pingerVars
<1> QED
  BY <1>1, <1>2, <1>3, <1>4, <1>5, <1>6, <1>7, <1>8, <1>9, <1>10, <1>11, <1>12, <1>13,
     <1>14, <1>15, <1>16, <1>17 DEF Next, Main, Receiver

\* The variables keep their types, throttleTicker its number of goroutines.
THEOREM TCPTypeCorrect == Spec => []TCPTypeOK
<1>1. Init => SendInProgress BY DEF Init, SendInProgress
<1> QED BY <1>1, TypeInit, TypeStep, SendStep, PTL DEF Spec

-----------------------------------------------------------------------------
(* Steps by what they do to the entries and the events.                    *)

\* Nothing; and while a packet may be marked without a guard, main stays.
Quiet ==
  /\ UNCHANGED <<store, counter, port, guard, receivedC, emitting, held, reported>>
  /\ main' # main => main # "report" /\ main' # "report"
  /\ main \in {"write", "arm", "failing", "await"} =>
       main' \in {"write", "arm", "failing", "await"}
  /\ alive' => alive

\* An entry is deleted and an event about its packet sent.
Emits(p, kind) ==
  /\ store[p] # None
  /\ emitting = {}
  /\ emitting' = {<<store[p], kind>>}
  /\ store' = [store EXCEPT ![p] = None]
  /\ UNCHANGED <<counter, port, main, held, reported, alive>>

Answers(p) ==
  /\ Emits(p, "received")
  /\ receivedC' = receivedC \cup {store[p]}
  /\ UNCHANGED guard

\* A guard goes on by itself: the timer fires, the RST is sent, or the
\* tracker is closed by the time of the timeout.
GuardMoves(s) ==
  /\ \/ guard[s] = "armed" /\ guard' = [guard EXCEPT ![s] = "expired"]
     \/ /\ guard[s] = "armed" /\ s \in receivedC
        /\ guard' = [guard EXCEPT ![s] = "done"]
     \/ /\ guard[s] = "expired" /\ ~alive
        /\ guard' = [guard EXCEPT ![s] = "done"]
  /\ UNCHANGED <<store, counter, port, receivedC, emitting, main, held, reported, alive>>

LEMMA StepKinds ==
  ASSUME TCPTypeOK, [Next]_allVars
  PROVE  \/ Quiet
         \/ MainMarkSent
         \/ Arm
         \/ \E e \in Event : MainTakeEvent(e) \/ Report(e)
         \/ \E p \in Ports : Answers(p)
         \/ \E s \in Seqs : GuardMoves(s)
         \/ \E s \in Seqs : HandleTimeout(s) /\ UNCHANGED pingerVars
<1> USE DEF MainGoes, trackerVars
<1>1. CASE TakeTick BY <1>1 DEF TakeTick, Quiet
<1>2. CASE WriteFails BY <1>2 DEF WriteFails, Quiet
<1>4. CASE SendUntracked BY <1>4 DEF SendUntracked, Quiet
<1>5. CASE Write BY <1>5 DEF Write, Quiet
<1>7. CASE ReportError BY <1>7 DEF ReportError, Quiet
<1>8. CASE MainStops BY <1>8 DEF MainStops, Quiet
<1>11. CASE RecvMarkReceived
  <2>1. CASE MarkReceived(recvPort)
    <3>1. recvPort \in Ports BY <1>11 DEF RecvMarkReceived, TCPTypeOK
    <3>2. Answers(recvPort)
      BY <1>11, <2>1 DEF RecvMarkReceived, MarkReceived, Answers, Emits, AtSelect
    <3> QED BY <3>1, <3>2
  <2>2. CASE UNCHANGED trackerVars BY <1>11, <2>2 DEF RecvMarkReceived, Quiet
  <2> QED BY <1>11, <2>1, <2>2 DEF RecvMarkReceived
<1>12. CASE RecvStops BY <1>12 DEF RecvStops, Quiet
<1>13. ASSUME NEW s \in Seqs, ReceivePacket(s) PROVE Quiet
  BY <1>13 DEF ReceivePacket, Quiet
<1>14. CASE HoldTick BY <1>14 DEF HoldTick, Quiet
<1>15. CASE Tracker
  <2> USE DEF pingerVars
  <2>1. CASE OwnerExit BY <1>15, <2>1 DEF Tracker, OwnerExit, Quiet
  <2>2. ASSUME NEW s \in Seqs, TimerFires(s) \/ SendReset(s) \/ HandleTimeoutLate(s)
        PROVE  GuardMoves(s)
    BY <1>15, <2>2 DEF Tracker, TimerFires, SendReset, HandleTimeoutLate, GuardMoves
  <2> QED BY <1>15, <2>1, <2>2 DEF Tracker, TrackerStep
<1>16. CASE Cancel BY <1>16 DEF Cancel, CancelCtx, pingerVars, Quiet
<1>17. CASE UNCHANGED allVars BY <1>17 DEF allVars, pingerVars, Quiet
<1> QED
  BY <1>1, <1>2, <1>4, <1>5, <1>7, <1>8, <1>11, <1>12, <1>13, <1>14, <1>15, <1>16, <1>17
     DEF Next, Main, Receiver

-----------------------------------------------------------------------------
(* One verdict per packet.                                                 *)

Unreported(s) == ~Reported(<<s, "received">>) /\ ~Reported(<<s, "timeout">>)

\* A packet in the store is under its own port, and has no reply and no event.
StoredIsOpen ==
  \A p \in Ports, s \in Seqs : store[p] = s =>
    port[s] = p /\ s \notin receivedC /\ Unreported(s)

\* Replies and events are of packets that were marked, no event is in two
\* places, and the main goroutine holds one only to report it.
EventsArePlaced ==
  /\ \A s \in Seqs : counter <= s => guard[s] = "none"
  /\ \A s \in receivedC : guard[s] # "none"
  /\ \A s \in Seqs : guard[s] = "none" => Unreported(s)
  /\ emitting \cap held = {}
  /\ held # {} => main = "report"

VerdictInv == StoredIsOpen /\ EventsArePlaced /\ OneVerdict

LEMMA EmitOnce ==
  ASSUME TCPTypeOK, VerdictInv, NEW p \in Ports, NEW kind \in {"received", "timeout"},
         Emits(p, kind)
  PROVE  /\ OneVerdict'
         /\ emitting' \cap held' = {}
         /\ \A s \in Seqs \ {store[p]} : Unreported(s)' <=> Unreported(s)
         /\ guard[store[p]] # "none" /\ store[p] \in Seqs
<1>0. PICK t \in Seqs : t = store[p] BY DEF Emits, TCPTypeOK, TrackerTypeOK
<1>1. Unreported(t) /\ port[t] = p /\ p # None
  BY <1>0, TCPTrackerConstants DEF Emits, VerdictInv, StoredIsOpen
<1>2. emitting = {} /\ emitting' = {<<t, kind>>} /\ held' = held /\ reported' = reported
  BY <1>0 DEF Emits
<1>3. guard[t] # "none" BY <1>1 DEF TCPTypeOK, TrackerTypeOK
<1>4. /\ <<t, "received">> \notin held /\ <<t, "timeout">> \notin held
      /\ ~(reported[<<t, "received">>] > 0) /\ ~(reported[<<t, "timeout">>] > 0)
  BY <1>1 DEF Unreported, Reported, OnItsWay
<1>5. reported[<<t, "received">>] = 0 /\ reported[<<t, "timeout">>] = 0
  <2>1. reported[<<t, "received">>] \in Nat /\ reported[<<t, "timeout">>] \in Nat
    BY <1>1 DEF TCPTypeOK, Event
  <2> QED BY <2>1, <1>4
<1>6. ASSUME NEW s \in Seqs, s # t, NEW k \in {"received", "timeout"}
      PROVE  /\ OnItsWay(<<s, k>>)' <=> OnItsWay(<<s, k>>)
             /\ reported'[<<s, k>>] = reported[<<s, k>>]
  BY <1>2, <1>6 DEF OnItsWay
<1>7. OneVerdict'
  <2> SUFFICES ASSUME NEW s \in Seqs
               PROVE  /\ \A e \in {<<s, "received">>, <<s, "timeout">>} :
                           reported'[e] + (IF OnItsWay(e)' THEN 1 ELSE 0) <= 1
                      /\ ~(Reported(<<s, "received">>)' /\ Reported(<<s, "timeout">>)')
    BY DEF OneVerdict
  <2>1. CASE s # t
    <3>1. /\ \A e \in {<<s, "received">>, <<s, "timeout">>} :
               reported[e] + (IF OnItsWay(e) THEN 1 ELSE 0) <= 1
          /\ ~(Reported(<<s, "received">>) /\ Reported(<<s, "timeout">>))
      BY DEF VerdictInv, OneVerdict
    <3>2. ASSUME NEW k \in {"received", "timeout"}
          PROVE  /\ reported'[<<s, k>>] + (IF OnItsWay(<<s, k>>)' THEN 1 ELSE 0) <= 1
                 /\ Reported(<<s, k>>)' <=> Reported(<<s, k>>)
      <4>1. reported[<<s, k>>] + (IF OnItsWay(<<s, k>>) THEN 1 ELSE 0) <= 1
        BY <3>1
      <4>2. OnItsWay(<<s, k>>)' <=> OnItsWay(<<s, k>>) BY <2>1, <1>6
      <4>3. reported'[<<s, k>>] = reported[<<s, k>>] BY <2>1, <1>6
      <4> QED BY <4>1, <4>2, <4>3 DEF Reported
    <3> QED BY <3>1, <3>2
  <2>2. CASE s = t
    <3>1. \A e \in {<<t, "received">>, <<t, "timeout">>} :
            reported'[e] + (IF OnItsWay(e)' THEN 1 ELSE 0) <= 1
      BY <1>2, <1>5
    <3>2. ASSUME NEW k \in {"received", "timeout"}, k # kind
          PROVE  ~Reported(<<t, k>>)'
      <4>1. <<t, k>> \notin emitting' BY <1>2, <3>2
      <4>2. <<t, k>> \notin held' BY <1>2, <1>4
      <4>3. reported'[<<t, k>>] = 0 BY <1>2, <1>5
      <4> QED BY <4>1, <4>2, <4>3 DEF Reported, OnItsWay
    <3>3. ~(Reported(<<t, "received">>)' /\ Reported(<<t, "timeout">>)')
      <4>1. CASE kind = "received" BY <3>2, <4>1
      <4>2. CASE kind = "timeout" BY <3>2, <4>2
      <4> QED BY <4>1, <4>2
    <3> QED BY <2>2, <3>1, <3>3
  <2> QED BY <2>1, <2>2
<1>8. emitting' \cap held' = {} BY <1>2, <1>4
<1>9. \A s \in Seqs \ {t} : Unreported(s)' <=> Unreported(s)
  BY <1>6 DEF Unreported, Reported
<1> QED BY <1>0, <1>3, <1>7, <1>8, <1>9

LEMMA VerdictStep ==
  ASSUME TCPTypeOK, SendInProgress, VerdictInv, [Next]_allVars
  PROVE  VerdictInv'
<1> USE TCPTrackerConstants
<1>1. CASE Quiet
  BY <1>1 DEF Quiet, VerdictInv, StoredIsOpen, EventsArePlaced, OneVerdict, Unreported,
     Reported, OnItsWay
<1>2. CASE MainMarkSent
  <2>1. PICK p \in Ports : MarkSent(p) BY <1>2 DEF MainMarkSent
  <2>2. counter \in Seqs /\ guard[counter] = "none" /\ Unreported(counter)
        /\ counter \notin receivedC /\ counter \in Nat
    BY <2>1 DEF MarkSent, VerdictInv, EventsArePlaced
  <2>3. /\ store' = [store EXCEPT ![p] = counter]
        /\ port' = [port EXCEPT ![counter] = p]
        /\ guard' = [guard EXCEPT ![counter] = "marked"]
        /\ counter' = counter + 1
        /\ UNCHANGED <<receivedC, emitting, held, reported>>
    BY <1>2, <2>1 DEF MainMarkSent, MarkSent
  <2>4. \A s \in Seqs : Unreported(s)' <=> Unreported(s)
    BY <2>3 DEF Unreported, Reported, OnItsWay
  <2>5. StoredIsOpen'
    <3> SUFFICES ASSUME NEW q \in Ports, NEW s \in Seqs, store'[q] = s
                 PROVE  port'[s] = q /\ s \notin receivedC' /\ Unreported(s)'
      BY DEF StoredIsOpen
    <3>1. CASE q = p
      <4>1. s = counter /\ port'[s] = q
        BY <3>1, <2>2, <2>3 DEF TCPTypeOK, TrackerTypeOK
      <4> QED BY <4>1, <2>2, <2>3, <2>4
    <3>2. CASE q # p
      <4>1. store[q] = s BY <3>2, <2>3 DEF TCPTypeOK, TrackerTypeOK
      <4>2. port[s] = q /\ s \notin receivedC /\ Unreported(s)
        BY <4>1 DEF VerdictInv, StoredIsOpen
      <4>3. s # counter BY <4>2, <2>2 DEF TCPTypeOK, TrackerTypeOK
      <4>4. port'[s] = port[s] BY <4>3, <2>3 DEF TCPTypeOK, TrackerTypeOK
      <4> QED BY <4>2, <4>4, <2>3, <2>4
    <3> QED BY <3>1, <3>2
  <2>6. EventsArePlaced'
    <3>1. \A s \in Seqs : guard'[s] = IF s = counter THEN "marked" ELSE guard[s]
      BY <2>3 DEF TCPTypeOK, TrackerTypeOK
    <3>2. \A s \in Seqs : counter' <= s => guard'[s] = "none"
      <4> SUFFICES ASSUME NEW s \in Seqs, counter' <= s PROVE guard'[s] = "none"
        OBVIOUS
      <4>1. s \in Nat /\ counter <= s /\ s # counter BY <2>2, <2>3
      <4> QED BY <4>1, <3>1 DEF VerdictInv, EventsArePlaced
    <3>3. \A s \in receivedC' : guard'[s] # "none"
      BY <2>3, <3>1 DEF VerdictInv, EventsArePlaced, TCPTypeOK, TrackerTypeOK
    <3>4. \A s \in Seqs : guard'[s] = "none" => Unreported(s)'
      BY <2>4, <3>1 DEF VerdictInv, EventsArePlaced
    <3>5. emitting' \cap held' = {} BY <2>3 DEF VerdictInv, EventsArePlaced
    <3>6. held' = {}
      BY <1>2, <2>3 DEF MainMarkSent, MainGoes, VerdictInv, EventsArePlaced
    <3> QED BY <3>2, <3>3, <3>4, <3>5, <3>6 DEF EventsArePlaced
  <2>7. OneVerdict'
    BY <2>3 DEF VerdictInv, OneVerdict, Reported, OnItsWay
  <2> QED BY <2>5, <2>6, <2>7 DEF VerdictInv
<1>3. CASE Arm
  <2>1. /\ guard' = [guard EXCEPT ![Current] = "armed"]
        /\ UNCHANGED <<store, counter, port, receivedC, emitting, held, reported>>
        /\ main = "arm" /\ main' = "select"
    BY <1>3 DEF Arm, MainGoes
  <2>2. Current \in Seqs /\ guard[Current] = "marked" BY <2>1 DEF SendInProgress
  <2>3. \A s \in Seqs : guard'[s] = "none" <=> guard[s] = "none"
    BY <2>1, <2>2 DEF TCPTypeOK, TrackerTypeOK
  <2>4. \A s \in Seqs : Unreported(s)' <=> Unreported(s)
    BY <2>1 DEF Unreported, Reported, OnItsWay
  <2>5. StoredIsOpen' BY <2>1, <2>4 DEF VerdictInv, StoredIsOpen, TCPTypeOK, TrackerTypeOK
  <2>6. EventsArePlaced'
    BY <2>1, <2>3, <2>4 DEF VerdictInv, EventsArePlaced, TCPTypeOK, TrackerTypeOK
  <2>7. OneVerdict' BY <2>1 DEF VerdictInv, OneVerdict, Reported, OnItsWay
  <2> QED BY <2>5, <2>6, <2>7 DEF VerdictInv
<1>4. ASSUME NEW e \in Event, MainTakeEvent(e) \/ Report(e) PROVE VerdictInv'
  <2>1. UNCHANGED <<store, counter, port, guard, receivedC>>
    BY <1>4 DEF MainTakeEvent, Report, TakeEvent, trackerVars
  <2>2. /\ e \in emitting \cup held
        /\ emitting' \cap held' = {}
        /\ held' # {} => main' = "report"
    BY <1>4 DEF MainTakeEvent, Report, TakeEvent, trackerVars, MainGoes
  <2>3. /\ emitting' \cup held' \subseteq emitting \cup held
        /\ \A d \in Event : reported'[d] = reported[d]
              \/ (d = e /\ reported'[d] = reported[d] + 1 /\ d \notin emitting' \cup held')
    <3>1. CASE MainTakeEvent(e) BY <3>1 DEF MainTakeEvent, TakeEvent
    <3>2. CASE Report(e)
      <4>1. /\ held' = {} /\ emitting' = emitting /\ e \in held
            /\ reported' = [reported EXCEPT ![e] = @ + 1]
        BY <3>2 DEF Report, trackerVars
      <4> QED BY <4>1 DEF VerdictInv, EventsArePlaced, TCPTypeOK
    <3> QED BY <1>4, <3>1, <3>2
  <2>4. ASSUME NEW d \in Event PROVE Reported(d)' => Reported(d)
    <3>1. reported[d] \in Nat BY DEF TCPTypeOK
    <3> QED BY <2>2, <2>3, <3>1 DEF Reported, OnItsWay
  <2>5. ASSUME NEW s \in Seqs PROVE Unreported(s) => Unreported(s)'
    <3>1. <<s, "received">> \in Event /\ <<s, "timeout">> \in Event BY DEF Event
    <3> QED BY <2>4, <3>1 DEF Unreported
  <2>6. StoredIsOpen' BY <2>1, <2>5 DEF VerdictInv, StoredIsOpen, TCPTypeOK, TrackerTypeOK
  <2>7. EventsArePlaced' BY <2>1, <2>2, <2>5 DEF VerdictInv, EventsArePlaced
  <2>8. OneVerdict'
    <3> SUFFICES ASSUME NEW s \in Seqs
                 PROVE  /\ \A d \in {<<s, "received">>, <<s, "timeout">>} :
                             reported'[d] + (IF OnItsWay(d)' THEN 1 ELSE 0) <= 1
                        /\ ~(Reported(<<s, "received">>)' /\ Reported(<<s, "timeout">>)')
      BY DEF OneVerdict
    <3>1. <<s, "received">> \in Event /\ <<s, "timeout">> \in Event BY DEF Event
    <3>2. /\ \A d \in {<<s, "received">>, <<s, "timeout">>} :
               reported[d] + (IF OnItsWay(d) THEN 1 ELSE 0) <= 1
          /\ ~(Reported(<<s, "received">>) /\ Reported(<<s, "timeout">>))
      BY DEF VerdictInv, OneVerdict
    <3>3. ASSUME NEW d \in {<<s, "received">>, <<s, "timeout">>}
          PROVE  reported'[d] + (IF OnItsWay(d)' THEN 1 ELSE 0) <= 1
      <4>1. d \in Event /\ reported[d] \in Nat BY <3>1 DEF TCPTypeOK
      <4>2. reported[d] + (IF OnItsWay(d) THEN 1 ELSE 0) <= 1 BY <3>2
      <4>3. OnItsWay(d)' => OnItsWay(d) BY <2>3 DEF OnItsWay
      <4>4. CASE reported'[d] = reported[d] BY <4>1, <4>2, <4>3, <4>4
      <4>5. CASE d = e /\ reported'[d] = reported[d] + 1 /\ d \notin emitting' \cup held'
        <5>1. OnItsWay(d) BY <4>5, <2>2 DEF OnItsWay
        <5>2. ~OnItsWay(d)' BY <4>5 DEF OnItsWay
        <5> QED BY <4>1, <4>2, <4>5, <5>1, <5>2
      <4> QED BY <2>3, <4>1, <4>4, <4>5
    <3> QED BY <3>1, <3>2, <3>3, <2>4
  <2> QED BY <2>6, <2>7, <2>8 DEF VerdictInv
<1>5. ASSUME NEW p \in Ports, Answers(p) PROVE VerdictInv'
  <2>1. Emits(p, "received") BY <1>5 DEF Answers
  <2>2. /\ OneVerdict' /\ emitting' \cap held' = {}
        /\ \A s \in Seqs \ {store[p]} : Unreported(s)' <=> Unreported(s)
        /\ guard[store[p]] # "none" /\ store[p] \in Seqs
    BY <2>1, EmitOnce
  <2>3. StoredIsOpen'
    <3> SUFFICES ASSUME NEW q \in Ports, NEW s \in Seqs, store'[q] = s
                 PROVE  port'[s] = q /\ s \notin receivedC' /\ Unreported(s)'
      BY DEF StoredIsOpen
    <3>1. q # p /\ store[q] = s
      BY <2>1, TCPTrackerConstants DEF Emits, TCPTypeOK, TrackerTypeOK
    <3>2. port[s] = q /\ s \notin receivedC /\ Unreported(s) /\ port[store[p]] = p
      BY <2>1, <2>2, <3>1 DEF VerdictInv, StoredIsOpen
    <3> QED BY <1>5, <2>1, <2>2, <3>1, <3>2 DEF Answers, Emits
  <2>4. EventsArePlaced'
    BY <1>5, <2>1, <2>2 DEF Answers, Emits, VerdictInv, EventsArePlaced
  <2> QED BY <2>2, <2>3, <2>4 DEF VerdictInv
<1>6. ASSUME NEW s \in Seqs, GuardMoves(s) PROVE VerdictInv'
  <2>1. \A r \in Seqs : guard'[r] = "none" <=> guard[r] = "none"
    BY <1>6 DEF GuardMoves, TCPTypeOK, TrackerTypeOK
  <2>2. UNCHANGED <<store, counter, port, receivedC, emitting, main, held, reported>>
    BY <1>6 DEF GuardMoves
  <2>3. \A r \in Seqs : Unreported(r)' <=> Unreported(r)
    BY <2>2 DEF Unreported, Reported, OnItsWay
  <2>4. StoredIsOpen' BY <2>2, <2>3 DEF VerdictInv, StoredIsOpen, TCPTypeOK, TrackerTypeOK
  <2>5. EventsArePlaced'
    BY <2>1, <2>2, <2>3 DEF VerdictInv, EventsArePlaced, TCPTypeOK, TrackerTypeOK
  <2>6. OneVerdict' BY <2>2 DEF VerdictInv, OneVerdict, Reported, OnItsWay
  <2> QED BY <2>4, <2>5, <2>6 DEF VerdictInv
<1>7. ASSUME NEW s \in Seqs, HandleTimeout(s), UNCHANGED pingerVars PROVE VerdictInv'
  <2> DEFINE p == port[s]
  <2>1. p \in Ports /\ guard[s] = "expired" /\ guard' = [guard EXCEPT ![s] = "done"]
        /\ emitting = {}
    BY <1>7 DEF HandleTimeout, AtSelect, TCPTypeOK, TrackerTypeOK
  <2>2. \A r \in Seqs : guard'[r] = "none" <=> guard[r] = "none"
    BY <2>1 DEF TCPTypeOK, TrackerTypeOK
  <2>3. /\ store' = [store EXCEPT ![p] = None]
        /\ UNCHANGED <<counter, port, receivedC, main, held, reported, alive>>
        /\ emitting' = IF store[p] = None THEN {} ELSE {<<store[p], "timeout">>}
    BY <1>7 DEF HandleTimeout, pingerVars
  <2> HIDE DEF p
  <2>4. CASE store[p] = None
    <3>1. \A r \in Seqs : Unreported(r)' <=> Unreported(r)
      BY <2>1, <2>3, <2>4 DEF Unreported, Reported, OnItsWay
    <3>2. store' = store BY <2>1, <2>3, <2>4 DEF TCPTypeOK, TrackerTypeOK
    <3>3. StoredIsOpen'
      BY <2>3, <3>1, <3>2 DEF VerdictInv, StoredIsOpen, TCPTypeOK, TrackerTypeOK
    <3>4. EventsArePlaced'
      BY <2>2, <2>3, <2>4, <3>1 DEF VerdictInv, EventsArePlaced, TCPTypeOK, TrackerTypeOK
    <3>5. OneVerdict'
      BY <2>1, <2>3, <2>4 DEF VerdictInv, OneVerdict, Reported, OnItsWay
    <3> QED BY <3>3, <3>4, <3>5 DEF VerdictInv
  <2>5. CASE store[p] # None
    <3>1. Emits(p, "timeout") BY <2>1, <2>3, <2>5 DEF Emits
    <3>2. /\ OneVerdict' /\ emitting' \cap held' = {}
          /\ \A r \in Seqs \ {store[p]} : Unreported(r)' <=> Unreported(r)
          /\ guard[store[p]] # "none" /\ store[p] \in Seqs
      BY <2>1, <3>1, EmitOnce
    <3>3. StoredIsOpen'
      <4> SUFFICES ASSUME NEW q \in Ports, NEW r \in Seqs, store'[q] = r
                   PROVE  port'[r] = q /\ r \notin receivedC' /\ Unreported(r)'
        BY DEF StoredIsOpen
      <4>1. q # p /\ store[q] = r
        BY <2>1, <2>3 DEF TCPTypeOK, TrackerTypeOK
      <4>2. port[r] = q /\ r \notin receivedC /\ Unreported(r) /\ port[store[p]] = p
        BY <2>1, <3>2, <4>1 DEF VerdictInv, StoredIsOpen
      <4> QED BY <2>3, <3>2, <4>1, <4>2
    <3>4. EventsArePlaced'
      BY <2>2, <2>3, <3>2 DEF VerdictInv, EventsArePlaced, TCPTypeOK, TrackerTypeOK
    <3> QED BY <3>2, <3>3, <3>4 DEF VerdictInv
  <2> QED BY <2>4, <2>5
<1> QED BY StepKinds, <1>1, <1>2, <1>3, <1>4, <1>5, <1>6, <1>7

LEMMA VerdictInit == Init => VerdictInv
<1> SUFFICES ASSUME Init PROVE VerdictInv
  OBVIOUS
<1> USE DEF Init, TrackerInit
<1>1. \A e \in Event : ~Reported(e) /\ reported[e] = 0 /\ ~OnItsWay(e)
  BY DEF Reported, OnItsWay
<1>2. \A s \in Seqs : <<s, "received">> \in Event /\ <<s, "timeout">> \in Event
  BY DEF Event
<1>3. OneVerdict
  <2>1. ASSUME NEW e \in Event PROVE reported[e] + (IF OnItsWay(e) THEN 1 ELSE 0) <= 1
    BY <1>1
  <2> QED BY <1>1, <1>2, <2>1 DEF OneVerdict
<1>4. StoredIsOpen BY TCPTrackerConstants DEF StoredIsOpen
<1>5. EventsArePlaced BY <1>1, <1>2 DEF EventsArePlaced, Unreported
<1> QED BY <1>3, <1>4, <1>5 DEF VerdictInv

\* No packet is reported twice, or both lost and answered: neither the race of
\* timer and reply nor the reuse of a port breaks it.
THEOREM TCPOneVerdict == Spec => []OneVerdict
<1>1. Init => SendInProgress BY DEF Init, SendInProgress
<1>2. VerdictInv => OneVerdict BY DEF VerdictInv
<1> QED
  BY <1>1, <1>2, VerdictInit, TypeInit, TypeStep, SendStep, VerdictStep, PTL DEF Spec

-----------------------------------------------------------------------------
(* Entries expire when they are due.                                       *)

\* Of the packets a port was given to, the store has the last one.
NewestStored ==
  \A p \in Ports, s \in Seqs : store[p] = s => \A r \in Seqs : port[r] = p => r <= s

DueInv == EntryExpires /\ LossIsDue /\ NewestStored

Due(s) ==
  \/ guard[s] \in {"expired", "done"}
  \/ \E r \in Seqs : r < s /\ port[r] = port[s]

\* A loss stays due: guards do not go back, and a packet keeps its port.
LEMMA LossStaysDue ==
  ASSUME TCPTypeOK, EventsArePlaced, LossIsDue,
         \A s \in Seqs : Reported(<<s, "timeout">>)' => Reported(<<s, "timeout">>) \/ Due(s)',
         \A s \in Seqs : guard[s] \in {"expired", "done"} => guard'[s] \in {"expired", "done"},
         \A s \in Seqs : port[s] # None => port'[s] = port[s]
  PROVE  LossIsDue'
<1> SUFFICES ASSUME NEW s \in Seqs, Reported(<<s, "timeout">>) PROVE Due(s)'
  BY DEF LossIsDue, Due
<1>1. port[s] # None
  BY DEF EventsArePlaced, Unreported, TCPTypeOK, TrackerTypeOK
<1>2. Due(s) BY DEF LossIsDue, Due
<1> QED BY <1>1, <1>2 DEF Due

LEMMA NewestStep ==
  ASSUME TCPTypeOK, VerdictInv, NewestStored, [Next]_allVars
  PROVE  NewestStored'
<1> USE TCPTrackerConstants
<1>1. CASE MainMarkSent
  <2>1. PICK p \in Ports : MarkSent(p) BY <1>1 DEF MainMarkSent
  <2>2. /\ counter \in Seqs
        /\ store' = [store EXCEPT ![p] = counter]
        /\ port' = [port EXCEPT ![counter] = p]
    BY <2>1 DEF MarkSent
  <2>3. \A r \in Seqs : port[r] # None => r < counter
    <3> SUFFICES ASSUME NEW r \in Seqs, ~(r < counter) PROVE port[r] = None
      OBVIOUS
    <3>1. counter <= r BY <2>2
    <3> QED BY <3>1 DEF VerdictInv, EventsArePlaced, TCPTypeOK, TrackerTypeOK
  <2> SUFFICES ASSUME NEW q \in Ports, NEW s \in Seqs, store'[q] = s,
                      NEW r \in Seqs, port'[r] = q
               PROVE  r <= s
    BY DEF NewestStored
  <2>4. q # None OBVIOUS
  <2>5. CASE q = p
    <3>1. s = counter BY <2>2, <2>5 DEF TCPTypeOK, TrackerTypeOK
    <3>2. r = counter \/ port[r] # None BY <2>2, <2>4 DEF TCPTypeOK, TrackerTypeOK
    <3> QED BY <3>1, <3>2, <2>3
  <2>6. CASE q # p
    <3>1. store[q] = s /\ port[r] = q BY <2>2, <2>6 DEF TCPTypeOK, TrackerTypeOK
    <3> QED BY <3>1 DEF NewestStored
  <2> QED BY <2>5, <2>6
<1>2. ASSUME port' = port, \A p \in Ports : store'[p] \in {store[p], None}
      PROVE  NewestStored'
  BY <1>2 DEF NewestStored
<1>3. CASE Quiet BY <1>2, <1>3 DEF Quiet
<1>4. CASE Arm BY <1>2, <1>4 DEF Arm
<1>5. ASSUME NEW e \in Event, MainTakeEvent(e) \/ Report(e) PROVE NewestStored'
  BY <1>2, <1>5 DEF MainTakeEvent, Report, TakeEvent, trackerVars
<1>6. ASSUME NEW p \in Ports, Answers(p) PROVE NewestStored'
  BY <1>2, <1>6 DEF Answers, Emits, TCPTypeOK, TrackerTypeOK
<1>7. ASSUME NEW s \in Seqs, GuardMoves(s) PROVE NewestStored'
  BY <1>2, <1>7 DEF GuardMoves
<1>8. ASSUME NEW s \in Seqs, HandleTimeout(s) PROVE NewestStored'
  BY <1>2, <1>8 DEF HandleTimeout, TCPTypeOK, TrackerTypeOK
<1> QED BY StepKinds, <1>1, <1>3, <1>4, <1>5, <1>6, <1>7, <1>8

\* An entry is watched: by a guard, or by Send, which is not through with it.
Watched(s) ==
  \/ guard[s] \in {"armed", "expired"}
  \/ guard[s] = "marked" /\ s = Current /\ main \in {"write", "arm", "failing", "await"}

LEMMA ExpireStep ==
  ASSUME TCPTypeOK, SendInProgress, VerdictInv, EntryExpires, [Next]_allVars
  PROVE  EntryExpires'
<1> USE TCPTrackerConstants
<1>1. ASSUME alive, NEW p \in Ports, NEW s \in Seqs, store[p] = s
      PROVE  Watched(s) /\ port[s] = p /\ s \notin receivedC
  <2>1. s # None OBVIOUS
  <2> QED BY <1>1, <2>1 DEF EntryExpires, Watched, VerdictInv, StoredIsOpen
<1> SUFFICES ASSUME alive', NEW p \in Ports, NEW s \in Seqs, store'[p] = s
             PROVE  Watched(s)' /\ port'[s] = p
  <2>1. store' \in [Ports -> Seqs \cup {None}]
    BY TypeStep DEF TCPTypeOK, TrackerTypeOK
  <2> SUFFICES ASSUME alive', NEW p \in Ports, store'[p] # None
               PROVE  Watched(store[p])' /\ port'[store'[p]] = p
    BY DEF EntryExpires, Watched
  <2>2. PICK s \in Seqs : s = store'[p] BY <2>1
  <2> QED BY <2>2 DEF Watched
<1>2. s # None OBVIOUS
<1>3. CASE Quiet
  BY <1>1, <1>3 DEF Quiet, Watched, Current
<1>4. CASE MainMarkSent
  <2>1. PICK q \in Ports : MarkSent(q) BY <1>4 DEF MainMarkSent
  <2>2. /\ alive
        /\ counter \in Seqs
        /\ store' = [store EXCEPT ![q] = counter]
        /\ port' = [port EXCEPT ![counter] = q]
        /\ guard' = [guard EXCEPT ![counter] = "marked"]
        /\ counter' = counter + 1
    BY <2>1 DEF MarkSent, AtSelect
  <2>3. main = "send" /\ main' = "write" BY <1>4 DEF MainMarkSent, MainGoes
  <2>4. CASE p = q
    <3>1. s = counter /\ port'[s] = p /\ guard'[s] = "marked"
      BY <2>2, <2>4 DEF TCPTypeOK, TrackerTypeOK
    <3>2. s = Current' BY <2>2, <3>1 DEF Current, TCPTypeOK, TrackerTypeOK
    <3> QED BY <2>3, <3>1, <3>2 DEF Watched
  <2>5. CASE p # q
    <3>1. store[p] = s BY <2>2, <2>5 DEF TCPTypeOK, TrackerTypeOK
    <3>2. guard[s] \in {"armed", "expired"} /\ port[s] = p
      BY <1>1, <2>2, <2>3, <3>1 DEF Watched
    <3>3. guard[counter] = "none"
      BY <2>2 DEF VerdictInv, EventsArePlaced
    <3>4. s # counter BY <3>2, <3>3
    <3> QED BY <2>2, <3>2, <3>4 DEF Watched, TCPTypeOK, TrackerTypeOK
  <2> QED BY <2>4, <2>5
<1>5. CASE Arm
  <2>1. /\ guard' = [guard EXCEPT ![Current] = "armed"]
        /\ UNCHANGED <<store, counter, port, alive>>
    BY <1>5 DEF Arm
  <2>2. Watched(s) /\ port[s] = p BY <1>1, <2>1
  <2> QED BY <2>1, <2>2 DEF Watched, TCPTypeOK, TrackerTypeOK
<1>6. ASSUME NEW e \in Event, MainTakeEvent(e) \/ Report(e)
      PROVE  Watched(s)' /\ port'[s] = p
  <2>1. UNCHANGED <<store, port, guard, alive>> /\ main \in {"select", "report"}
    BY <1>6 DEF MainTakeEvent, Report, TakeEvent, trackerVars, MainGoes
  <2> QED BY <1>1, <2>1 DEF Watched
<1>7. ASSUME NEW q \in Ports, Answers(q) PROVE Watched(s)' /\ port'[s] = p
  <2>1. /\ store' = [store EXCEPT ![q] = None]
        /\ UNCHANGED <<counter, port, guard, main, alive>>
    BY <1>7 DEF Answers, Emits
  <2>2. store[p] = s BY <1>2, <2>1 DEF TCPTypeOK, TrackerTypeOK
  <2> QED BY <1>1, <2>1, <2>2 DEF Watched, Current
<1>8. ASSUME NEW r \in Seqs, GuardMoves(r) PROVE Watched(s)' /\ port'[s] = p
  <2>1. UNCHANGED <<store, counter, port, main, alive>> BY <1>8 DEF GuardMoves
  <2>2. Watched(s) /\ port[s] = p /\ s \notin receivedC BY <1>1, <2>1
  <2>3. CASE r = s
    BY <1>8, <2>1, <2>2, <2>3 DEF GuardMoves, Watched, Current, TCPTypeOK, TrackerTypeOK
  <2>4. CASE r # s
    <3>1. guard'[s] = guard[s]
      BY <1>8, <2>4 DEF GuardMoves, TCPTypeOK, TrackerTypeOK
    <3> QED BY <2>1, <2>2, <3>1 DEF Watched, Current
  <2> QED BY <2>3, <2>4
<1>9. ASSUME NEW r \in Seqs, HandleTimeout(r), UNCHANGED pingerVars
      PROVE  Watched(s)' /\ port'[s] = p
  <2>1. /\ store' = [store EXCEPT ![port[r]] = None]
        /\ guard' = [guard EXCEPT ![r] = "done"]
        /\ UNCHANGED <<counter, port, main, alive>>
    BY <1>9 DEF HandleTimeout, pingerVars
  <2>2. store[p] = s /\ p # port[r] BY <1>2, <2>1 DEF TCPTypeOK, TrackerTypeOK
  <2>3. Watched(s) /\ port[s] = p BY <1>1, <2>1, <2>2
  <2>4. guard'[s] = guard[s] BY <2>1, <2>2, <2>3
  <2> QED BY <2>1, <2>3, <2>4 DEF Watched, Current
<1> QED BY StepKinds, <1>3, <1>4, <1>5, <1>6, <1>7, <1>8, <1>9

LEMMA LossStep ==
  ASSUME TCPTypeOK, SendInProgress, VerdictInv, DueInv, [Next]_allVars
  PROVE  LossIsDue'
<1> USE TCPTrackerConstants DEF VerdictInv, DueInv
<1>1. ASSUME UNCHANGED <<port, guard>>,
             \A s \in Seqs : Reported(<<s, "timeout">>)' => Reported(<<s, "timeout">>)
      PROVE  LossIsDue'
  BY <1>1, LossStaysDue
<1>2. CASE Quiet
  <2>1. UNCHANGED <<port, guard, emitting, held, reported>> BY <1>2 DEF Quiet
  <2> QED BY <1>1, <2>1 DEF Reported, OnItsWay
<1>3. CASE MainMarkSent
  <2>1. PICK p \in Ports : MarkSent(p) BY <1>3 DEF MainMarkSent
  <2>2. /\ counter \in Seqs
        /\ port' = [port EXCEPT ![counter] = p]
        /\ guard' = [guard EXCEPT ![counter] = "marked"]
        /\ UNCHANGED <<emitting, held, reported>>
    BY <1>3, <2>1 DEF MainMarkSent, MarkSent
  <2>3. guard[counter] = "none" /\ port[counter] = None
    <3>1. counter <= counter BY <2>2
    <3> QED BY <2>2, <3>1 DEF EventsArePlaced, TCPTypeOK, TrackerTypeOK
  <2>4. \A s \in Seqs : guard[s] \in {"expired", "done"} => guard'[s] \in {"expired", "done"}
    BY <2>2, <2>3 DEF TCPTypeOK, TrackerTypeOK
  <2>5. \A s \in Seqs : port[s] # None => port'[s] = port[s]
    BY <2>2, <2>3 DEF TCPTypeOK, TrackerTypeOK
  <2>6. \A s \in Seqs : Reported(<<s, "timeout">>)' => Reported(<<s, "timeout">>)
    BY <2>2 DEF Reported, OnItsWay
  <2> QED BY <2>4, <2>5, <2>6, LossStaysDue
<1>4. ASSUME NEW r \in Seqs, guard[r] \notin {"expired", "done"} \/ guard'[r] = "done",
             \A s \in Seqs \ {r} : guard'[s] = guard[s],
             port' = port,
             \A s \in Seqs : Reported(<<s, "timeout">>)' =>
                               Reported(<<s, "timeout">>) \/ Due(s)'
      PROVE  LossIsDue'
  <2>1. \A s \in Seqs : guard[s] \in {"expired", "done"} => guard'[s] \in {"expired", "done"}
    BY <1>4
  <2> QED BY <1>4, <2>1, LossStaysDue
<1>5. CASE Arm
  <2>1. /\ guard' = [guard EXCEPT ![Current] = "armed"]
        /\ UNCHANGED <<port, emitting, held, reported>>
        /\ Current \in Seqs /\ guard[Current] = "marked"
    BY <1>5 DEF Arm, MainGoes, SendInProgress
  <2>2. \A s \in Seqs : Reported(<<s, "timeout">>)' => Reported(<<s, "timeout">>)
    BY <2>1 DEF Reported, OnItsWay
  <2>3. \A s \in Seqs : guard[s] \in {"expired", "done"} => guard'[s] \in {"expired", "done"}
    BY <2>1
  <2> QED BY <2>1, <2>2, <2>3, LossStaysDue
<1>6. ASSUME NEW e \in Event, MainTakeEvent(e) \/ Report(e) PROVE LossIsDue'
  <2>1. UNCHANGED <<port, guard>>
    BY <1>6 DEF MainTakeEvent, Report, TakeEvent, trackerVars
  <2>2. ASSUME NEW d \in Event PROVE Reported(d)' => Reported(d)
    <3>1. CASE MainTakeEvent(e)
      BY <3>1 DEF MainTakeEvent, TakeEvent, Reported, OnItsWay
    <3>2. CASE Report(e)
      <4>1. /\ held' = {} /\ emitting' = emitting /\ e \in held
            /\ reported' = [reported EXCEPT ![e] = @ + 1]
        BY <3>2 DEF Report, trackerVars
      <4>2. CASE d = e BY <4>1, <4>2 DEF Reported, OnItsWay
      <4>3. CASE d # e
        <5>1. reported'[d] = reported[d] BY <4>1, <4>3 DEF TCPTypeOK
        <5> QED BY <4>1, <5>1 DEF Reported, OnItsWay
      <4> QED BY <4>2, <4>3
    <3> QED BY <1>6, <3>1, <3>2
  <2>3. \A s \in Seqs : <<s, "timeout">> \in Event BY DEF Event
  <2> QED BY <1>1, <2>1, <2>2, <2>3
<1>7. ASSUME NEW p \in Ports, Answers(p) PROVE LossIsDue'
  <2>1. /\ UNCHANGED <<port, guard, held, reported>>
        /\ emitting' = {<<store[p], "received">>}
    BY <1>7 DEF Answers, Emits
  <2>2. \A s \in Seqs : Reported(<<s, "timeout">>)' => Reported(<<s, "timeout">>)
    BY <2>1 DEF Reported, OnItsWay
  <2> QED BY <1>1, <2>1, <2>2
<1>8. ASSUME NEW r \in Seqs, GuardMoves(r) PROVE LossIsDue'
  <2>1. UNCHANGED <<port, emitting, held, reported>> BY <1>8 DEF GuardMoves
  <2>2. \A s \in Seqs : Reported(<<s, "timeout">>)' => Reported(<<s, "timeout">>)
    BY <2>1 DEF Reported, OnItsWay
  <2>3. \A s \in Seqs : guard[s] \in {"expired", "done"} => guard'[s] \in {"expired", "done"}
    BY <1>8 DEF GuardMoves, TCPTypeOK, TrackerTypeOK
  <2> QED BY <2>1, <2>2, <2>3, LossStaysDue
<1>9. ASSUME NEW r \in Seqs, HandleTimeout(r), UNCHANGED pingerVars PROVE LossIsDue'
  <2>1. PICK t : t = store[port[r]] OBVIOUS
  <2>2. /\ alive /\ port[r] \in Ports
        /\ guard' = [guard EXCEPT ![r] = "done"]
        /\ emitting' = IF t = None THEN {} ELSE {<<t, "timeout">>}
        /\ UNCHANGED <<port, held, reported>>
    BY <1>9, <2>1
       DEF HandleTimeout, AtSelect, pingerVars, TCPTypeOK, TrackerTypeOK
  <2>3. guard'[r] = "done" /\ \A s \in Seqs \ {r} : guard'[s] = guard[s]
    BY <2>2 DEF TCPTypeOK, TrackerTypeOK
  <2>4. ASSUME NEW s \in Seqs, s = t PROVE Due(s)'
    <3>1. store[port[r]] = s /\ port[s] = port[r]
      BY <2>1, <2>2, <2>4 DEF StoredIsOpen
    <3>2. r <= s BY <2>2, <3>1 DEF NewestStored
    <3>3. CASE r = s BY <2>3, <3>3 DEF Due
    <3>4. CASE r < s BY <2>2, <3>1, <3>4 DEF Due
    <3> QED BY <3>2, <3>3, <3>4
  <2>5. ASSUME NEW s \in Seqs, Reported(<<s, "timeout">>)'
        PROVE  Reported(<<s, "timeout">>) \/ Due(s)'
    BY <2>2, <2>4, <2>5 DEF Reported, OnItsWay
  <2> QED BY <1>4, <2>2, <2>3, <2>5
<1> QED BY StepKinds, <1>2, <1>3, <1>5, <1>6, <1>7, <1>8, <1>9

\* No entry stays in the tracker for good, and no packet is reported lost
\* before its own timer has fired, unless it inherited the port, and with it
\* the timeout, of an earlier one.
THEOREM TCPEntriesExpire == Spec => []EntriesExpireWhenDue
<1>1. Init => SendInProgress BY DEF Init, SendInProgress
<1>2. Init => DueInv
  BY TCPTrackerConstants
     DEF Init, TrackerInit, DueInv, EntryExpires, LossIsDue, NewestStored, Reported,
         OnItsWay, Event
<1>3. TCPTypeOK /\ SendInProgress /\ VerdictInv /\ DueInv /\ [Next]_allVars => DueInv'
  BY ExpireStep, LossStep, NewestStep DEF DueInv
<1>4. DueInv => EntriesExpireWhenDue BY DEF DueInv, EntriesExpireWhenDue
<1> QED
  BY <1>1, <1>2, <1>3, <1>4, VerdictInit, TypeInit, TypeStep, SendStep, VerdictStep, PTL DEF Spec
=============================================================================
