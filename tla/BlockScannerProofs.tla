------------------------- MODULE BlockScannerProofs -------------------------
(***************************************************************************)
(* TLAPS proofs about the block scanner, for blocks of any size, any       *)
(* capacity of the event channel, with and without socket errors.          *)
(*                                                                         *)
(* The scanner uses the tracker as TrackerNext allows, so what is proved   *)
(* of the tracker holds of the one inside it.  On top of it a ledger is    *)
(* kept: until a cancellation, the counter of inFlightPktWg and the pings  *)
(* whose events were forwarded and counted add up to the pings that were   *)
(* added, even though the event of a ping may be counted before the ping.  *)
(***************************************************************************)
EXTENDS BlockScanner, ICMPTrackerProofs

\* Pings the main goroutine has added to inFlightPktWg.
Added == IF main \in {"send", "sleep"} THEN seq ELSE seq - 1

MainTyped ==
  /\ main \in {"next", "mark", "add", "send", "sleep", "settle", "close",
               "wait", "done"}
  /\ seq \in 1..(NumAddresses + 1)
  /\ inFlight \in 0..NumAddresses
  /\ chClosed \in BOOLEAN

OthersTyped ==
  /\ recv \in {"select", "mark", "done"}
  /\ recvSeq \subseteq Seqs
  /\ drain \in {"range", "forward", "count", "done"}
  /\ drainEv \subseteq Event
  /\ crash \in {"none", "negative WaitGroup counter", "send on closed channel"}
  /\ reported \subseteq Seqs

\* Where the main goroutine is bounds what it has counted; nobody closes the
\* tracker of a scan, and it stops with the context only.
MainInv ==
  /\ main \in {"mark", "add", "send", "sleep"} => seq <= NumAddresses
  /\ main \in {"next", "mark", "add", "send", "sleep"} => inFlight <= Added
  /\ chClosed <=> main \in {"wait", "done"}
  /\ ~closed /\ ~closeCh
  /\ ~ctxDone => alive

ScannerInv == TrackerTypeOK /\ IOTypeOK /\ MainTyped /\ OthersTyped /\ MainInv

LEMMA MarkedAreSeqs ==
  ASSUME MainTyped, MainInv, main \in {"mark", "add", "send", "sleep"}
  PROVE  seq \in Seqs
BY BlockScannerConstants DEF MainTyped, MainInv

\* Whatever a goroutine of the scanner does to the tracker, a caller may do.
LEMMA ScannerUsesTracker ==
  ASSUME ScannerInv, [Next]_allVars
  PROVE  [TrackerNext]_trackerVars
<1> USE DEF TrackerNext
<1>1. CASE Main
  <2>1. main = "mark" => seq \in Seqs BY MarkedAreSeqs DEF ScannerInv
  <2> QED BY <1>1, <2>1 DEF Main, MainNext, MainMarkSent, MainAdd, MainSend, MainSleep,
                         MainSettled, MainClose, MainReturn
<1>2. CASE Receiver BY <1>2 DEF Receiver, RecvSelect, RecvMark
<1>3. CASE Drain BY <1>3 DEF Drain, DrainEnd, DrainForward, DrainCount, DrainReceive
<1>4. CASE Loop \/ UNCHANGED allVars BY <1>4 DEF Loop, allVars
<1>5. CASE Tracker BY <1>5 DEF Tracker
<1>6. CASE Cancel BY <1>6 DEF Cancel
<1> QED BY <1>1, <1>2, <1>3, <1>4, <1>5, <1>6 DEF Next

LEMMA LoopTypes ==
  ASSUME IOTypeOK, TrackerTypeOK
  PROVE  /\ \A s \in Seqs : IOAccept(s) \/ IORead(s) \/ IOHandOver(s) => IOTypeOK'
         /\ IOStop \/ IOReadError \/ IOTakeError \/ UNCHANGED ioVars => IOTypeOK'
<1> USE TrackerConstants, PacketIOConstants DEF IOTypeOK
<1>0. Cardinality({}) = 0 BY FS_EmptySet
<1>1. ASSUME NEW s \in Seqs, IOAccept(s) PROVE IOTypeOK'
  <2>1. CASE IOFails BY <1>1, <2>1 DEF IOFails
  <2>2. CASE \E n \in 0..MaxReplies : wire' = [wire EXCEPT ![s] = n]
               /\ UNCHANGED <<io, deliver, ioErr>>
    BY <2>2
  <2> QED BY <1>1, <2>1, <2>2 DEF IOAccept
<1>2. ASSUME NEW s \in Seqs, IORead(s) PROVE IOTypeOK'
  <2>1. Cardinality({s}) = 1 BY FS_Singleton
  <2>2. wire' \in [Seqs -> 0..MaxReplies] BY <1>2 DEF IORead
  <2> QED BY <1>2, <2>1, <2>2 DEF IORead
<1>3. ASSUME NEW s \in Seqs, IOHandOver(s) PROVE IOTypeOK'
  BY <1>0, <1>3 DEF IOHandOver
<1>4. ASSUME IOStop \/ IOReadError \/ IOTakeError \/ UNCHANGED ioVars PROVE IOTypeOK'
  BY <1>4 DEF IOStop, IOReadError, IOFails, IOTakeError, ioVars
<1> QED BY <1>1, <1>2, <1>3, <1>4

LEMMA ScannerInvInit == Init => ScannerInv
<1> SUFFICES ASSUME Init PROVE ScannerInv
  OBVIOUS
<1>1. TrackerTypeOK BY TrackerTypeInit DEF Init
<1>2. IOTypeOK
  <2>1. wire \in [Seqs -> 0..MaxReplies] BY TrackerConstants DEF Init, IOInit
  <2>2. deliver = {} BY DEF Init, IOInit
  <2>3. deliver \subseteq Seqs /\ Cardinality(deliver) <= 1 BY <2>2, FS_EmptySet
  <2>4. io = "select" /\ ioErr = FALSE BY DEF Init, IOInit
  <2> QED BY <2>1, <2>3, <2>4 DEF IOTypeOK
<1>3. MainTyped /\ MainInv
  <2>1. main = "next" /\ seq = 1 /\ inFlight = 0 BY DEF Init
  <2>0. ~chClosed /\ chClosed \in BOOLEAN BY DEF Init
  <2>2. ~closed /\ ~closeCh /\ alive BY DEF Init, TrackerInit
  <2>3. NumAddresses \in Nat BY BlockScannerConstants
  <2>4. MainTyped BY <2>0, <2>1, <2>3 DEF MainTyped
  <2>5. Added = 0 BY <2>1 DEF Added
  <2>6. MainInv BY <2>0, <2>1, <2>2, <2>5 DEF MainInv
  <2> QED BY <2>4, <2>6
<1>4. OthersTyped BY DEF Init, OthersTyped
<1> QED BY <1>1, <1>2, <1>3, <1>4 DEF ScannerInv

LEMMA ScannerInvStep == ScannerInv /\ [Next]_allVars => ScannerInv'
<1> SUFFICES ASSUME ScannerInv, [Next]_allVars PROVE ScannerInv'
  OBVIOUS
<1>T. TrackerTypeOK /\ TrackerTypeOK' /\ IOTypeOK /\ MainTyped /\ OthersTyped /\ MainInv
  BY ScannerUsesTracker, TrackerTypeStep DEF ScannerInv
<1>N. NumAddresses \in Nat BY BlockScannerConstants
<1> SUFFICES IOTypeOK' /\ MainTyped' /\ OthersTyped' /\ MainInv'
  BY <1>T DEF ScannerInv
<1>M. ASSUME UNCHANGED <<main, seq, inFlight, chClosed, closed, closeCh, ctxDone, alive>>
      PROVE  MainTyped' /\ MainInv'
  BY <1>M, <1>T DEF MainTyped, MainInv, Added
<1>O. ASSUME UNCHANGED <<recv, recvSeq, drain, drainEv, crash, reported>>
      PROVE  OthersTyped'
  BY <1>O, <1>T DEF OthersTyped
<1>1. CASE Main
  <2>1. UNCHANGED <<recv, recvSeq, drain, drainEv, crash, reported>>
    BY <1>1 DEF Main, MainNext, MainMarkSent, MainAdd, MainSend, MainSleep, MainSettled,
       MainClose, MainReturn
  <2>2. UNCHANGED <<closed, closeCh, ctxDone, alive>>
    BY <1>1 DEF Main, MainNext, MainMarkSent, MainAdd, MainSend, MainSleep, MainSettled,
       MainClose, MainReturn, trackerVars, MarkSent
  <2>3. IOTypeOK'
    <3>1. CASE MainSend
      <4>1. seq \in Seqs BY <1>T, <3>1, MarkedAreSeqs DEF MainSend
      <4> QED BY <1>T, <3>1, <4>1, LoopTypes DEF MainSend
    <3>2. CASE UNCHANGED ioVars BY <1>T, <3>2, LoopTypes
    <3> QED BY <1>1, <3>1, <3>2 DEF Main, MainNext, MainMarkSent, MainAdd, MainSleep,
            MainSettled, MainClose, MainReturn
  <2>4. MainTyped' /\ MainInv'
    <3> USE <1>T, <1>N, <2>2 DEF MainTyped, MainInv, Added, MainGoes
    <3>1. CASE MainNext BY <3>1 DEF MainNext
    <3>2. CASE MainMarkSent BY <3>2 DEF MainMarkSent
    <3>3. CASE MainAdd BY <3>3 DEF MainAdd
    <3>4. CASE MainSend BY <3>4 DEF MainSend
    <3>5. CASE MainSleep BY <3>5 DEF MainSleep
    <3>6. CASE MainSettled BY <3>6 DEF MainSettled
    <3>7. CASE MainClose BY <3>7 DEF MainClose
    <3>8. CASE MainReturn BY <3>8 DEF MainReturn
    <3> QED BY <1>1, <3>1, <3>2, <3>3, <3>4, <3>5, <3>6, <3>7, <3>8 DEF Main
  <2> QED BY <1>O, <2>1, <2>3, <2>4
<1>2. CASE Receiver
  <2>1. UNCHANGED <<main, seq, inFlight, drain, drainEv, chClosed, crash, reported>>
    BY <1>2 DEF Receiver, RecvSelect, RecvMark
  <2>2. UNCHANGED <<closed, closeCh, ctxDone, alive>>
    BY <1>2 DEF Receiver, RecvSelect, RecvMark, trackerVars, MarkReceived
  <2>3. IOTypeOK' BY <1>2, <1>T, LoopTypes DEF Receiver, RecvSelect, RecvMark
  <2>4. recv' \in {"select", "mark", "done"} /\ recvSeq' \subseteq Seqs
    BY <1>2, <1>T DEF Receiver, RecvSelect, RecvMark, OthersTyped
  <2> QED BY <1>M, <1>T, <2>1, <2>2, <2>3, <2>4 DEF OthersTyped
<1>3. CASE Drain
  <2>1. UNCHANGED <<ioVars, main, seq, recv, recvSeq, chClosed>>
    BY <1>3 DEF Drain, DrainReceive, DrainEnd, DrainForward, DrainCount
  <2>2. UNCHANGED <<closed, closeCh, ctxDone, alive>>
    BY <1>3 DEF Drain, DrainReceive, DrainEnd, DrainForward, DrainCount, trackerVars,
       Receive
  <2>3. IOTypeOK' BY <1>T, <2>1, LoopTypes
  <2>4. inFlight' = inFlight \/ (inFlight > 0 /\ inFlight' = inFlight - 1)
    BY <1>3 DEF Drain, DrainReceive, DrainEnd, DrainForward, DrainCount
  <2>5. OthersTyped'
    <3>1. {e[1] : e \in drainEv} \subseteq Seqs BY <1>T DEF OthersTyped, Event
    <3> QED BY <1>3, <1>T, <2>1, <3>1
            DEF OthersTyped, Drain, DrainReceive, DrainEnd, DrainForward, DrainCount
  <2>6. MainTyped' /\ MainInv'
    BY <1>T, <1>N, <2>1, <2>2, <2>4 DEF MainTyped, MainInv, Added
  <2> QED BY <2>3, <2>5, <2>6
<1>4. CASE Loop
  <2>1. UNCHANGED <<trackerVars, scannerVars>> BY <1>4 DEF Loop
  <2>2. IOTypeOK' BY <1>4, <1>T, LoopTypes DEF Loop
  <2> QED BY <1>M, <1>O, <2>1, <2>2 DEF scannerVars, trackerVars
<1>5. CASE Tracker
  <2>1. UNCHANGED <<ioVars, scannerVars>> BY <1>5 DEF Tracker
  <2>2. IOTypeOK' BY <1>T, <2>1, LoopTypes
  <2>3. /\ UNCHANGED <<closed, closeCh, ctxDone>>
        /\ ~ctxDone => alive'
    BY <1>5, <1>T, TrackerStepKeeps DEF Tracker, MainInv, TrackerTypeOK
  <2>4. MainTyped' /\ MainInv'
    BY <1>T, <2>1, <2>3 DEF MainTyped, MainInv, Added, scannerVars
  <2> QED BY <1>O, <2>1, <2>2, <2>4 DEF scannerVars
<1>6. CASE Cancel
  <2>1. UNCHANGED <<ioVars, scannerVars, closed, closeCh, alive>> /\ ctxDone'
    BY <1>6 DEF Cancel, CancelCtx
  <2>2. IOTypeOK' BY <1>T, <2>1, LoopTypes
  <2>3. MainTyped' /\ MainInv'
    BY <1>T, <2>1 DEF MainTyped, MainInv, Added, scannerVars
  <2> QED BY <1>O, <2>1, <2>2, <2>3 DEF scannerVars
<1>7. CASE UNCHANGED allVars
  <2>1. UNCHANGED <<trackerVars, ioVars, scannerVars>> BY <1>7 DEF allVars
  <2>2. IOTypeOK' BY <1>T, <2>1, LoopTypes
  <2> QED BY <1>M, <1>O, <2>1, <2>2 DEF scannerVars, trackerVars
<1> QED BY <1>1, <1>2, <1>3, <1>4, <1>5, <1>6, <1>7 DEF Next

\* The variables stay in their types; inFlightPktWg never counts more pings
\* than the block has addresses.
THEOREM ScannerTypeCorrect == Spec => []ScannerTypeOK
<1>1. ScannerInv => ScannerTypeOK
  BY DEF ScannerInv, ScannerTypeOK, MainTyped, OthersTyped
<1> QED BY <1>1, ScannerInvInit, ScannerInvStep, PTL DEF Spec

-----------------------------------------------------------------------------
(* The ledger.                                                             *)

\* The drain goroutine holds the event it has received and not yet counted.
DrainInv ==
  /\ drain \in {"range", "done"} => drainEv = {}
  /\ drain \in {"forward", "count"} =>
       \E e \in Event : drainEv = {e} /\ e[1] \in DeliveredSeqs

\* Pings for which Done was called.
Counted == DeliveredSeqs \ {e[1] : e \in drainEv}

\* Pings the tracker knows.
Marked == IF main = "add" THEN seq ELSE Added

LedgerInv ==
  ~ctxDone =>
    /\ Sent = 1..Marked
    /\ inFlight + Cardinality(Counted) = Added
    /\ main \in {"close", "wait", "done"} => inFlight = 0
    /\ Counted \subseteq reported
    /\ drain = "count" => \A e \in drainEv : e[1] \in reported

ScanInv == ScannerInv /\ VerdictInv /\ OnceInv /\ DrainInv /\ LedgerInv

\* Once the main goroutine has seen the counter at zero, every ping is counted.
LEMMA AllCounted ==
  ASSUME ScanInv, ~ctxDone, main \in {"close", "wait", "done"}
  PROVE  Counted = Sent
<1>1. inFlight = 0 /\ Cardinality(Counted) = Added /\ Sent = 1..Added
  <2>1. inFlight = 0 /\ inFlight + Cardinality(Counted) = Added /\ Sent = 1..Marked
    BY DEF ScanInv, LedgerInv
  <2>2. Added \in Int BY DEF ScanInv, ScannerInv, MainTyped, Added
  <2>3. Counted \subseteq Seqs BY DEF Counted, DeliveredSeqs
  <2>4. Cardinality(Counted) \in Nat
    BY <2>3, FS_Subset, FS_CardinalityType, TrackerConstants
  <2>5. Marked = Added BY DEF Marked
  <2> QED BY <2>1, <2>2, <2>4, <2>5
<1>2. Added \in Nat BY BlockScannerConstants DEF ScanInv, ScannerInv, MainTyped, Added
<1>3. IsFiniteSet(Sent) /\ Cardinality(Sent) = Added
  BY <1>1, <1>2, FS_Interval
<1>4. Counted \subseteq Sent
  BY DeliveredAreSent DEF ScanInv, Counted
<1> QED BY <1>1, <1>3, <1>4, FS_Subset

LEMMA LedgerKept ==
  ASSUME LedgerInv,
         UNCHANGED <<main, seq, inFlight, drain, drainEv, reported, Sent, DeliveredSeqs>>,
         ~ctxDone' => ~ctxDone
  PROVE  LedgerInv'
<1>1. Counted' = Counted /\ Added' = Added /\ Marked' = Marked
  BY DEF Counted, Added, Marked
<1> QED BY <1>1 DEF LedgerInv

LEMMA DrainKept ==
  ASSUME DrainInv, UNCHANGED <<drain, drainEv, DeliveredSeqs>>
  PROVE  DrainInv'
BY DEF DrainInv

\* A step of the main goroutine.
LEMMA MainKeepsLedger ==
  ASSUME ScanInv, Main
  PROVE  DrainInv' /\ LedgerInv'
<1>T. ScannerInv /\ DrainInv /\ LedgerInv /\ TrackerTypeOK /\ MainTyped /\ MainInv
  BY DEF ScanInv, ScannerInv
<1>1. UNCHANGED <<drain, drainEv, reported, ctxDone, DeliveredSeqs>>
  BY DEF Main, MainNext, MainMarkSent, MainAdd, MainSend, MainSleep, MainSettled,
     MainClose, MainReturn, trackerVars, MarkSent, DeliveredSeqs
<1>2. DrainInv' BY <1>T, <1>1, DrainKept
<1>3. LedgerInv'
  <2> SUFFICES ASSUME ~ctxDone PROVE LedgerInv'
    BY <1>1 DEF LedgerInv
  <2>1. /\ Sent = 1..Marked
        /\ inFlight + Cardinality(Counted) = Added
        /\ main \in {"close", "wait", "done"} => inFlight = 0
        /\ Counted \subseteq reported
        /\ drain = "count" => \A e \in drainEv : e[1] \in reported
    BY <1>T DEF LedgerInv
  <2>2. Counted' = Counted BY <1>1 DEF Counted
  <2>3. seq \in Int /\ inFlight \in Int /\ seq >= 1
    BY <1>T, BlockScannerConstants DEF MainTyped
  <2> SUFFICES /\ Sent' = 1..Marked'
               /\ inFlight' + Cardinality(Counted) = Added'
               /\ main' \in {"close", "wait", "done"} => inFlight' = 0
    BY <1>1, <2>1, <2>2 DEF LedgerInv
  <2>4. CASE MainMarkSent
    <3>1. MarkSent(seq) /\ main = "mark" /\ main' = "add"
      BY <1>T, <2>4 DEF MainMarkSent, MainInv, MainGoes
    <3>2. seq \in Seqs BY <1>T, <3>1, MarkedAreSeqs
    <3>3. Sent' = Sent \cup {seq} BY <1>T, <3>1, <3>2, MarkSentSends
    <3>4. seq' = seq /\ inFlight' = inFlight BY <2>4 DEF MainMarkSent
    <3>5. Marked = seq - 1 /\ Marked' = seq /\ Added' = Added
      BY <3>1, <3>4 DEF Marked, Added
    <3>6. (1..(seq - 1)) \cup {seq} = 1..seq BY <2>3
    <3> QED BY <2>1, <3>1, <3>3, <3>4, <3>5, <3>6
  <2>5. CASE ~MainMarkSent
    <3>1. Sent' = Sent
      BY <2>5 DEF Main, MainNext, MainAdd, MainSend, MainSleep, MainSettled, MainClose,
         MainReturn, trackerVars, Sent
    <3>2. CASE MainNext BY <2>1, <3>1, <3>2 DEF MainNext, Marked, Added, MainGoes
    <3>3. CASE MainAdd
      <4>1. main = "add" /\ main' = "send" /\ seq' = seq /\ inFlight' = inFlight + 1
        BY <3>3 DEF MainAdd, MainGoes
      <4>2. Added = seq - 1 /\ Added' = seq /\ Marked = seq /\ Marked' = seq
        BY <4>1 DEF Added, Marked
      <4>3. Cardinality(Counted) \in Int
        <5>1. Counted \subseteq Seqs BY DEF Counted, DeliveredSeqs
        <5> QED BY <5>1, FS_Subset, FS_CardinalityType, TrackerConstants
      <4> QED BY <2>1, <2>3, <3>1, <4>1, <4>2, <4>3
    <3>4. CASE MainSend
      BY <2>1, <3>1, <3>4 DEF MainSend, Marked, Added, MainGoes
    <3>5. CASE MainSleep
      <4>1. main = "sleep" /\ main' = "next" /\ seq' = seq + 1 /\ inFlight' = inFlight
        BY <3>5 DEF MainSleep, MainGoes
      <4>2. Added = seq /\ Added' = seq /\ Marked = seq /\ Marked' = seq
        BY <2>3, <4>1 DEF Added, Marked
      <4> QED BY <2>1, <3>1, <4>1, <4>2
    <3>6. CASE MainSettled
      BY <2>1, <3>1, <3>6 DEF MainSettled, Marked, Added, MainGoes
    <3>7. CASE MainClose \/ MainReturn
      BY <2>1, <3>1, <3>7 DEF MainClose, MainReturn, Marked, Added, MainGoes
    <3> QED BY <2>5, <3>2, <3>3, <3>4, <3>5, <3>6, <3>7 DEF Main
  <2> QED BY <2>4, <2>5
<1> QED BY <1>2, <1>3

\* A step of the drain goroutine: an event it has counted is that of a ping
\* not counted before.
LEMMA DrainKeepsLedger ==
  ASSUME MaxReplies = 1, ScanInv, Drain
  PROVE  /\ DrainInv' /\ LedgerInv'
         /\ crash' = "send on closed channel" => crash = "send on closed channel" \/ ctxDone
<1>T. /\ ScannerInv /\ DrainInv /\ LedgerInv /\ VerdictInv /\ OnceInv
      /\ TrackerTypeOK /\ MainTyped /\ MainInv
  BY DEF ScanInv, ScannerInv
<1>C. IsFiniteSet(Counted) /\ Cardinality(Counted) \in Nat
  <2>1. Counted \subseteq Seqs BY DEF Counted, DeliveredSeqs
  <2> QED BY <2>1, FS_Subset, FS_CardinalityType, TrackerConstants
<1>1. CASE DrainEnd
  <2>1. UNCHANGED <<trackerVars, main, seq, inFlight, drainEv, crash, reported>>
        /\ drain = "range" /\ drain' = "done"
    BY <1>1 DEF DrainEnd
  <2>2. UNCHANGED <<Sent, DeliveredSeqs, ctxDone>>
    BY <2>1 DEF trackerVars, Sent, DeliveredSeqs
  <2>3. Counted' = Counted /\ Added' = Added /\ Marked' = Marked
    BY <2>1, <2>2 DEF Counted, Added, Marked
  <2> QED BY <1>T, <2>1, <2>2, <2>3 DEF DrainInv, LedgerInv
<1>2. ASSUME NEW e \in Event, DrainReceive(e)
      PROVE  DrainInv' /\ LedgerInv' /\ crash' = crash
  <2>1. /\ Receive(e) /\ drain = "range" /\ drain' = "forward" /\ drainEv' = {e}
        /\ UNCHANGED <<main, seq, inFlight, crash, reported>>
    BY <1>2 DEF DrainReceive
  <2>2. /\ e[1] \in Sent \ DeliveredSeqs
        /\ DeliveredSeqs' = DeliveredSeqs \cup {e[1]}
        /\ UNCHANGED <<Sent, ctxDone>>
    BY <1>T, <2>1, ReceiveDelivers
  <2>3. drainEv = {} BY <1>T, <2>1 DEF DrainInv
  <2>4. Counted' = Counted BY <2>1, <2>2, <2>3 DEF Counted
  <2>5. Added' = Added /\ Marked' = Marked BY <2>1 DEF Added, Marked
  <2>6. DrainInv' BY <2>1, <2>2 DEF DrainInv
  <2>7. LedgerInv' BY <1>T, <2>1, <2>2, <2>4, <2>5 DEF LedgerInv
  <2> QED BY <2>1, <2>6, <2>7
<1>3. CASE DrainForward
  <2>1. UNCHANGED <<trackerVars, main, seq, inFlight, chClosed>> /\ drain = "forward"
    BY <1>3 DEF DrainForward
  <2>2. UNCHANGED <<Sent, DeliveredSeqs, ctxDone>>
    BY <2>1 DEF trackerVars, Sent, DeliveredSeqs
  <2>3. Added' = Added /\ Marked' = Marked BY <2>1 DEF Added, Marked
  <2>4. PICK e \in Event : drainEv = {e} /\ e[1] \in DeliveredSeqs
    BY <1>T, <2>1 DEF DrainInv
  <2>5. CASE /\ ~chClosed /\ drain' = "count"
             /\ reported' = reported \cup {d[1] : d \in drainEv}
             /\ UNCHANGED <<drainEv, crash>>
    <3>1. Counted' = Counted BY <2>2, <2>5 DEF Counted
    <3>2. DrainInv' BY <2>2, <2>4, <2>5 DEF DrainInv
    <3>3. LedgerInv'
      BY <1>T, <2>1, <2>2, <2>3, <2>5, <3>1 DEF LedgerInv
    <3> QED BY <2>5, <3>2, <3>3
  <2>6. CASE ctxDone /\ drain' = "done" /\ drainEv' = {} /\ UNCHANGED <<reported, crash>>
    BY <2>2, <2>6 DEF DrainInv, LedgerInv
  <2>7. CASE /\ chClosed /\ crash' = "send on closed channel"
             /\ UNCHANGED <<drain, drainEv, reported>>
    <3>1. DrainInv' BY <1>T, <2>2, <2>7, DrainKept
    <3>2. LedgerInv' BY <1>T, <2>1, <2>2, <2>7, LedgerKept
    <3>3. ctxDone
      <4> SUFFICES ASSUME ~ctxDone PROVE FALSE
        OBVIOUS
      <4>1. main \in {"close", "wait", "done"} BY <1>T, <2>7 DEF MainInv
      <4>2. Counted = Sent BY <4>1, AllCounted
      <4>3. e[1] \in Sent BY <1>T, <2>4, DeliveredAreSent
      <4> QED BY <2>4, <4>2, <4>3 DEF Counted
    <3> QED BY <3>1, <3>2, <3>3
  <2> QED BY <1>3, <2>5, <2>6, <2>7 DEF DrainForward
<1>4. CASE DrainCount
  <2>1. UNCHANGED <<trackerVars, main, seq, reported>> /\ drain = "count"
    BY <1>4 DEF DrainCount
  <2>2. UNCHANGED <<Sent, DeliveredSeqs, ctxDone>>
    BY <2>1 DEF trackerVars, Sent, DeliveredSeqs
  <2>3. Added' = Added /\ Marked' = Marked BY <2>1 DEF Added, Marked
  <2>4. PICK e \in Event : drainEv = {e} /\ e[1] \in DeliveredSeqs
    BY <1>T, <2>1 DEF DrainInv
  <2>5. CASE /\ inFlight > 0 /\ inFlight' = inFlight - 1
             /\ drain' = "range" /\ drainEv' = {} /\ UNCHANGED crash
    <3>1. e[1] \notin Counted /\ Counted' = Counted \cup {e[1]}
      BY <2>2, <2>4, <2>5 DEF Counted
    <3>2. Cardinality(Counted') = Cardinality(Counted) + 1
      BY <1>C, <3>1, FS_AddElement
    <3>3. DrainInv' BY <2>5 DEF DrainInv
    <3>4. LedgerInv'
      <4> SUFFICES ASSUME ~ctxDone PROVE LedgerInv'
        BY <2>2 DEF LedgerInv
      <4>1. /\ Sent = 1..Marked
            /\ inFlight + Cardinality(Counted) = Added
            /\ main \in {"close", "wait", "done"} => inFlight = 0
            /\ Counted \subseteq reported /\ e[1] \in reported
        BY <1>T, <2>1, <2>4 DEF LedgerInv
      <4>2. inFlight \in Int BY <1>T DEF MainTyped
      <4>3. inFlight' + Cardinality(Counted') = Added
        BY <1>C, <2>5, <3>2, <4>1, <4>2
      <4>4. Counted' \subseteq reported' BY <2>1, <3>1, <4>1
      <4>5. main \in {"close", "wait", "done"} => inFlight' = 0
        BY <2>5, <4>1, <4>2
      <4> QED BY <2>1, <2>2, <2>3, <2>5, <4>1, <4>3, <4>4, <4>5 DEF LedgerInv
    <3> QED BY <2>5, <3>3, <3>4
  <2>6. CASE /\ crash' = "negative WaitGroup counter"
             /\ UNCHANGED <<inFlight, drain, drainEv>>
    BY <1>T, <2>1, <2>2, <2>6, DrainKept, LedgerKept
  <2> QED BY <1>4, <2>5, <2>6 DEF DrainCount
<1> QED BY <1>1, <1>2, <1>3, <1>4 DEF Drain, DrainEnd

LEMMA ScanInvStep ==
  ASSUME MaxReplies = 1, ScanInv, [Next]_allVars
  PROVE  /\ ScanInv'
         /\ crash' = "send on closed channel" => crash = "send on closed channel" \/ ctxDone
<1>T. ScannerInv /\ DrainInv /\ LedgerInv /\ VerdictInv /\ OnceInv /\ TrackerTypeOK
  BY DEF ScanInv, ScannerInv
<1>1. ScannerInv' /\ VerdictInv' /\ OnceInv'
  BY <1>T, ScannerUsesTracker, ScannerInvStep, VerdictInvStep, OnceInvStep
<1> SUFFICES /\ DrainInv' /\ LedgerInv'
             /\ crash' = "send on closed channel" =>
                  crash = "send on closed channel" \/ ctxDone
  BY <1>1 DEF ScanInv
<1>K. ASSUME UNCHANGED <<main, seq, inFlight, drain, drainEv, reported, crash>>,
             UNCHANGED <<Sent, DeliveredSeqs>>, ~ctxDone' => ~ctxDone
      PROVE  DrainInv' /\ LedgerInv' /\ crash' = crash
  BY <1>K, <1>T, DrainKept, LedgerKept
<1>2. CASE Main
  <2>1. crash' = crash
    BY <1>2 DEF Main, MainNext, MainMarkSent, MainAdd, MainSend, MainSleep, MainSettled,
       MainClose, MainReturn
  <2> QED BY <1>2, <2>1, MainKeepsLedger
<1>3. CASE Drain BY <1>3, DrainKeepsLedger
<1>4. CASE Receiver
  <2>1. UNCHANGED <<main, seq, inFlight, drain, drainEv, reported, crash>>
    BY <1>4 DEF Receiver, RecvSelect, RecvMark
  <2>2. UNCHANGED <<Sent, DeliveredSeqs, ctxDone>>
    <3>1. CASE UNCHANGED trackerVars BY <3>1 DEF trackerVars, Sent, DeliveredSeqs
    <3>2. ASSUME NEW s \in Seqs, MarkReceived(s)
          PROVE  UNCHANGED <<Sent, DeliveredSeqs, ctxDone>>
      BY <3>2, MarkReceivedKeeps
    <3> QED BY <1>4, <3>1, <3>2 DEF Receiver, RecvSelect, RecvMark
  <2> QED BY <1>K, <2>1, <2>2
<1>5. CASE Loop \/ UNCHANGED allVars
  <2>1. UNCHANGED <<trackerVars, scannerVars>> BY <1>5 DEF Loop, allVars
  <2>2. UNCHANGED <<Sent, DeliveredSeqs, ctxDone>>
    BY <2>1 DEF trackerVars, Sent, DeliveredSeqs
  <2> QED BY <1>K, <2>1, <2>2 DEF scannerVars
<1>6. CASE Tracker
  <2>1. UNCHANGED scannerVars /\ TrackerStep BY <1>6 DEF Tracker
  <2> QED BY <1>K, <1>T, <2>1, TrackerStepKeeps DEF scannerVars
<1>7. CASE Cancel
  <2>1. UNCHANGED scannerVars /\ ctxDone' /\ UNCHANGED <<waiter, delivered>>
    BY <1>7 DEF Cancel, CancelCtx
  <2> QED BY <1>K, <2>1 DEF scannerVars, Sent, DeliveredSeqs
<1> QED BY <1>2, <1>3, <1>4, <1>5, <1>6, <1>7 DEF Next

\* As long as no reply is duplicated, the output channel of a scan that nobody
\* cancels is closed after every ping was reported, and nothing is sent on it
\* afterwards.
THEOREM ScannerCloseIsLast ==
  ASSUME MaxReplies = 1
  PROVE  Spec => []CloseIsLast
<1> DEFINE Inv == ScanInv /\ NoLateEvent
<1>1. Init => Inv
  <2> SUFFICES ASSUME Init PROVE Inv
    OBVIOUS
  <2>1. ScannerInv /\ VerdictInv /\ OnceInv
    BY ScannerInvInit, VerdictInvInit, OnceInvInit DEF Init
  <2>2. DrainInv /\ NoLateEvent BY DEF Init, DrainInv, NoLateEvent
  <2>3. Sent = {} BY DEF Init, TrackerInit, Sent
  <2>4. DeliveredSeqs = {}
    <3>1. DeliveredSeqs \subseteq Sent BY <2>1, DeliveredAreSent
    <3> QED BY <2>3, <3>1
  <2>5. Counted = {} /\ Cardinality(Counted) = 0 BY <2>4, FS_EmptySet DEF Counted
  <2>6. main = "next" /\ inFlight = 0 /\ drain = "range" /\ Added = 0 /\ Marked = 0
    BY DEF Init, Added, Marked
  <2>7. LedgerInv BY <2>3, <2>5, <2>6 DEF LedgerInv
  <2> QED BY <2>1, <2>2, <2>7 DEF ScanInv
<1>2. Inv /\ [Next]_allVars => Inv'
  <2> SUFFICES ASSUME Inv, [Next]_allVars PROVE Inv'
    OBVIOUS
  <2>1. ctxDone => ctxDone'
    <3>1. [TrackerNext]_trackerVars /\ TrackerTypeOK
      BY ScannerUsesTracker DEF ScanInv, ScannerInv
    <3> QED BY <3>1, ContextStaysDone
  <2> QED BY <2>1, ScanInvStep DEF NoLateEvent
<1>3. Inv => CloseIsLast
  <2> SUFFICES ASSUME ScanInv, NoLateEvent, chClosed, ~ctxDone
               PROVE  Sent \subseteq reported
    BY DEF CloseIsLast, AllSettledBeforeClose
  <2>1. main \in {"wait", "done"} BY DEF ScanInv, ScannerInv, MainInv
  <2>2. Counted = Sent BY <2>1, AllCounted
  <2> QED BY <2>2 DEF ScanInv, LedgerInv
<1> QED BY <1>1, <1>2, <1>3, PTL DEF Spec
=============================================================================
