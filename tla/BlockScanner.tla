---------------------------- MODULE BlockScanner ----------------------------
(***************************************************************************)
(* SimpleBlockScanner.pingCIDR of pkg/pinger/scaner.go: a main goroutine   *)
(* that sends one ping per address, a receiving goroutine that feeds       *)
(* replies to the tracker, and a drain goroutine that forwards tracker     *)
(* events to the output channel, tied together by two wait groups and by   *)
(* the deferred calls of the main goroutine.  It is composed of the        *)
(* tracker (ICMPTracker) and the transceiver loop (PacketIO).              *)
(***************************************************************************)
EXTENDS PacketIO

CONSTANT NumAddresses   \* addresses of the block

ASSUME BlockScannerConstants ==
  /\ NumAddresses \in Nat
  /\ Seqs = 1..NumAddresses

VARIABLES
  main,       \* where the main goroutine is
  seq,        \* numPktsSent + 1
  inFlight,   \* counter of inFlightPktWg
  recv,       \* where the receiving goroutine is
  recvSeq,    \* seq of the reply it holds, if any
  drain,      \* where the drain goroutine is
  drainEv,    \* event it holds, if any
  chClosed,   \* the output channel is closed
  crash,      \* a panic other than the tracker's
  reported    \* history: seqs with an event the consumer got

scannerVars == <<main, seq, inFlight, recv, recvSeq, drain, drainEv,
                 chClosed, crash, reported>>
allVars == <<trackerVars, ioVars, scannerVars>>

Init ==
  /\ TrackerInit
  /\ IOInit
  /\ main = "next"
  /\ seq = 1
  /\ inFlight = 0
  /\ recv = "select"
  /\ recvSeq = {}
  /\ drain = "range"
  /\ drainEv = {}
  /\ chClosed = FALSE
  /\ crash = "none"
  /\ reported = {}

-----------------------------------------------------------------------------
(* The main goroutine.                                                     *)

MainGoes(pc) == main' = pc

\* It returns from its loop when the addresses are used up or the context is
\* done; the deferred calls follow.
MainNext ==
  /\ main = "next"
  /\ \/ seq <= NumAddresses /\ MainGoes("mark")
     \/ seq > NumAddresses /\ MainGoes("settle")
     \/ ctxDone /\ MainGoes("settle")
  /\ UNCHANGED <<trackerVars, ioVars, seq, inFlight, recv, recvSeq, drain,
                 drainEv, chClosed, crash, reported>>

MainMarkSent ==
  /\ main = "mark"
  /\ \/ MarkSent(seq) /\ MainGoes("add")
     \/ ~alive /\ MainGoes("settle") /\ UNCHANGED trackerVars
  /\ UNCHANGED <<ioVars, seq, inFlight, recv, recvSeq, drain, drainEv,
                 chClosed, crash, reported>>

\* Mutant: the pong and the timeout of a ping are awaited separately.
MainAdd_Twice ==
  /\ main = "add"
  /\ inFlight' = inFlight + 2
  /\ MainGoes("send")
  /\ UNCHANGED <<trackerVars, ioVars, seq, recv, recvSeq, drain, drainEv,
                 chClosed, crash, reported>>

MainAdd ==
  /\ main = "add"
  /\ inFlight' = inFlight + 1
  /\ MainGoes("send")
  /\ UNCHANGED <<trackerVars, ioVars, seq, recv, recvSeq, drain, drainEv,
                 chClosed, crash, reported>>

MainSend ==
  /\ main = "send"
  /\ \/ IOAccept(seq) /\ MainGoes("sleep")
     \/ ctxDone /\ MainGoes("settle") /\ UNCHANGED ioVars
  /\ UNCHANGED <<trackerVars, seq, inFlight, recv, recvSeq, drain, drainEv,
                 chClosed, crash, reported>>

MainSleep ==
  /\ main = "sleep"
  /\ seq' = seq + 1
  /\ MainGoes("next")
  /\ UNCHANGED <<trackerVars, ioVars, inFlight, recv, recvSeq, drain, drainEv,
                 chClosed, crash, reported>>

\* Mutant: the wait gives up when the context could still be alive.
MainSettled_NoWait ==
  /\ main = "settle"
  /\ MainGoes("close")
  /\ UNCHANGED <<trackerVars, ioVars, seq, inFlight, recv, recvSeq, drain,
                 drainEv, chClosed, crash, reported>>

\* First deferred call: wait for the in-flight pings or the context.
MainSettled ==
  /\ main = "settle"
  /\ inFlight = 0 \/ ctxDone
  /\ MainGoes("close")
  /\ UNCHANGED <<trackerVars, ioVars, seq, inFlight, recv, recvSeq, drain,
                 drainEv, chClosed, crash, reported>>

\* Second deferred call; the third waits for the two other goroutines.
MainClose ==
  /\ main = "close"
  /\ chClosed' = TRUE
  /\ MainGoes("wait")
  /\ UNCHANGED <<trackerVars, ioVars, seq, inFlight, recv, recvSeq, drain,
                 drainEv, crash, reported>>

MainReturn ==
  /\ main = "wait"
  /\ recv = "done" /\ drain = "done"
  /\ MainGoes("done")
  /\ UNCHANGED <<trackerVars, ioVars, seq, inFlight, recv, recvSeq, drain,
                 drainEv, chClosed, crash, reported>>

-----------------------------------------------------------------------------
(* The receiving goroutine.                                                *)

RecvSelect ==
  /\ recv = "select"
  /\ \/ \E s \in Seqs : /\ IOHandOver(s)
                        /\ recv' = "mark"
                        /\ recvSeq' = {s}
     \/ /\ ctxDone \/ IOReturned
        /\ recv' = "done"
        /\ UNCHANGED <<ioVars, recvSeq>>
     \/ /\ IOTakeError
        /\ recv' = "done"
        /\ UNCHANGED recvSeq
  /\ UNCHANGED <<trackerVars, main, seq, inFlight, drain, drainEv, chClosed,
                 crash, reported>>

\* A reply without entry is dropped by the tracker; after its shutdown
\* MarkReceived fails and the goroutine returns.
RecvMark(s) ==
  /\ recv = "mark"
  /\ s \in recvSeq
  /\ recvSeq' = {}
  /\ \/ MarkReceived(s) /\ recv' = "select"
     \/ /\ AtSelect /\ store[s] = Absent
        /\ recv' = "select"
        /\ UNCHANGED trackerVars
     \/ /\ ~alive
        /\ recv' = "done"
        /\ UNCHANGED trackerVars
  /\ UNCHANGED <<ioVars, main, seq, inFlight, drain, drainEv, chClosed, crash,
                 reported>>

-----------------------------------------------------------------------------
(* The drain goroutine.                                                    *)

DrainReceive(e) ==
  /\ drain = "range"
  /\ Receive(e)
  /\ drain' = "forward"
  /\ drainEv' = {e}
  /\ UNCHANGED <<ioVars, main, seq, inFlight, recv, recvSeq, chClosed, crash,
                 reported>>

DrainEnd ==
  /\ drain = "range"
  /\ ~alive /\ recvEvC = <<>>
  /\ drain' = "done"
  /\ UNCHANGED <<trackerVars, ioVars, main, seq, inFlight, recv, recvSeq,
                 drainEv, chClosed, crash, reported>>

\* Mutant: an event the consumer is not ready for is dropped, not counted.
DrainForward_Drops ==
  /\ drain = "forward"
  /\ drain' = "range"
  /\ drainEv' = {}
  /\ UNCHANGED <<trackerVars, ioVars, main, seq, inFlight, recv, recvSeq,
                 chClosed, crash, reported>>

\* The select between the consumer of ch and the context.  A select that
\* picks the send on a closed channel panics.
DrainForward ==
  /\ drain = "forward"
  /\ \/ /\ ~chClosed
        /\ drain' = "count"
        /\ reported' = reported \cup {e[1] : e \in drainEv}
        /\ UNCHANGED <<drainEv, crash>>
     \/ /\ ctxDone
        /\ drain' = "done"
        /\ drainEv' = {}
        /\ UNCHANGED <<reported, crash>>
     \/ /\ chClosed
        /\ crash' = "send on closed channel"
        /\ UNCHANGED <<drain, drainEv, reported>>
  /\ UNCHANGED <<trackerVars, ioVars, main, seq, inFlight, recv, recvSeq,
                 chClosed>>

\* inFlightPktWg.Done panics below zero.
DrainCount ==
  /\ drain = "count"
  /\ \/ /\ inFlight > 0
        /\ inFlight' = inFlight - 1
        /\ drain' = "range"
        /\ drainEv' = {}
        /\ UNCHANGED crash
     \/ /\ inFlight = 0
        /\ crash' = "negative WaitGroup counter"
        /\ UNCHANGED <<inFlight, drain, drainEv>>
  /\ UNCHANGED <<trackerVars, ioVars, main, seq, recv, recvSeq, chClosed,
                 reported>>

-----------------------------------------------------------------------------
\* A panic in any goroutine ends the process.
Running == crash = "none" /\ ~panicked

Main == \/ MainNext \/ MainMarkSent \/ MainAdd \/ MainSend \/ MainSleep
        \/ MainSettled \/ MainClose \/ MainReturn

Receiver == RecvSelect \/ \E s \in Seqs : RecvMark(s)

Drain == DrainEnd \/ DrainForward \/ DrainCount \/ \E e \in Event : DrainReceive(e)

Loop == (IOStop \/ IOReadError \/ \E s \in Seqs : IORead(s))
          /\ UNCHANGED <<trackerVars, scannerVars>>

Tracker == TrackerStep /\ UNCHANGED <<ioVars, scannerVars>>

\* The client goes away, or the request is finished.
Cancel == CancelCtx /\ UNCHANGED <<ioVars, scannerVars>>

Next == Running /\ (Main \/ Receiver \/ Drain \/ Loop \/ Tracker \/ Cancel)

Spec == Init /\ [][Next]_allVars

\* Every goroutine that can take a step takes one; timers fire; the consumer
\* reads ch until it is closed.
Fairness ==
  /\ WF_allVars(Running /\ Main)
  /\ WF_allVars(Running /\ Receiver)
  /\ WF_allVars(Running /\ Drain)
  /\ WF_allVars(Running /\ (IOStop \/ \E s \in Seqs : IORead(s))
                        /\ UNCHANGED <<trackerVars, scannerVars>>)
  /\ WF_allVars(Running /\ OwnerExit /\ UNCHANGED <<ioVars, scannerVars>>)
  /\ \A s \in Seqs :
       /\ WF_allVars(Running /\ StartWaiter(s) /\ UNCHANGED <<ioVars, scannerVars>>)
       /\ WF_allVars(Running /\ TimerFires(s) /\ UNCHANGED <<ioVars, scannerVars>>)
       /\ WF_allVars(Running /\ HandleTimeout(s) /\ UNCHANGED <<ioVars, scannerVars>>)
       /\ WF_allVars(Running /\ EmitTimeout(s) /\ UNCHANGED <<ioVars, scannerVars>>)
       /\ WF_allVars(Running /\ CleanupEntry(s) /\ UNCHANGED <<ioVars, scannerVars>>)
  /\ \A e \in Event :
       WF_allVars(Running /\ SendEvent(e) /\ UNCHANGED <<ioVars, scannerVars>>)

FairSpec == Spec /\ Fairness

-----------------------------------------------------------------------------
\* The variables stay in their types.
ScannerTypeOK ==
  /\ TrackerTypeOK
  /\ IOTypeOK
  /\ main \in {"next", "mark", "add", "send", "sleep", "settle", "close",
               "wait", "done"}
  /\ seq \in 1..(NumAddresses + 1)
  /\ inFlight \in 0..NumAddresses
  /\ recv \in {"select", "mark", "done"}
  /\ recvSeq \subseteq Seqs
  /\ drain \in {"range", "forward", "count", "done"}
  /\ drainEv \subseteq Event
  /\ chClosed \in BOOLEAN
  /\ crash \in {"none", "negative WaitGroup counter", "send on closed channel"}
  /\ reported \subseteq Seqs

\* "every outstanding ping settles (via pong or timeout) before ch is
\* closed, unless the context is cancelled first".
AllSettledBeforeClose == chClosed /\ ~ctxDone => Sent \subseteq reported

\* As long as nobody cancels and no reply is duplicated, the output channel
\* is closed only after the last event was forwarded.
NoLateEvent == crash = "send on closed channel" => ctxDone

\* Closing the output is the last thing a scan does: every ping has settled
\* before, and no event comes after.
CloseIsLast == AllSettledBeforeClose /\ NoLateEvent

\* Without a cancellation or a socket failure the scan of the block comes to
\* an end, whatever replies get lost: nobody waits for anybody in a circle.
ScanEnds == <>(chClosed \/ ctxDone \/ IOReturned \/ ~Running)
=============================================================================
