---------------------------- MODULE SimplePinger ----------------------------
(***************************************************************************)
(* SimplePinger.Ping of pkg/pinger/ping.go for one target.  The sending    *)
(* goroutine turns control signals into requests and replies into calls of *)
(* the tracker; the event-generating goroutine turns tracker events into   *)
(* output events and, one per event, into the next control signal.  It is  *)
(* composed of the tracker (ICMPTracker) and the transceiver loop          *)
(* (PacketIO).  TTL, payload and name resolution are left out, and so is   *)
(* the rate limiter between the sender and inC.                            *)
(***************************************************************************)
EXTENDS PacketIO

CONSTANTS TotalPkts,   \* pingRequest.TotalPkts, never nil behind the clamp
          MaxSeq       \* bound: the largest seq the model follows

ASSUME SimplePingerConstants ==
  /\ TotalPkts \in Nat \ {0}
  /\ MaxSeq \in Nat
  /\ TotalPkts <= MaxSeq
  /\ Seqs = 1..MaxSeq

VARIABLES
  evGen,        \* where the event-generating goroutine is
  numPktsSent,  \* its counter, one per event
  unAcked,      \* what its call of GetUnAcked returned
  ctrlSignals,  \* buffer (capacity 1) of the channel to the sender
  ctrlClosed,
  sender,       \* where the sending goroutine is
  curSeq,       \* seq of the reply or request it holds
  errCh,        \* transceiverErrCh: the loop of Run failed
  sent          \* history: seqs the transceiver loop has accepted

evGenVars == <<evGen, numPktsSent, unAcked>>
senderVars == <<sender, curSeq>>
pingerVars == <<evGen, numPktsSent, unAcked, ctrlSignals, ctrlClosed, sender,
                curSeq, errCh, sent>>
allVars == <<trackerVars, ioVars, pingerVars>>

PingerInit ==
  /\ TrackerInit
  /\ IOInit
  /\ evGen = "select"
  /\ numPktsSent = 0
  /\ unAcked = 0
  /\ ctrlSignals = <<1>>
  /\ ctrlClosed = FALSE
  /\ sender = "select"
  /\ curSeq = 0
  /\ errCh = FALSE
  /\ sent = {}

-----------------------------------------------------------------------------
(* The event-generating goroutine.                                         *)

\* Its deferred calls close ctrlSignals and waitForEVGenCh, which ends the
\* ping of this target.
EvGenReturns == evGen' = "done" /\ ctrlClosed' = TRUE

\* Mutant: the sender is awaited instead of the context.
EvGenEnds_NoContext ==
  /\ evGen = "select"
  /\ sender = "done" /\ ~alive /\ recvEvC = <<>>
  /\ EvGenReturns
  /\ UNCHANGED <<trackerVars, ioVars, numPktsSent, unAcked, ctrlSignals,
                 senderVars, errCh, sent>>

EvGenEnds ==
  /\ evGen = "select"
  /\ ctxDone \/ (~alive /\ recvEvC = <<>>)
  /\ EvGenReturns
  /\ UNCHANGED <<trackerVars, ioVars, numPktsSent, unAcked, ctrlSignals,
                 senderVars, errCh, sent>>

EvGenReceive(e) ==
  /\ evGen = "select"
  /\ Receive(e)
  /\ evGen' = "output"
  /\ UNCHANGED <<ioVars, numPktsSent, unAcked, ctrlSignals, ctrlClosed,
                 senderVars, errCh, sent>>

\* The consumer takes the output event.
EvGenOutput ==
  /\ evGen = "output"
  /\ numPktsSent' = numPktsSent + 1
  /\ evGen' = "getUnAcked"
  /\ UNCHANGED <<trackerVars, ioVars, unAcked, ctrlSignals, ctrlClosed,
                 senderVars, errCh, sent>>

\* tracker.GetUnAcked() == 0 ...
EvGenGetUnAcked ==
  /\ evGen = "getUnAcked"
  /\ CanCall
  /\ unAcked' = GetUnAcked
  /\ evGen' = IF GetUnAcked = 0 THEN "getAckedSeq" ELSE "control"
  /\ UNCHANGED <<trackerVars, ioVars, numPktsSent, ctrlSignals, ctrlClosed,
                 senderVars, errCh, sent>>

\* Mutant: the limit is compared before the last packet is counted.
EvGenGetAckedSeq_OffByOne ==
  /\ evGen = "getAckedSeq"
  /\ CanCall
  /\ \/ GetAckedSeq = TotalPkts + 1 /\ EvGenReturns
     \/ GetAckedSeq # TotalPkts + 1 /\ evGen' = "control" /\ UNCHANGED ctrlClosed
  /\ UNCHANGED <<trackerVars, ioVars, numPktsSent, unAcked, ctrlSignals,
                 senderVars, errCh, sent>>

\* Mutant: every event is taken for the event of the last packet.
EvGenGetAckedSeq_CountsEvents ==
  /\ evGen = "getAckedSeq"
  /\ CanCall
  /\ \/ numPktsSent >= TotalPkts - 1 /\ EvGenReturns
     \/ numPktsSent < TotalPkts - 1 /\ evGen' = "control" /\ UNCHANGED ctrlClosed
  /\ UNCHANGED <<trackerVars, ioVars, numPktsSent, unAcked, ctrlSignals,
                 senderVars, errCh, sent>>

\* ... && tracker.GetAckedSeq() == *TotalPkts, a second call of the owner.
EvGenGetAckedSeq ==
  /\ evGen = "getAckedSeq"
  /\ CanCall
  /\ \/ GetAckedSeq = TotalPkts /\ EvGenReturns
     \/ GetAckedSeq # TotalPkts /\ evGen' = "control" /\ UNCHANGED ctrlClosed
  /\ UNCHANGED <<trackerVars, ioVars, numPktsSent, unAcked, ctrlSignals,
                 senderVars, errCh, sent>>

\* After the interval the next control signal goes to the sender; the send
\* waits for room in the channel whatever happens to the context.
EvGenControl ==
  /\ evGen = "control"
  /\ Len(ctrlSignals) < 1
  /\ ctrlSignals' = Append(ctrlSignals, numPktsSent + 1)
  /\ evGen' = "select"
  /\ UNCHANGED <<trackerVars, ioVars, numPktsSent, unAcked, ctrlClosed,
                 senderVars, errCh, sent>>

-----------------------------------------------------------------------------
(* The sending goroutine.                                                  *)

SenderGoes(pc) == sender' = pc

\* ctx.Done closes the transceiver; a closed outC, an error in errC and the
\* closed ctrlSignals end the goroutine and nothing else.
SenderEnds ==
  /\ sender = "select"
  /\ \/ (ctxDone \/ IOReturned) /\ UNCHANGED ioVars
     \/ IOTakeError
     \/ ctrlClosed /\ ctrlSignals = <<>> /\ UNCHANGED ioVars
  /\ SenderGoes("done")
  /\ UNCHANGED <<trackerVars, evGenVars, ctrlSignals, ctrlClosed, curSeq,
                 errCh, sent>>

SenderTakeReply(s) ==
  /\ sender = "select"
  /\ IOHandOver(s)
  /\ curSeq' = s
  /\ SenderGoes("markReceived")
  /\ UNCHANGED <<trackerVars, evGenVars, ctrlSignals, ctrlClosed, errCh, sent>>

\* A reply without entry is dropped by the tracker; after its shutdown
\* MarkReceived fails and the goroutine returns.
SenderMarkReceived ==
  /\ sender = "markReceived"
  /\ \/ MarkReceived(curSeq) /\ SenderGoes("select")
     \/ /\ AtSelect /\ store[curSeq] = Absent
        /\ SenderGoes("select")
        /\ UNCHANGED trackerVars
     \/ ~alive /\ SenderGoes("done") /\ UNCHANGED trackerVars
  /\ UNCHANGED <<ioVars, evGenVars, ctrlSignals, ctrlClosed, curSeq, errCh,
                 sent>>

\* transceiverErrCh has an error, or was closed with the context: the tracker
\* is told to forget everything.  (CloseCloseCh completes the call.)
SenderTransceiverError ==
  /\ sender = "select"
  /\ errCh \/ ctxDone
  /\ errCh' = FALSE
  /\ SenderGoes("done")
  /\ \/ ForgetAll
     \/ ~alive /\ UNCHANGED trackerVars
  /\ UNCHANGED <<ioVars, evGenVars, ctrlSignals, ctrlClosed, curSeq, sent>>

SenderTakeControl ==
  /\ sender = "select"
  /\ ctrlSignals # <<>> /\ Head(ctrlSignals) <= MaxSeq
  /\ curSeq' = Head(ctrlSignals)
  /\ ctrlSignals' = Tail(ctrlSignals)
  /\ SenderGoes("markSent")
  /\ UNCHANGED <<trackerVars, ioVars, evGenVars, ctrlClosed, errCh, sent>>

SenderMarkSent ==
  /\ sender = "markSent"
  /\ \/ MarkSent(curSeq) /\ SenderGoes("send")
     \/ ~alive /\ SenderGoes("done") /\ UNCHANGED trackerVars
  /\ UNCHANGED <<ioVars, evGenVars, ctrlSignals, ctrlClosed, curSeq, errCh,
                 sent>>

\* inC <- req: no other case, so it waits for the transceiver loop.
SenderSend ==
  /\ sender = "send"
  /\ IOAccept(curSeq)
  /\ sent' = sent \cup {curSeq}
  /\ SenderGoes("select")
  /\ UNCHANGED <<trackerVars, evGenVars, ctrlSignals, ctrlClosed, curSeq,
                 errCh>>

\* The socket of the loop that Run started fails.
RunFails ==
  /\ SocketErrors
  /\ ~errCh /\ ~closed /\ sender # "done"
  /\ errCh' = TRUE
  /\ UNCHANGED <<trackerVars, ioVars, evGenVars, ctrlSignals, ctrlClosed,
                 senderVars, sent>>

-----------------------------------------------------------------------------
Running == ~panicked

EvGen == \/ EvGenEnds \/ EvGenOutput \/ EvGenGetUnAcked \/ EvGenGetAckedSeq
         \/ EvGenControl
         \/ \E e \in Event : EvGenReceive(e)

Sender == \/ SenderEnds \/ SenderMarkReceived \/ SenderTransceiverError
          \/ SenderTakeControl \/ SenderMarkSent \/ SenderSend
          \/ \E s \in Seqs : SenderTakeReply(s)

Loop == (IOStop \/ IOReadError \/ \E s \in Seqs : IORead(s))
          /\ UNCHANGED <<trackerVars, pingerVars>>

Tracker == TrackerStep /\ UNCHANGED <<ioVars, pingerVars>>

CancelPing == CancelCtx /\ UNCHANGED <<ioVars, pingerVars>>

PingerNext == Running /\ (EvGen \/ Sender \/ Loop \/ Tracker \/ CancelPing \/ RunFails)

PingerSpec == PingerInit /\ [][PingerNext]_allVars

\* Every goroutine that can take a step takes one, timers fire, the consumer
\* reads the output; a cancellation is never forced.
PingerFairness ==
  /\ WF_allVars(Running /\ EvGen)
  /\ WF_allVars(Running /\ Sender)
  /\ WF_allVars(Running /\ IOStop /\ UNCHANGED <<trackerVars, pingerVars>>)
  /\ \A s \in Seqs :
       /\ WF_allVars(Running /\ IORead(s) /\ UNCHANGED <<trackerVars, pingerVars>>)
       /\ WF_allVars(Running /\ StartWaiter(s) /\ UNCHANGED <<ioVars, pingerVars>>)
       /\ WF_allVars(Running /\ TimerFires(s) /\ UNCHANGED <<ioVars, pingerVars>>)
       /\ WF_allVars(Running /\ HandleTimeout(s) /\ UNCHANGED <<ioVars, pingerVars>>)
       /\ WF_allVars(Running /\ EmitTimeout(s) /\ UNCHANGED <<ioVars, pingerVars>>)
       /\ WF_allVars(Running /\ CleanupEntry(s) /\ UNCHANGED <<ioVars, pingerVars>>)
  /\ \A e \in Event :
       WF_allVars(Running /\ SendEvent(e) /\ UNCHANGED <<ioVars, pingerVars>>)
  /\ WF_allVars(Running /\ OwnerExit /\ UNCHANGED <<ioVars, pingerVars>>)
  /\ WF_allVars(Running /\ CloseCloseCh /\ UNCHANGED <<ioVars, pingerVars>>)

PingerFairSpec == PingerSpec /\ PingerFairness

-----------------------------------------------------------------------------
\* A reply was recorded twice: the tracker reports the packet twice.
Duplicated == \E s \in Seqs : \E k \in 2..MaxReplies : Generated(<<s, k>>)

\* "Doing so cause it send out 3 icmp echo request packets to the destination
\* specified": no packet beyond the requested number is sent.
WithinCount == Cardinality(sent) <= TotalPkts

\* "Max number of packets to send: %d, received ev of seq %d, no more icmp
\* events will be generated": the ping ends by itself only after every packet
\* asked for was answered or timed out and its event was delivered.
CompleteAtEnd ==
  evGen = "done" /\ ~ctxDone /\ ~closed /\ ~Duplicated =>
     \A s \in 1..TotalPkts : \E k \in 0..MaxReplies : delivered[<<s, k>>] > 0

\* "Doing so cause it send out 3 icmp echo request packets": without errors
\* and without a cancellation all the packets asked for are sent.
CountIsSent == <>(Cardinality(sent) = TotalPkts \/ ctxDone \/ ~Running)

\* The event of a duplicated reply asks for a packet while the signal for
\* the one before is still in the channel: the send waits for the sender, and
\* watches no context.
ControlBlocked == Duplicated /\ evGen = "control" /\ ctrlSignals # <<>>

\* After a cancellation, or an error of the transceiver that made the sender
\* close the tracker, the ping of the target returns, unless a duplicated
\* reply has left it before the full channel of the signals.  (With room for
\* an event in RecvEvC.  Without it, which a timeout shorter than the interval
\* gives, a duplicate can also leave the goroutine calling an owner that is
\* itself sending an event.)
CancelEndsPing ==
  ctxDone \/ closed ~> (evGen = "done" \/ ~Running \/ ControlBlocked)
=============================================================================
