----------------------------- MODULE TCPPinger -----------------------------
(***************************************************************************)
(* TCPSYNPinger.Ping of pkg/pinger/tcppinger.go for one destination, with  *)
(* the tracker (TCPTracker) and the sender of pkg/tcping/tcping.go.  Its   *)
(* main goroutine sends a SYN on every tick and reports every event of the *)
(* tracker; a second one hands the SYN-ACKs of the raw socket to the       *)
(* tracker.  The ticks come from a ticker, or, when there is a rate        *)
(* limiter, through the goroutines of throttleTicker.  The consumer of     *)
(* evCh always reads.                                                      *)
(***************************************************************************)
EXTENDS TCPTracker

CONSTANTS TotalPkts,     \* PingRequest.TotalPkts
          PipeDepth,     \* ticks the goroutines of throttleTicker can hold
          MaxReplies,    \* bound: SYN-ACKs per SYN
          SendErrors     \* whether sending may fail

ASSUME TCPPingerConstants ==
  /\ TotalPkts \in Nat \ {0}
  /\ 0..(TotalPkts - 1) \subseteq Seqs
  /\ PipeDepth \in Nat
  /\ MaxReplies \in Nat
  /\ SendErrors \in BOOLEAN

VARIABLES
  throttled,  \* there is a rate limiter
  ticking,    \* the ticker has not been stopped
  pipe,       \* ticks on their way through throttleTicker
  main,       \* where the main goroutine is
  held,       \* the event it is reporting, if any
  written,    \* SYNs written to the raw socket
  wire,       \* SYN-ACKs on their way, per packet
  recv,       \* the receiving goroutine runs
  recvPort,   \* the port of the SYN-ACK it holds, if any
  reported    \* history: how often an event was sent on evCh

pingerVars == <<throttled, ticking, pipe, main, held, written, wire, recv, recvPort,
                reported>>
allVars == <<trackerVars, pingerVars>>

Init ==
  /\ TrackerInit
  /\ throttled \in BOOLEAN
  /\ ticking = TRUE
  /\ pipe = 0
  /\ main = "select"
  /\ held = {}
  /\ written = 0
  /\ wire = [s \in Seqs |-> 0]
  /\ recv = TRUE
  /\ recvPort = None
  /\ reported = [e \in Event |-> 0]

MainGoes(from, to) == main = from /\ main' = to

Current == counter - 1

-----------------------------------------------------------------------------
(* Ticks.                                                                  *)

\* throttleTicker takes a tick from the ticker and holds it.
HoldTick ==
  /\ throttled /\ ticking /\ ~ctxDone
  /\ pipe < PipeDepth
  /\ pipe' = pipe + 1
  /\ UNCHANGED <<trackerVars, throttled, ticking, main, held, written, wire, recv,
                 recvPort, reported>>

\* A tick that a stopped ticker had not delivered is gone; those that
\* throttleTicker holds are not.  Send may fail before it marks the packet.
TakeTick ==
  /\ \/ MainGoes("select", "send")
     \/ SendErrors /\ MainGoes("select", "failing")
  /\ \/ ~throttled /\ ticking /\ UNCHANGED pipe
     \/ throttled /\ pipe > 0 /\ pipe' = pipe - 1
  /\ UNCHANGED <<trackerVars, throttled, ticking, held, written, wire, recv, recvPort,
                 reported>>

-----------------------------------------------------------------------------
(* Send.                                                                   *)

\* The packet is marked, but cannot be written.
WriteFails ==
  /\ SendErrors
  /\ MainGoes("write", "failing")
  /\ UNCHANGED <<trackerVars, throttled, ticking, pipe, held, written, wire, recv,
                 recvPort, reported>>

MainMarkSent ==
  /\ MainGoes("send", "write")
  /\ \E p \in Ports : MarkSent(p)
  /\ UNCHANGED <<throttled, ticking, pipe, held, written, wire, recv, recvPort, reported>>

\* The tracker is closed: the SYN goes out unnoticed by it.
SendUntracked ==
  /\ ~alive
  /\ written < Cardinality(Seqs)   \* bound
  /\ MainGoes("send", "select")
  /\ written' = written + 1
  /\ UNCHANGED <<trackerVars, throttled, ticking, pipe, held, wire, recv, recvPort, reported>>

\* The destination answers, perhaps more than once, or does not.
Write ==
  /\ MainGoes("write", "arm")
  /\ written' = written + 1
  /\ \E n \in 0..MaxReplies : wire' = [wire EXCEPT ![Current] = n]
  /\ UNCHANGED <<trackerVars, throttled, ticking, pipe, held, recv, recvPort, reported>>

\* The timer is armed and the goroutine of Send started; after the last
\* packet the ticker is stopped.
Arm ==
  /\ MainGoes("arm", "select")
  /\ guard' = [guard EXCEPT ![Current] = "armed"]
  /\ ticking' = (ticking /\ counter # TotalPkts)
  /\ UNCHANGED <<store, counter, port, receivedC, emitting, alive, ctxDone>>
  /\ UNCHANGED <<throttled, pipe, held, written, wire, recv, recvPort, reported>>

-----------------------------------------------------------------------------
(* The main goroutine on events, errors and cancellation.                  *)

MainTakeEvent(e) ==
  /\ MainGoes("select", "report")
  /\ TakeEvent(e)
  /\ held' = {e}
  /\ UNCHANGED <<throttled, ticking, pipe, written, wire, recv, recvPort, reported>>

\* Mutant: the ping ends when as many packets were answered.
Report_AnswersOnly(e) ==
  /\ e \in held
  /\ MainGoes("report", IF e = <<TotalPkts - 1, "received">> THEN "done" ELSE "select")
  /\ held' = {}
  /\ reported' = [reported EXCEPT ![e] = @ + 1]
  /\ UNCHANGED <<trackerVars, throttled, ticking, pipe, written, wire, recv, recvPort>>

\* evCh <- event.  The event of the last packet ends the ping, and only it
\* closes allConfirmedCh, on which the deferred function waits.
Report(e) ==
  /\ e \in held
  /\ MainGoes("report", IF e[1] + 1 = TotalPkts THEN "done" ELSE "select")
  /\ held' = {}
  /\ reported' = [reported EXCEPT ![e] = @ + 1]
  /\ UNCHANGED <<trackerVars, throttled, ticking, pipe, written, wire, recv, recvPort>>

\* The other returns wait on allConfirmedCh, for ever: after an error ...
ReportError ==
  /\ MainGoes("failing", "await")
  /\ UNCHANGED <<trackerVars, throttled, ticking, pipe, held, written, wire, recv,
                 recvPort, reported>>

\* ... and when the context is done, seen by itself, by the closed EventC or
\* by the closed channel of throttleTicker.
MainStops ==
  /\ ctxDone
  /\ MainGoes("select", "await")
  /\ UNCHANGED <<trackerVars, throttled, ticking, pipe, held, written, wire, recv,
                 recvPort, reported>>

-----------------------------------------------------------------------------
(* The receiving goroutine, behind GetPackets and FilterPackets.           *)

ReceivePacket(s) ==
  /\ recv
  /\ recvPort = None
  /\ wire[s] > 0
  /\ wire' = [wire EXCEPT ![s] = @ - 1]
  /\ recvPort' = port[s]
  /\ UNCHANGED <<trackerVars, throttled, ticking, pipe, main, held, written, recv, reported>>

\* Without an entry, or with a closed tracker, the SYN-ACK is dropped.
RecvMarkReceived ==
  /\ recvPort # None
  /\ \/ MarkReceived(recvPort)
     \/ /\ ~alive \/ (AtSelect /\ store[recvPort] = None)
        /\ UNCHANGED trackerVars
  /\ recvPort' = None
  /\ UNCHANGED <<throttled, ticking, pipe, main, held, written, wire, recv, reported>>

\* The context is done, or the raw socket was closed by a finished ping.
RecvStops ==
  /\ recv
  /\ recvPort = None
  /\ ctxDone \/ main = "done"
  /\ recv' = FALSE
  /\ UNCHANGED <<trackerVars, throttled, ticking, pipe, main, held, written, wire,
                 recvPort, reported>>

-----------------------------------------------------------------------------
Main ==
  \/ TakeTick \/ WriteFails \/ MainMarkSent \/ SendUntracked \/ Write \/ Arm
  \/ ReportError \/ MainStops
  \/ \E e \in Event : MainTakeEvent(e) \/ Report(e)

Receiver == RecvMarkReceived \/ RecvStops \/ \E s \in Seqs : ReceivePacket(s)

Tracker == TrackerStep /\ UNCHANGED pingerVars

Cancel == CancelCtx /\ UNCHANGED pingerVars

Next == Main \/ Receiver \/ HoldTick \/ Tracker \/ Cancel

Spec == Init /\ [][Next]_allVars

\* Goroutines that can run do, ticks come and timers fire.  Nobody is forced
\* to cancel the context.
Fairness ==
  /\ WF_allVars(Main)
  /\ WF_allVars(HoldTick)
  /\ WF_allVars(RecvMarkReceived)
  /\ WF_allVars(OwnerExit /\ UNCHANGED pingerVars)
  /\ \A s \in Seqs :
       /\ WF_allVars((TimerFires(s) \/ SendReset(s)) /\ UNCHANGED pingerVars)
       /\ WF_allVars((HandleTimeout(s) \/ HandleTimeoutLate(s)) /\ UNCHANGED pingerVars)
       /\ WF_allVars(ReceivePacket(s))

FairSpec == Spec /\ Fairness

-----------------------------------------------------------------------------
\* The variables stay in their types, and throttleTicker holds no more ticks
\* than it has goroutines.
TCPTypeOK ==
  /\ TrackerTypeOK
  /\ throttled \in BOOLEAN
  /\ ticking \in BOOLEAN
  /\ pipe \in 0..PipeDepth
  /\ main \in {"select", "send", "write", "arm", "report", "failing", "await", "done"}
  /\ held \subseteq Event
  /\ written \in Nat
  /\ wire \in [Seqs -> 0..MaxReplies]
  /\ recv \in BOOLEAN
  /\ recvPort \in Ports \cup {None}
  /\ reported \in [Event -> Nat]

OnItsWay(e) == e \in emitting \cup held

Reported(e) == OnItsWay(e) \/ reported[e] > 0

\* One verdict per SYN: the timer, a SYN-ACK and its retransmissions race, a
\* port is used again before its old timeout is handled, and yet no packet is
\* reported twice, or both lost and answered.
OneVerdict ==
  \A s \in Seqs :
    /\ \A e \in {<<s, "received">>, <<s, "timeout">>} :
         reported[e] + (IF OnItsWay(e) THEN 1 ELSE 0) <= 1
    /\ ~(Reported(<<s, "received">>) /\ Reported(<<s, "timeout">>))

\* An entry never stays for good: a goroutine will expire it, unless Send is
\* not through with it yet, or failed to write it.
EntryExpires ==
  alive => \A p \in Ports : LET s == store[p] IN
    s # None => /\ port[s] = p
                /\ \/ guard[s] \in {"armed", "expired"}
                   \/ guard[s] = "marked" /\ s = Current
                        /\ main \in {"write", "arm", "failing", "await"}

\* A packet is reported lost only when its timer has fired, or when it got
\* the port of an earlier packet whose timeout was still to be handled.
LossIsDue ==
  \A s \in Seqs : Reported(<<s, "timeout">>) =>
    \/ guard[s] \in {"expired", "done"}
    \/ \E r \in Seqs : r < s /\ port[r] = port[s]

\* Every entry is expired in the end, and none before its time.
EntriesExpireWhenDue == EntryExpires /\ LossIsDue

\* Send waits for the owner, which waits for the main goroutine to receive
\* an event.
Deadlocked == main = "send" /\ emitting # {}

\* A packet beyond the count took the place of the last one in the store.
LastIsReplaced ==
  \E r \in Seqs : r \in TotalPkts..Current /\ port[r] = port[TotalPkts - 1]

\* Without an error and without a cancellation the ping of the destination
\* ends, but for two known cases: Send and the owner deadlock, or the event
\* of the last packet never comes because a packet too many replaced it.
PingEnds ==
  <>(main \in {"done", "failing"} \/ ctxDone \/ Deadlocked \/ LastIsReplaced)

\* "pre-allocate 1 slot for error reporting, so that it can exit once there
\* is an error".
ErrorEndsPing == (main = "failing" /\ ~ctxDone) ~> main = "done"
=============================================================================
