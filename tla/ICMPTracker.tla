---------------------------- MODULE ICMPTracker ----------------------------
(***************************************************************************)
(* The packet tracker of pkg/raw/tracker.go.  One goroutine (Run) owns the *)
(* store and serves one closure at a time; MarkSent, MarkReceived,         *)
(* handleTimeout, cleanupEntry and ForgetAllAndClose are such closures.    *)
(* Around it live the goroutines the closures spawn: per packet one that   *)
(* waits for the timer, per reply one that sends the event and one that    *)
(* cleans the entry up.  A closure is one step, except handleTimeout,      *)
(* which sends on RecvEvC from inside the owner goroutine and may block.   *)
(***************************************************************************)
EXTENDS Integers, Sequences, FiniteSets

CONSTANTS Seqs,        \* sequence numbers, each marked sent at most once
          MaxReplies,  \* bound: accepted replies per sequence number
          BufCap       \* TimeoutChannelEventBufferSize, 0 when unbuffered

ASSUME TrackerConstants ==
  /\ IsFiniteSet(Seqs)
  /\ MaxReplies \in Nat \ {0}
  /\ BufCap \in Nat

VARIABLES
  store,      \* replies recorded in the entry of a seq; Absent without entry
  ackedSeq,
  timer,      \* state of ent.Timer
  waiter,     \* the goroutine of MarkSent that waits for the timer
  senders,    \* events whose goroutine (MarkReceived) has yet to send them
  cleanups,   \* sleeping goroutines of MarkReceived, per seq
  emitting,   \* the seq whose timeout event the owner is sending, if any
  recvEvC,    \* buffer of RecvEvC
  alive,      \* the owner runs; RecvEvC and serviceChan are open
  closed, closeCh, ctxDone,
  panicked,   \* a goroutine sent on the closed RecvEvC: the process is dead
  delivered   \* history: how often the consumer got each event

trackerVars == <<store, ackedSeq, timer, waiter, senders, cleanups, emitting,
                 recvEvC, alive, closed, closeCh, ctxDone, panicked, delivered>>

Absent == -1

(***************************************************************************)
(* ReadonlyClone of an entry, reduced to its sequence number and the       *)
(* length of ReceivedAt: 0 is a timeout, 1 the first reply, more a         *)
(* duplicate.                                                              *)
(***************************************************************************)
Event == Seqs \X (0..MaxReplies)

TimeoutEvent(s) == <<s, 0>>

TrackerInit ==
  /\ store = [s \in Seqs |-> Absent]
  /\ ackedSeq = 0
  /\ timer = [s \in Seqs |-> "nil"]
  /\ waiter = [s \in Seqs |-> "none"]
  /\ senders = {}
  /\ cleanups = [s \in Seqs |-> 0]
  /\ emitting = {}
  /\ recvEvC = <<>>
  /\ alive = TRUE
  /\ closed = FALSE
  /\ closeCh = FALSE
  /\ ctxDone = FALSE
  /\ panicked = FALSE
  /\ delivered = [e \in Event |-> 0]

-----------------------------------------------------------------------------
(* The owner goroutine.                                                    *)

\* The owner is at its select: it offers the next service channel.
AtSelect == alive /\ emitting = {} /\ ~panicked

UnAckedSeqs == {s \in Seqs : store[s] = 0}

\* The value GetUnAcked returns; callable when AtSelect or when shut down.
GetUnAcked == IF alive THEN Cardinality(UnAckedSeqs) ELSE 0

GetAckedSeq == IF alive THEN ackedSeq ELSE 0

\* Both return values are read through the owner goroutine.
CanCall == (AtSelect \/ ~alive) /\ ~panicked

\* Run returns: the deferred calls close RecvEvC and serviceChan.
OwnerExit ==
  /\ AtSelect
  /\ ctxDone \/ closeCh
  /\ alive' = FALSE
  /\ UNCHANGED <<store, ackedSeq, timer, waiter, senders, cleanups, emitting,
                 recvEvC, closed, closeCh, ctxDone, panicked, delivered>>

\* Mutant: the entry is stored without a running timer.
MarkSent_NoTimer(s) ==
  /\ AtSelect
  /\ ~closed
  /\ waiter[s] = "none"
  /\ store' = [store EXCEPT ![s] = 0]
  /\ waiter' = [waiter EXCEPT ![s] = "new"]
  /\ UNCHANGED <<ackedSeq, timer, senders, cleanups, emitting, recvEvC, alive,
                 closed, closeCh, ctxDone, panicked, delivered>>

MarkSent(s) ==
  /\ AtSelect
  /\ ~closed
  /\ waiter[s] = "none"
  /\ store' = [store EXCEPT ![s] = 0]
  /\ timer' = [timer EXCEPT ![s] = "armed"]
  /\ waiter' = [waiter EXCEPT ![s] = "new"]
  /\ UNCHANGED <<ackedSeq, senders, cleanups, emitting, recvEvC, alive,
                 closed, closeCh, ctxDone, panicked, delivered>>

\* Mutant: every reply is counted, not only the first.
MarkReceived_CountsDuplicates(s) ==
  /\ AtSelect
  /\ ~closed
  /\ store[s] \in 0..(MaxReplies - 1)
  /\ timer' = [timer EXCEPT ![s] = "nil"]
  /\ ackedSeq' = ackedSeq + 1
  /\ store' = [store EXCEPT ![s] = @ + 1]
  /\ senders' = senders \cup {<<s, store[s] + 1>>}
  /\ cleanups' = [cleanups EXCEPT ![s] = @ + 1]
  /\ UNCHANGED <<waiter, emitting, recvEvC, alive, closed, closeCh, ctxDone,
                 panicked, delivered>>

\* A reply to a seq with an entry.  (Without one the reply is dropped.)
MarkReceived(s) ==
  /\ AtSelect
  /\ ~closed
  /\ store[s] \in 0..(MaxReplies - 1)
  /\ timer' = [timer EXCEPT ![s] = "nil"]
  /\ ackedSeq' = IF store[s] = 0 THEN ackedSeq + 1 ELSE ackedSeq
  /\ store' = [store EXCEPT ![s] = @ + 1]
  /\ senders' = senders \cup {<<s, store[s] + 1>>}
  /\ cleanups' = [cleanups EXCEPT ![s] = @ + 1]
  /\ UNCHANGED <<waiter, emitting, recvEvC, alive, closed, closeCh, ctxDone,
                 panicked, delivered>>

\* handleTimeout up to the point where the owner either is done or has to
\* send the timeout event.
HandleTimeout(s) ==
  /\ AtSelect
  /\ waiter[s] = "handle"
  /\ waiter' = [waiter EXCEPT ![s] = "done"]
  /\ \/ closed /\ UNCHANGED <<store, ackedSeq, emitting>>
     \/ /\ ~closed /\ store[s] = 0
        /\ ackedSeq' = ackedSeq + 1
        /\ emitting' = {s}
        /\ UNCHANGED store
     \/ /\ ~closed /\ store[s] # 0
        /\ store' = [store EXCEPT ![s] = Absent]
        /\ UNCHANGED <<ackedSeq, emitting>>
  /\ UNCHANGED <<timer, senders, cleanups, recvEvC, alive, closed, closeCh,
                 ctxDone, panicked, delivered>>

\* Mutant: the entry survives its timeout event.
EmitTimeout_KeepsEntry(s) ==
  /\ s \in emitting
  /\ ~panicked
  /\ Len(recvEvC) < BufCap
  /\ recvEvC' = Append(recvEvC, TimeoutEvent(s))
  /\ emitting' = {}
  /\ UNCHANGED <<store, ackedSeq, timer, waiter, senders, cleanups, alive,
                 closed, closeCh, ctxDone, panicked, delivered>>

\* The blocking send of the timeout event goes into the buffer; the owner
\* then deletes the entry and is back at its select.
EmitTimeout(s) ==
  /\ s \in emitting
  /\ ~panicked
  /\ Len(recvEvC) < BufCap
  /\ recvEvC' = Append(recvEvC, TimeoutEvent(s))
  /\ emitting' = {}
  /\ store' = [store EXCEPT ![s] = Absent]
  /\ UNCHANGED <<ackedSeq, timer, waiter, senders, cleanups, alive, closed,
                 closeCh, ctxDone, panicked, delivered>>

\* handleTimeout called after the shutdown returns at once.
HandleTimeoutLate(s) ==
  /\ ~alive
  /\ ~panicked
  /\ waiter[s] = "handle"
  /\ waiter' = [waiter EXCEPT ![s] = "done"]
  /\ UNCHANGED <<store, ackedSeq, timer, senders, cleanups, emitting, recvEvC,
                 alive, closed, closeCh, ctxDone, panicked, delivered>>

\* A cleanup goroutine wakes up, pktTimeout after its reply.
CleanupEntry(s) ==
  /\ CanCall
  /\ cleanups[s] > 0
  /\ cleanups' = [cleanups EXCEPT ![s] = @ - 1]
  /\ store' = IF alive THEN [store EXCEPT ![s] = Absent] ELSE store
  /\ UNCHANGED <<ackedSeq, timer, waiter, senders, emitting, recvEvC, alive,
                 closed, closeCh, ctxDone, panicked, delivered>>

\* ForgetAllAndClose: first the closure that stops the timers ...
ForgetAll ==
  /\ AtSelect
  /\ ~closed
  /\ closed' = TRUE
  /\ timer' = [s \in Seqs |->
                 IF store[s] # Absent /\ timer[s] = "armed" THEN "stopped"
                                                            ELSE timer[s]]
  /\ UNCHANGED <<store, ackedSeq, waiter, senders, cleanups, emitting, recvEvC,
                 alive, closeCh, ctxDone, panicked, delivered>>

\* ... then, back in the caller, close(it.closeCh).
CloseCloseCh ==
  /\ closed
  /\ ~closeCh
  /\ ~panicked
  /\ closeCh' = TRUE
  /\ UNCHANGED <<store, ackedSeq, timer, waiter, senders, cleanups, emitting,
                 recvEvC, alive, closed, ctxDone, panicked, delivered>>

-----------------------------------------------------------------------------
(* The spawned goroutines.                                                 *)

\* The goroutine of MarkSent starts: it gives up when a reply was faster.  (It
\* tests ent.Timer and reads ent.Timer.C without synchronisation; a reply that
\* sets the field to nil between the two is left out.)
StartWaiter(s) ==
  /\ waiter[s] = "new"
  /\ ~panicked
  /\ waiter' = [waiter EXCEPT ![s] = IF timer[s] = "nil" THEN "done"
                                                         ELSE "waiting"]
  /\ UNCHANGED <<store, ackedSeq, timer, senders, cleanups, emitting, recvEvC,
                 alive, closed, closeCh, ctxDone, panicked, delivered>>

\* The timer fires; the goroutine is about to call handleTimeout.
TimerFires(s) ==
  /\ waiter[s] = "waiting"
  /\ timer[s] = "armed"
  /\ ~panicked
  /\ timer' = [timer EXCEPT ![s] = "fired"]
  /\ waiter' = [waiter EXCEPT ![s] = "handle"]
  /\ UNCHANGED <<store, ackedSeq, senders, cleanups, emitting, recvEvC, alive,
                 closed, closeCh, ctxDone, panicked, delivered>>

\* The goroutine of a reply event sends it: on a closed channel this panics.
SendEvent(e) ==
  /\ e \in senders
  /\ ~panicked
  /\ \/ /\ alive
        /\ Len(recvEvC) < BufCap
        /\ recvEvC' = Append(recvEvC, e)
        /\ senders' = senders \ {e}
        /\ UNCHANGED panicked
     \/ /\ ~alive
        /\ panicked' = TRUE
        /\ UNCHANGED <<recvEvC, senders>>
  /\ UNCHANGED <<store, ackedSeq, timer, waiter, cleanups, emitting, alive,
                 closed, closeCh, ctxDone, delivered>>

\* The consumer takes e: from the buffer, or on an unbuffered channel from a
\* goroutine that is blocked sending it.
Receive(e) ==
  /\ ~panicked
  /\ \/ /\ recvEvC # <<>>
        /\ e = Head(recvEvC)
        /\ recvEvC' = Tail(recvEvC)
        /\ UNCHANGED <<store, senders, emitting>>
     \/ /\ BufCap = 0
        /\ alive
        /\ e \in senders
        /\ senders' = senders \ {e}
        /\ UNCHANGED <<store, recvEvC, emitting>>
     \/ /\ BufCap = 0
        /\ \E s \in emitting :
             /\ e = TimeoutEvent(s)
             /\ store' = [store EXCEPT ![s] = Absent]
        /\ emitting' = {}
        /\ UNCHANGED <<recvEvC, senders>>
  /\ delivered' = [delivered EXCEPT ![e] = @ + 1]
  /\ UNCHANGED <<ackedSeq, timer, waiter, cleanups, alive, closed, closeCh,
                 ctxDone, panicked>>

\* The context the tracker runs under is cancelled by its owner.
CancelCtx ==
  /\ ~ctxDone
  /\ ~panicked
  /\ ctxDone' = TRUE
  /\ UNCHANGED <<store, ackedSeq, timer, waiter, senders, cleanups, emitting,
                 recvEvC, alive, closed, closeCh, panicked, delivered>>

-----------------------------------------------------------------------------
(* The tracker with the most general caller.                               *)

\* Steps of the tracker's own goroutines.
TrackerStep ==
  \/ OwnerExit \/ CloseCloseCh
  \/ \E s \in Seqs : \/ HandleTimeout(s) \/ EmitTimeout(s)
                     \/ HandleTimeoutLate(s) \/ CleanupEntry(s)
                     \/ StartWaiter(s) \/ TimerFires(s)
  \/ \E e \in Event : SendEvent(e)

TrackerNext ==
  \/ TrackerStep
  \/ ForgetAll \/ CancelCtx
  \/ \E s \in Seqs : MarkSent(s) \/ MarkReceived(s)
  \/ \E e \in Event : Receive(e)

TrackerSpec == TrackerInit /\ [][TrackerNext]_trackerVars

\* Steps the Go scheduler and the timers take by themselves, and a consumer
\* that keeps receiving.
TrackerFairness ==
  /\ WF_trackerVars(OwnerExit)
  /\ \A s \in Seqs : /\ WF_trackerVars(StartWaiter(s))
                     /\ WF_trackerVars(TimerFires(s))
                     /\ WF_trackerVars(HandleTimeout(s))
                     /\ WF_trackerVars(EmitTimeout(s))
                     /\ WF_trackerVars(CleanupEntry(s))
  /\ \A e \in Event : WF_trackerVars(SendEvent(e))
  /\ WF_trackerVars(\E e \in Event : Receive(e))

FairTrackerSpec == TrackerSpec /\ TrackerFairness

-----------------------------------------------------------------------------
(* Properties.                                                             *)

\* The variables of the tracker stay in their types, RecvEvC within its
\* capacity.
TrackerTypeOK ==
  /\ store \in [Seqs -> (0..MaxReplies) \cup {Absent}]
  /\ ackedSeq \in Nat
  /\ timer \in [Seqs -> {"nil", "armed", "fired", "stopped"}]
  /\ waiter \in [Seqs -> {"none", "new", "waiting", "handle", "done"}]
  /\ senders \subseteq Event
  /\ cleanups \in [Seqs -> Nat]
  /\ emitting \subseteq Seqs
  /\ recvEvC \in Seq(Event)
  /\ Len(recvEvC) <= BufCap
  /\ alive \in BOOLEAN
  /\ closed \in BOOLEAN
  /\ closeCh \in BOOLEAN
  /\ ctxDone \in BOOLEAN
  /\ panicked \in BOOLEAN
  /\ delivered \in [Event -> Nat]

Sent == {s \in Seqs : waiter[s] # "none"}

Buffered(e) == \E i \in 1..Len(recvEvC) : recvEvC[i] = e

\* e is on its way to the consumer.
InFlight(e) == e \in senders \/ Buffered(e)
                 \/ \E s \in emitting : e = TimeoutEvent(s)

Generated(e) == InFlight(e) \/ delivered[e] > 0

\* Sequence numbers the tracker has passed a verdict on.
Judged == {s \in Seqs : \E k \in 0..MaxReplies : Generated(<<s, k>>)}

\* A timeout is final: a packet reported lost (an event with empty
\* ReceivedAt) is never reported answered as well, however the timer
\* goroutine, a late reply and the cleanup goroutines interleave.
VerdictIsFinal ==
  \A s \in Seqs : Generated(TimeoutEvent(s)) =>
                     \A k \in 1..MaxReplies : ~Generated(<<s, k>>)

\* ackedSeq, the counter SimplePinger stops by, is the number of packets
\* that were answered or timed out: a duplicate, or a reply that races its
\* own timeout, is counted once.
AckedSeqExact == ackedSeq = Cardinality(Judged)

\* No packet falls between the two counters: a packet marked sent is either
\* still counted by GetUnAcked or has an event, never both and never neither.
SentIsAccounted ==
  \A s \in Sent : (s \in UnAckedSeqs \ emitting) <=> (s \notin Judged)

\* The two counters the pinger stops by are exact together.
CountersExact == AckedSeqExact /\ SentIsAccounted

\* Every packet marked sent gets its event to the consumer, unless the
\* tracker is closed or its context is cancelled.
EverySentReported ==
  \A s \in Seqs : (s \in Sent) ~>
     (closed \/ ctxDone \/ \E k \in 0..MaxReplies : delivered[<<s, k>>] > 0)

\* Entries do not pile up: each one is removed again, by its timeout or, for
\* an answered packet, by the cleanup goroutine of the reply.
EntriesAreDropped ==
  \A s \in Seqs : (store[s] # Absent) ~> (store[s] = Absent \/ closed \/ ctxDone)

\* A packet that was sent is done with: its verdict reaches the consumer and
\* its entry leaves the map.
EverySentIsSettled == EverySentReported /\ EntriesAreDropped
=============================================================================
