---------------------------- MODULE TCPTracker ----------------------------
(***************************************************************************)
(* The SYN tracker of pkg/tcping/tcping.go.  Entries are keyed by address  *)
(* and port on both ends; for one destination the local port tells them    *)
(* apart.  One goroutine owns the store and serves one closure at a time,  *)
(* sending events on the unbuffered EventC from inside the closure.  The   *)
(* port of a probe is free again once its timer has fired, possibly before *)
(* the tracker has been told.                                              *)
(***************************************************************************)
EXTENDS Integers, FiniteSets

CONSTANTS Seqs,    \* packet numbers the model follows
          Ports,   \* local ports the kernel gives to net.Listen
          None

ASSUME TCPTrackerConstants ==
  /\ Seqs \subseteq Nat
  /\ None \notin Seqs \cup Ports

VARIABLES
  store,      \* the packet of the entry under a port
  counter,    \* the number of the next packet
  port,       \* the local port of a packet
  guard,      \* what watches over a packet: see GuardStates
  receivedC,  \* packets with a reply in the buffer of ReceivedC
  emitting,   \* the event the owner is sending on EventC, if any
  alive,      \* the owner runs; EventC and serviceChan are open
  ctxDone

trackerVars == <<store, counter, port, guard, receivedC, emitting, alive, ctxDone>>

(***************************************************************************)
(* marked: the goroutine of MarkSent waits on TimeoutC, and that of Send   *)
(* has not been started; armed: both wait; expired: the timer won, and     *)
(* handleTimeout is about to be called; done: both have returned.          *)
(***************************************************************************)
GuardStates == {"none", "marked", "armed", "expired", "done"}

Event == Seqs \X {"received", "timeout"}

TrackerInit ==
  /\ store = [p \in Ports |-> None]
  /\ counter = 0
  /\ port = [s \in Seqs |-> None]
  /\ guard = [s \in Seqs |-> "none"]
  /\ receivedC = {}
  /\ emitting = {}
  /\ alive = TRUE
  /\ ctxDone = FALSE

AtSelect == alive /\ emitting = {}

\* Ports whose listener is open.
Held == {port[s] : s \in {r \in Seqs : guard[r] \in {"marked", "armed"}}}

MarkSent(p) ==
  /\ AtSelect
  /\ counter \in Seqs
  /\ p \notin Held
  /\ store' = [store EXCEPT ![p] = counter]
  /\ port' = [port EXCEPT ![counter] = p]
  /\ guard' = [guard EXCEPT ![counter] = "marked"]
  /\ counter' = counter + 1
  /\ UNCHANGED <<receivedC, emitting, alive, ctxDone>>

\* Mutant: the entry is looked up and left in the store.
MarkReceived_Get(p) ==
  /\ AtSelect
  /\ store[p] # None
  /\ receivedC' = receivedC \cup {store[p]}
  /\ emitting' = {<<store[p], "received">>}
  /\ UNCHANGED <<store, counter, port, guard, alive, ctxDone>>

\* A SYN-ACK to port p, with an entry under it.
MarkReceived(p) ==
  /\ AtSelect
  /\ store[p] # None
  /\ receivedC' = receivedC \cup {store[p]}
  /\ emitting' = {<<store[p], "received">>}
  /\ store' = [store EXCEPT ![p] = None]
  /\ UNCHANGED <<counter, port, guard, alive, ctxDone>>

\* The goroutine of Send: the timer fires first, ...
TimerFires(s) ==
  /\ guard[s] = "armed"
  /\ guard' = [guard EXCEPT ![s] = "expired"]
  /\ UNCHANGED <<store, counter, port, receivedC, emitting, alive, ctxDone>>

\* ... or the reply is there, and a RST is sent.
SendReset(s) ==
  /\ guard[s] = "armed"
  /\ s \in receivedC
  /\ guard' = [guard EXCEPT ![s] = "done"]
  /\ UNCHANGED <<store, counter, port, receivedC, emitting, alive, ctxDone>>

\* Mutant: some entry is taken from the tree, not the one under the key.
HandleTimeout_AnyEntry(s) ==
  /\ AtSelect
  /\ guard[s] = "expired"
  /\ guard' = [guard EXCEPT ![s] = "done"]
  /\ \E p \in Ports : /\ store[p] # None
                      /\ emitting' = {<<store[p], "timeout">>}
                      /\ store' = [store EXCEPT ![p] = None]
  /\ UNCHANGED <<counter, port, receivedC, alive, ctxDone>>

\* Whatever entry is under the port now is deleted and reported lost.
HandleTimeout(s) ==
  /\ AtSelect
  /\ guard[s] = "expired"
  /\ guard' = [guard EXCEPT ![s] = "done"]
  /\ LET t == store[port[s]]
     IN  emitting' = IF t = None THEN {} ELSE {<<t, "timeout">>}
  /\ store' = [store EXCEPT ![port[s]] = None]
  /\ UNCHANGED <<counter, port, receivedC, alive, ctxDone>>

\* handleTimeout of a tracker that is closed.
HandleTimeoutLate(s) ==
  /\ ~alive
  /\ guard[s] = "expired"
  /\ guard' = [guard EXCEPT ![s] = "done"]
  /\ UNCHANGED <<store, counter, port, receivedC, emitting, alive, ctxDone>>

\* The consumer receives from EventC; the closure ends.
TakeEvent(e) ==
  /\ e \in emitting
  /\ emitting' = {}
  /\ UNCHANGED <<store, counter, port, guard, receivedC, alive, ctxDone>>

\* Run returns, which closes EventC and serviceChan.
OwnerExit ==
  /\ AtSelect
  /\ ctxDone
  /\ alive' = FALSE
  /\ UNCHANGED <<store, counter, port, guard, receivedC, emitting, ctxDone>>

CancelCtx ==
  /\ ~ctxDone
  /\ ctxDone' = TRUE
  /\ UNCHANGED <<store, counter, port, guard, receivedC, emitting, alive>>

TrackerStep ==
  \/ OwnerExit
  \/ \E s \in Seqs : TimerFires(s) \/ SendReset(s) \/ HandleTimeout(s) \/ HandleTimeoutLate(s)

TrackerTypeOK ==
  /\ store \in [Ports -> Seqs \cup {None}]
  /\ counter \in Nat
  /\ port \in [Seqs -> Ports \cup {None}]
  /\ guard \in [Seqs -> GuardStates]
  /\ \A s \in Seqs : guard[s] # "none" <=> port[s] # None
  /\ receivedC \subseteq Seqs
  /\ emitting \subseteq Event
  /\ alive \in BOOLEAN
  /\ ctxDone \in BOOLEAN
=============================================================================
