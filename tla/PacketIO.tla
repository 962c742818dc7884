------------------------------ MODULE PacketIO ------------------------------
(***************************************************************************)
(* The goroutine of GetIO in pkg/raw/icmp.go, and the network behind it.   *)
(* One goroutine takes requests from inC, reads replies from the socket    *)
(* and hands them to outC; all three channels are unbuffered, so while it  *)
(* waits for a reader of outC it accepts no request.  ICMPv4 and ICMPv6    *)
(* transceivers have the same loop.                                        *)
(***************************************************************************)
EXTENDS ICMPTracker

CONSTANT SocketErrors   \* whether sending and reading may fail

ASSUME PacketIOConstants == SocketErrors \in BOOLEAN

VARIABLES
  wire,     \* replies the network has yet to bring, per seq
  io,       \* where the loop is: its select, delivering on outC, or returned
  deliver,  \* the seq of the reply being delivered, if any
  ioErr     \* an error waits in errC

ioVars == <<wire, io, deliver, ioErr>>

IOInit ==
  /\ wire = [s \in Seqs |-> 0]
  /\ io = "select"
  /\ deliver = {}
  /\ ioErr = FALSE

\* outC and errC are closed once the loop has returned.
IOReturned == io = "returned"

IOFails ==
  /\ SocketErrors
  /\ io' = "returned"
  /\ ioErr' = TRUE
  /\ UNCHANGED <<wire, deliver>>

\* The loop receives the request for s from inC and sends the packet.  The
\* network answers it some number of times, or never.
IOAccept(s) ==
  /\ io = "select"
  /\ \/ /\ \E n \in 0..MaxReplies : wire' = [wire EXCEPT ![s] = n]
        /\ UNCHANGED <<io, deliver, ioErr>>
     \/ IOFails

\* A reply is read from the socket (replies may overtake each other).
IORead(s) ==
  /\ io = "select"
  /\ wire[s] > 0
  /\ wire' = [wire EXCEPT ![s] = @ - 1]
  /\ io' = "deliver"
  /\ deliver' = {s}
  /\ UNCHANGED ioErr

IOReadError == io = "select" /\ IOFails

\* The reader of outC receives the reply.
IOHandOver(s) ==
  /\ io = "deliver"
  /\ s \in deliver
  /\ io' = "select"
  /\ deliver' = {}
  /\ UNCHANGED <<wire, ioErr>>

\* The loop notices the cancelled context, but only at its select.
IOStop ==
  /\ io = "select"
  /\ ctxDone
  /\ io' = "returned"
  /\ UNCHANGED <<wire, deliver, ioErr>>

\* The reader of errC takes the error.
IOTakeError ==
  /\ ioErr
  /\ ioErr' = FALSE
  /\ UNCHANGED <<wire, io, deliver>>

IOTypeOK ==
  /\ wire \in [Seqs -> 0..MaxReplies]
  /\ io \in {"select", "deliver", "returned"}
  /\ deliver \subseteq Seqs /\ Cardinality(deliver) <= 1
  /\ ioErr \in BOOLEAN
=============================================================================
