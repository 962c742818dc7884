---------------------------- MODULE MCAgentParts ----------------------------
(* Model-checking instance: the ICMP pinger of one target, and the two rate *)
(* limiters of pkg/ratelimit, each on its own.  All streams of the token    *)
(* pool share one key (GlobalKeyFunc), all requests of the window too.      *)
EXTENDS SimplePinger, TokenPool, SlidingWindow

CONSTANTS s1, s2, k1

SharedKey == [s \in Streams |-> k1]

VARIABLE runs   \* the part that runs

PartsInit ==
  /\ runs \in {"pinger", "duplicates", "pool", "window"}
  /\ PingerInit /\ Init /\ WindowInit

\* Bounds of the pinger: in one part sockets fail and no reply comes twice, in
\* the other the reply to the first packet may, there are two packets, and
\* sockets work.
PingerBound == \A s \in Seqs : wire'[s] <= 1

DuplicatesBound ==
  /\ \A s \in Seqs \ {1} : wire'[s] = 0
  /\ ~ioErr' /\ ~errCh'
  /\ curSeq' <= 2

PingerGoes(A) ==
  /\ Running /\ A
  /\ \/ runs = "pinger" /\ PingerBound
     \/ runs = "duplicates" /\ DuplicatesBound

PartsNext ==
  /\ UNCHANGED runs
  /\ \/ PingerGoes(PingerNext) /\ UNCHANGED <<vars, windowVars>>
     \/ runs = "pool" /\ Next /\ UNCHANGED <<allVars, windowVars>>
     \/ runs = "window" /\ WindowNext /\ UNCHANGED <<allVars, vars>>

TrackerGoes(A) == PingerGoes(A /\ UNCHANGED <<ioVars, pingerVars>>)

PoolGoes(A) == runs = "pool" /\ ~fatal /\ A

PartsSpec ==
  /\ PartsInit /\ [][PartsNext]_<<runs, allVars, vars, windowVars>>
  /\ WF_allVars(PingerGoes(EvGen))
  /\ WF_allVars(PingerGoes(Sender))
  /\ \A s \in Seqs : WF_allVars(TrackerGoes(EmitTimeout(s)))
  /\ WF_allVars(TrackerGoes(OwnerExit))
  /\ WF_allVars(TrackerGoes(CloseCloseCh))
  /\ WF_vars(PoolGoes(Refresh))
  /\ \A s \in Streams : /\ WF_vars(PoolGoes(StreamStep(s)))
                        /\ WF_vars(PoolGoes(~streamDone[s] /\ Forward(s)))
  /\ WindowFairness
=============================================================================
