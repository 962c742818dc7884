----------------------------- MODULE TokenPool -----------------------------
(***************************************************************************)
(* The outbound rate limiting of an agent: the token pool of               *)
(* pkg/ratelimit/pool.go, one goroutine all probes share, and the limiters *)
(* that GetIO (ratelimit.go) starts, one per stream of requests.  Around   *)
(* each limiter two more goroutines feed inC from a source and forward     *)
(* outC to a destination, in the same shape at all four places of use.     *)
(* The refresh of the tokens is the only clock.                            *)
(***************************************************************************)
EXTENDS Integers, FiniteSets

CONSTANTS Streams,           \* one limiter each
          Keys,
          KeyOf,             \* rl.GetKey of the items of a stream
          NumTokensPerKey,
          NumItems           \* items of the source of a stream

ASSUME PoolConstants ==
  /\ IsFiniteSet(Streams)
  /\ KeyOf \in [Streams -> Keys]
  /\ NumTokensPerKey \in Nat
  /\ NumItems \in Nat

VARIABLES
  poolRuns,   \* the goroutine of Run is alive
  tokensMap,  \* tokens left; a key without entry counts as full
  listeners,  \* streams whose listener channel the next refresh closes
  fatal,      \* a limiter met the stopped pool: log.Fatal
  feeder,     \* items the feeding goroutine has handed to the limiter
  inClosed,
  limiter,    \* where the limiter goroutine is
  forwarder,  \* "recv", "send" or "done"
  arrived,    \* items the destination got
  streamDone,    \* the context of the stream
  granted,    \* history: tokens granted since the last refresh, per key
  emitted     \* history: items that left a limiter since, per key

poolVars == <<poolRuns, tokensMap, listeners, fatal>>
streamVars == <<feeder, inClosed, forwarder, arrived, streamDone>>
history == <<granted, emitted>>
vars == <<poolRuns, tokensMap, listeners, fatal, feeder, inClosed, limiter,
          forwarder, arrived, streamDone, granted, emitted>>

Full == [k \in Keys |-> NumTokensPerKey]

Init ==
  /\ poolRuns = TRUE
  /\ tokensMap = Full
  /\ listeners = {}
  /\ fatal = FALSE
  /\ feeder = [s \in Streams |-> 0]
  /\ inClosed = [s \in Streams |-> FALSE]
  /\ limiter = [s \in Streams |-> "select"]
  /\ forwarder = [s \in Streams |-> "recv"]
  /\ arrived = [s \in Streams |-> 0]
  /\ streamDone = [s \in Streams |-> FALSE]
  /\ granted = [k \in Keys |-> 0]
  /\ emitted = [k \in Keys |-> 0]

LimiterGoes(s, place) == limiter' = [limiter EXCEPT ![s] = place]

-----------------------------------------------------------------------------
(* The pool.                                                               *)

\* Mutant: the listeners are forgotten without being closed.
Refresh_DropsListeners ==
  /\ poolRuns
  /\ tokensMap' = Full
  /\ listeners' = {}
  /\ granted' = [k \in Keys |-> 0]
  /\ emitted' = [k \in Keys |-> 0]
  /\ UNCHANGED <<poolRuns, fatal, limiter, streamVars>>

\* The ticker fires: a new map, and every listener is woken.
Refresh ==
  /\ poolRuns
  /\ tokensMap' = Full
  /\ limiter' = [s \in Streams |-> IF s \in listeners THEN "retry" ELSE limiter[s]]
  /\ listeners' = {}
  /\ granted' = [k \in Keys |-> 0]
  /\ emitted' = [k \in Keys |-> 0]
  /\ UNCHANGED <<poolRuns, fatal, streamVars>>

\* The context of the agent is done.  The listeners stay open.
PoolExit ==
  /\ poolRuns
  /\ poolRuns' = FALSE
  /\ UNCHANGED <<tokensMap, listeners, fatal, limiter, streamVars, history>>

-----------------------------------------------------------------------------
(* The limiter of a stream.                                                *)

\* It takes the next item from the feeder.
TakeItem(s) ==
  /\ limiter[s] = "select"
  /\ ~inClosed[s]
  /\ feeder[s] < NumItems
  /\ feeder' = [feeder EXCEPT ![s] = @ + 1]
  /\ LimiterGoes(s, "consume")
  /\ UNCHANGED <<poolVars, inClosed, forwarder, arrived, streamDone, history>>

\* The source is used up and the feeder has closed inC.
CloseIn(s) ==
  /\ ~inClosed[s]
  /\ feeder[s] = NumItems
  /\ inClosed' = [inClosed EXCEPT ![s] = TRUE]
  /\ UNCHANGED <<poolVars, limiter, feeder, forwarder, arrived, streamDone, history>>

\* It returns, closing outC; the context is looked at nowhere else.
LimiterReturn(s) ==
  /\ limiter[s] = "select"
  /\ inClosed[s] \/ streamDone[s]
  /\ LimiterGoes(s, "done")
  /\ UNCHANGED <<poolVars, streamVars, history>>

\* Mutant: the last token of the key is granted twice.
Consume_OffByOne(s) ==
  LET k == KeyOf[s] IN
  /\ poolRuns
  /\ limiter[s] \in {"consume", "retry"}
  /\ tokensMap' = [tokensMap EXCEPT ![k] = @ - 1]
  /\ \/ /\ tokensMap[k] >= 0
        /\ granted' = [granted EXCEPT ![k] = @ + 1]
        /\ LimiterGoes(s, "emit")
     \/ /\ tokensMap[k] < 0
        /\ LimiterGoes(s, "register")
        /\ UNCHANGED granted
  /\ UNCHANGED <<poolRuns, listeners, fatal, streamVars, emitted>>

\* Pool.Consume: the counter goes down even when nothing is left.
Consume(s) ==
  LET k == KeyOf[s] IN
  /\ poolRuns
  /\ limiter[s] \in {"consume", "retry"}
  /\ tokensMap' = [tokensMap EXCEPT ![k] = @ - 1]
  /\ \/ /\ tokensMap[k] >= 1
        /\ granted' = [granted EXCEPT ![k] = @ + 1]
        /\ LimiterGoes(s, "emit")
     \/ /\ tokensMap[k] < 1
        /\ LimiterGoes(s, "register")
        /\ UNCHANGED granted
  /\ UNCHANGED <<poolRuns, listeners, fatal, streamVars, emitted>>

\* Pool.WaitForRefresh, a second call: a refresh may have come in between.
Register(s) ==
  /\ poolRuns
  /\ limiter[s] = "register"
  /\ listeners' = listeners \cup {s}
  /\ LimiterGoes(s, "waiting")
  /\ UNCHANGED <<poolRuns, tokensMap, fatal, streamVars, history>>

\* A call of the stopped pool returns context.Canceled, which is fatal.
CallStopped(s) ==
  /\ ~poolRuns
  /\ limiter[s] \in {"consume", "retry", "register"}
  /\ fatal' = TRUE
  /\ UNCHANGED <<poolRuns, tokensMap, listeners, limiter, streamVars, history>>

\* Mutant: a limiter goes on before the forwarder has taken its item.
Emit_NoWait(s) ==
  /\ limiter[s] = "emit"
  /\ forwarder' = [forwarder EXCEPT ![s] = "send"]
  /\ emitted' = [emitted EXCEPT ![KeyOf[s]] = @ + 1]
  /\ LimiterGoes(s, "select")
  /\ UNCHANGED <<poolVars, feeder, inClosed, arrived, streamDone, granted>>

\* outC <- val, received by the forwarder.
Emit(s) ==
  /\ limiter[s] = "emit"
  /\ forwarder[s] = "recv"
  /\ forwarder' = [forwarder EXCEPT ![s] = "send"]
  /\ emitted' = [emitted EXCEPT ![KeyOf[s]] = @ + 1]
  /\ LimiterGoes(s, "select")
  /\ UNCHANGED <<poolVars, feeder, inClosed, arrived, streamDone, granted>>

-----------------------------------------------------------------------------
(* The forwarder of a stream and the destination it sends to.              *)

\* The destination takes the item; behind a cancelled context it may be gone.
Forward(s) ==
  /\ forwarder[s] = "send"
  /\ arrived' = [arrived EXCEPT ![s] = @ + 1]
  /\ forwarder' = [forwarder EXCEPT ![s] = "recv"]
  /\ UNCHANGED <<poolVars, limiter, feeder, inClosed, streamDone, history>>

\* The range over outC ends and the destination channel is closed.
ForwarderReturn(s) ==
  /\ forwarder[s] = "recv"
  /\ limiter[s] = "done"
  /\ forwarder' = [forwarder EXCEPT ![s] = "done"]
  /\ UNCHANGED <<poolVars, limiter, feeder, inClosed, arrived, streamDone, history>>

Cancel(s) ==
  /\ ~streamDone[s]
  /\ streamDone' = [streamDone EXCEPT ![s] = TRUE]
  /\ UNCHANGED <<poolVars, limiter, feeder, inClosed, forwarder, arrived, history>>

-----------------------------------------------------------------------------
StreamStep(s) ==
  \/ TakeItem(s) \/ CloseIn(s) \/ LimiterReturn(s) \/ Consume(s)
  \/ Register(s) \/ CallStopped(s) \/ Emit(s) \/ ForwarderReturn(s)

Step == \/ Refresh \/ PoolExit
        \/ \E s \in Streams : StreamStep(s) \/ Forward(s) \/ Cancel(s)

\* log.Fatal ends the process.
Next == ~fatal /\ Step

Spec == Init /\ [][Next]_vars

\* The ticker keeps ticking, goroutines that can run do, and destinations
\* keep reading until their context is cancelled.
FairSpec ==
  /\ Spec
  /\ WF_vars(~fatal /\ Refresh)
  /\ \A s \in Streams : /\ WF_vars(~fatal /\ StreamStep(s))
                        /\ WF_vars(~fatal /\ ~streamDone[s] /\ Forward(s))

-----------------------------------------------------------------------------
StreamsOf(k) == {s \in Streams : KeyOf[s] = k}

\* The variables stay in their types.  A counter falls below zero by at most
\* one per limiter of the key: who was refused asks again only after a refresh.
PoolTypeOK ==
  /\ poolRuns \in BOOLEAN
  /\ tokensMap \in [Keys -> Int]
  /\ \A k \in Keys : tokensMap[k] \in (-Cardinality(StreamsOf(k)))..NumTokensPerKey
  /\ listeners \subseteq Streams
  /\ fatal \in BOOLEAN
  /\ feeder \in [Streams -> 0..NumItems]
  /\ inClosed \in [Streams -> BOOLEAN]
  /\ limiter \in [Streams -> {"select", "consume", "register", "waiting",
                              "retry", "emit", "done"}]
  /\ forwarder \in [Streams -> {"recv", "send", "done"}]
  /\ arrived \in [Streams -> 0..NumItems]
  /\ streamDone \in [Streams -> BOOLEAN]
  /\ granted \in [Keys -> Nat]
  /\ emitted \in [Keys -> Nat]

\* The limit the agent promises for its outbound traffic: between two
\* refreshes no more items leave the limiters of a key than there are tokens,
\* plus one per limiter that got its token before the refresh and delivered
\* after it.
EmissionBound ==
  \A k \in Keys : emitted[k] <= NumTokensPerKey + Cardinality(StreamsOf(k))

\* A stream that ends without being cancelled has delivered all its items.
NothingLost ==
  \A s \in Streams : forwarder[s] = "done" /\ ~streamDone[s] => arrived[s] = NumItems

\* However many streams compete for the tokens, and although the refresh may
\* slip in between a refusal and the registration of the listener, every stream
\* that has begun gets through and its destination is closed.
EveryStreamEnds ==
  \A s \in Streams :
    feeder[s] > 0 ~> (forwarder[s] = "done" \/ streamDone[s] \/ ~poolRuns)
=============================================================================
