--------------------------- MODULE SlidingWindow ---------------------------
(***************************************************************************)
(* SlidingWindowRateLimitPool of pkg/ratelimit/sliding_window_rl.go.  Each  *)
(* HTTP request calls Consume once; requests run concurrently and share,   *)
(* per key, one atomic pointer to an immutable list of timestamps.  A      *)
(* request loads the pointer, reads the clock and builds a new list, and   *)
(* installs it with compare-and-swap, starting over when it lost the race. *)
(***************************************************************************)
EXTENDS Integers, Sequences, FiniteSets

CONSTANTS Requests,          \* concurrent calls of Consume
          ClientKeys,              \* rate-limit keys
          NumRequestsLimit,
          WindowLength,
          MaxTime            \* bound of the clock

ASSUME SlidingWindowConstants ==
  /\ NumRequestsLimit \in Nat \ {0}
  /\ WindowLength \in Nat \ {0}
  /\ MaxTime \in Nat

VARIABLES
  now,       \* time.Now()
  rlEntStore,     \* per key: what the atomic pointer points to, with its identity
  pc,        \* where a request is in tryInsertRequestTimestampToRLEntStore
  key,       \* the key it consumes
  origin,    \* originStore: the entry it loaded
  fresh,     \* newStore: the timestamps it wants to install
  accepted   \* history: timestamps of the accepted requests, in CAS order

windowVars == <<now, rlEntStore, pc, key, origin, fresh, accepted>>

Time == 0..MaxTime

\* An entry is its identity (0 is the nil pointer) and its timestamps.
NilEntry == [id |-> 0, stamps |-> <<>>]

WindowInit ==
  /\ now = 0
  /\ rlEntStore = [k \in ClientKeys |-> NilEntry]
  /\ pc = [r \in Requests |-> "idle"]
  /\ key \in [Requests -> ClientKeys]
  /\ origin = [r \in Requests |-> NilEntry]
  /\ fresh = [r \in Requests |-> <<>>]
  /\ accepted = [k \in ClientKeys |-> <<>>]

\* Positions of the timestamps that are not before the start of the window.
InWindow(stamps, t) == {i \in 1..Len(stamps) : stamps[i] >= t - WindowLength}

First(positions) == CHOOSE i \in positions : \A j \in positions : i <= j

\* The timestamps of the window that ends at t; TryAppend drops the others.
Recent(stamps, t) ==
  IF InWindow(stamps, t) = {}
    THEN <<>>
    ELSE SubSeq(stamps, First(InWindow(stamps, t)), Len(stamps))

\* Mutant: old timestamps count as well.
Exceeded_CountsOld(stamps, t) ==
  /\ InWindow(stamps, t) # {}
  /\ Len(stamps) >= NumRequestsLimit

\* TryAppend returns nil.
Exceeded(stamps, t) ==
  /\ InWindow(stamps, t) # {}
  /\ Len(Recent(stamps, t)) >= NumRequestsLimit

-----------------------------------------------------------------------------
Load(r) ==
  /\ pc[r] \in {"idle", "retry"}
  /\ origin' = [origin EXCEPT ![r] = rlEntStore[key[r]]]
  /\ pc' = [pc EXCEPT ![r] = "append"]
  /\ UNCHANGED <<now, rlEntStore, key, fresh, accepted>>

\* TryAppend reads the clock itself, after the load.
TryAppend(r) ==
  /\ pc[r] = "append"
  /\ \/ /\ Exceeded(origin[r].stamps, now)
        /\ pc' = [pc EXCEPT ![r] = "rejected"]
        /\ UNCHANGED fresh
     \/ /\ ~Exceeded(origin[r].stamps, now)
        /\ fresh' = [fresh EXCEPT ![r] =
                       Append(Recent(origin[r].stamps, now), now)]
        /\ pc' = [pc EXCEPT ![r] = "cas"]
  /\ UNCHANGED <<now, rlEntStore, key, origin, accepted>>

\* Mutant: the new list is stored without comparing.
CompareAndSwap_Blind(r) ==
  /\ pc[r] = "cas"
  /\ rlEntStore' = [rlEntStore EXCEPT ![key[r]] = [id |-> @.id + 1, stamps |-> fresh[r]]]
  /\ accepted' = [accepted EXCEPT ![key[r]] =
                    Append(@, fresh[r][Len(fresh[r])])]
  /\ pc' = [pc EXCEPT ![r] = "accepted"]
  /\ UNCHANGED <<now, key, origin, fresh>>

\* CompareAndSwap compares pointers, hence identities.
CompareAndSwap(r) ==
  /\ pc[r] = "cas"
  /\ \/ /\ rlEntStore[key[r]].id = origin[r].id
        /\ rlEntStore' = [rlEntStore EXCEPT ![key[r]] =
                       [id |-> @.id + 1, stamps |-> fresh[r]]]
        /\ accepted' = [accepted EXCEPT ![key[r]] =
                          Append(@, fresh[r][Len(fresh[r])])]
        /\ pc' = [pc EXCEPT ![r] = "accepted"]
     \/ /\ rlEntStore[key[r]].id # origin[r].id
        /\ pc' = [pc EXCEPT ![r] = "retry"]
        /\ UNCHANGED <<rlEntStore, accepted>>
  /\ UNCHANGED <<now, key, origin, fresh>>

Tick ==
  /\ now < MaxTime
  /\ now' = now + 1
  /\ UNCHANGED <<rlEntStore, pc, key, origin, fresh, accepted>>

WindowNext == Tick \/ \E r \in Requests : Load(r) \/ TryAppend(r) \/ CompareAndSwap(r)

WindowSpec == WindowInit /\ [][WindowNext]_windowVars

\* A request that has started is run to its end by its goroutine.
WindowFairness ==
  \A r \in Requests : /\ WF_windowVars(pc[r] # "idle" /\ Load(r))
                      /\ WF_windowVars(TryAppend(r))
                      /\ WF_windowVars(CompareAndSwap(r))

WindowFairSpec == WindowSpec /\ WindowFairness

-----------------------------------------------------------------------------
\* However many requests race on one key, no window of WindowLength ever
\* holds more than NumRequestsLimit accepted requests: two accepted requests
\* that are NumRequestsLimit apart are more than a window apart.
LimitHolds ==
  \A k \in ClientKeys : \A i \in (NumRequestsLimit + 1)..Len(accepted[k]) :
     accepted[k][i] - accepted[k][i - NumRequestsLimit] > WindowLength

\* Timestamps of accepted requests are in order although each request reads
\* the clock before it installs its list: LimitHolds relies on it.
AcceptedInOrder ==
  \A k \in ClientKeys : \A i, j \in 1..Len(accepted[k]) :
     i <= j => accepted[k][i] <= accepted[k][j]

RejectsOnlyWhenFull(r) ==
  (pc[r] = "append" /\ pc'[r] = "rejected") =>
     Cardinality(InWindow(accepted[key[r]], now)) >= NumRequestsLimit

\* A request is refused only when the limit really was reached in the window
\* that ends now, even if the list it looked at is out of date.
RejectionJustified == [][\A r \in Requests : RejectsOnlyWhenFull(r)]_windowVars

=============================================================================
