-------------------------- MODULE AgentPartsProofs --------------------------
(***************************************************************************)
(* TLAPS proofs about three parts of an agent, which MCAgentParts checks   *)
(* together.                                                               *)
(*                                                                         *)
(* The sliding window of pkg/ratelimit, for any number of concurrent       *)
(* requests, keys, any limit and any window: the invariant says that every *)
(* entry a request ever loaded is the tail of what had been accepted by    *)
(* then (an entry's identity is that number), and that what the tail       *)
(* leaves out is older than the window.                                    *)
(*                                                                         *)
(* The token pool of pkg/ratelimit, for any number of streams and keys,    *)
(* any quota and any number of items.                                      *)
(*                                                                         *)
(* The ICMP pinger of one target, for any number of packets, any capacity  *)
(* of RecvEvC, with and without socket errors.  It counts events, not      *)
(* packets: each event it gets becomes one control signal, and a control   *)
(* signal one request.  As long as the network brings at most one reply to *)
(* a packet, MaxReplies = 1, events and packets go in lockstep: after r    *)
(* events exactly the packets 1..r are reported, and at most packet r + 1  *)
(* is under way.  (With duplicated replies they do not, and what is proved *)
(* about the count does not hold.)                                         *)
(***************************************************************************)
EXTENDS SlidingWindow, TokenPool, SimplePinger, ICMPTrackerProofs

-----------------------------------------------------------------------------
(* The sliding window.                                                     *)

\* stamps is the tail of the first n accepted timestamps of acc, and the
\* accepted timestamps before that tail lie before the window ending at t.
TailOf(stamps, acc, n, t) ==
  /\ n \in 0..Len(acc)
  /\ Len(stamps) <= n
  /\ \A i \in 1..Len(stamps) : stamps[i] = acc[n - Len(stamps) + i]
  /\ \A j \in 1..(n - Len(stamps)) : acc[j] < t - WindowLength

EntryOK(e, acc) ==
  /\ e.id = 0 => e.stamps = <<>>
  /\ e.id > 0 => TailOf(e.stamps, acc, e.id, acc[e.id])
  /\ e.id \in 0..Len(acc)
  /\ Len(e.stamps) <= NumRequestsLimit

\* A list a request built from an entry, its own timestamp at the end.
FreshOK(f, e, acc, t) ==
  /\ f # <<>>
  /\ Len(f) <= NumRequestsLimit
  /\ f[Len(f)] <= t
  /\ \A j \in 1..e.id : acc[j] <= f[Len(f)]
  /\ Len(f) - 1 <= e.id
  /\ \A i \in 1..(Len(f) - 1) : f[i] = acc[e.id - (Len(f) - 1) + i]
  /\ \A j \in 1..(e.id - (Len(f) - 1)) : acc[j] < f[Len(f)] - WindowLength

Types ==
  /\ now \in Nat
  /\ rlEntStore \in [ClientKeys -> [id : Nat, stamps : Seq(Nat)]]
  /\ pc \in [Requests -> {"idle", "append", "cas", "retry", "accepted", "rejected"}]
  /\ key \in [Requests -> ClientKeys]
  /\ origin \in [Requests -> [id : Nat, stamps : Seq(Nat)]]
  /\ fresh \in [Requests -> Seq(Nat)]
  /\ accepted \in [ClientKeys -> Seq(Nat)]

WindowInv ==
  /\ Types
  /\ AcceptedInOrder
  /\ LimitHolds
  /\ \A k \in ClientKeys : /\ rlEntStore[k].id = Len(accepted[k])
                     /\ EntryOK(rlEntStore[k], accepted[k])
                     /\ \A i \in 1..Len(accepted[k]) : accepted[k][i] <= now
  /\ \A r \in Requests : EntryOK(origin[r], accepted[key[r]])
  /\ \A r \in Requests :
       pc[r] = "cas" => FreshOK(fresh[r], origin[r], accepted[key[r]], now)

-----------------------------------------------------------------------------
(* TryAppend on a well-formed entry.                                       *)

LEMMA FirstProperty ==
  ASSUME NEW P \in SUBSET Nat, P # {}
  PROVE  First(P) \in P /\ \A j \in P : First(P) <= j
<1>1. \E i \in P : \A j \in P : i <= j
  <2> DEFINE Less == OpToRel(<, Nat)
  <2>1. IsWellFoundedOn(Less, Nat) BY NatLessThanWellFounded
  <2> HIDE DEF Less
  <2>2. PICK i \in P : \A j \in P : ~(<<j, i>> \in Less) BY <2>1, WFMin
  <2> USE DEF Less
  <2>3. \A j \in P : ~(j < i) BY <2>2 DEF OpToRel
  <2>4. \A j \in P : i <= j BY <2>3
  <2> QED BY <2>4
<1> QED BY <1>1 DEF First

\* Recent keeps a tail, and everything it drops lies before the window.
LEMMA RecentTail ==
  ASSUME NEW stamps \in Seq(Nat), NEW t \in Nat
  PROVE  /\ Recent(stamps, t) \in Seq(Nat)
         /\ Len(Recent(stamps, t)) <= Len(stamps)
         /\ \A i \in 1..Len(Recent(stamps, t)) :
              Recent(stamps, t)[i]
                = stamps[Len(stamps) - Len(Recent(stamps, t)) + i]
         /\ \A j \in 1..(Len(stamps) - Len(Recent(stamps, t))) :
              stamps[j] < t - WindowLength
<1> DEFINE P == InWindow(stamps, t)
<1> USE SlidingWindowConstants
<1>0. Len(stamps) \in Nat /\ \A j \in 1..Len(stamps) : stamps[j] \in Nat
  OBVIOUS
<1>1. CASE P = {}
  <2>1. Recent(stamps, t) = <<>> BY <1>1 DEF Recent
  <2>2. \A j \in 1..Len(stamps) : stamps[j] < t - WindowLength
    BY <1>0, <1>1 DEF InWindow
  <2>3. Len(Recent(stamps, t)) = 0 /\ Recent(stamps, t) \in Seq(Nat) BY <2>1
  <2> QED BY <1>0, <2>2, <2>3
<1>2. CASE P # {}
  <2> DEFINE f == First(P)
             q == SubSeq(stamps, f, Len(stamps))
  <2>1. f \in 1..Len(stamps) /\ \A j \in P : f <= j
    <3>1. P \in SUBSET Nat BY <1>0 DEF InWindow
    <3>2. f \in P /\ \A j \in P : f <= j BY <1>2, <3>1, FirstProperty
    <3> QED BY <3>2 DEF InWindow
  <2>2. Recent(stamps, t) = q BY <1>2 DEF Recent
  <2> HIDE DEF f
  <2>3. /\ q \in Seq(Nat) /\ Len(q) = Len(stamps) - f + 1
        /\ \A i \in 1..Len(q) : q[i] = stamps[f + i - 1]
    BY <1>0, <2>1
  <2>4. \A j \in 1..(f - 1) : j \notin P BY <1>0, <2>1
  <2>5. \A j \in 1..(f - 1) : stamps[j] < t - WindowLength
    BY <1>0, <2>1, <2>4 DEF InWindow
  <2> HIDE DEF q
  <2>6. Len(stamps) - Len(q) = f - 1 BY <1>0, <2>1, <2>3
  <2>7. \A i \in 1..Len(q) : Len(stamps) - Len(q) + i = f + i - 1
    BY <1>0, <2>1, <2>3
  <2>8. \A i \in 1..Len(q) : q[i] = stamps[Len(stamps) - Len(q) + i]
    BY <2>3, <2>7
  <2>9. \A j \in 1..(Len(stamps) - Len(q)) : stamps[j] < t - WindowLength
    BY <2>5, <2>6
  <2>10. q \in Seq(Nat) /\ Len(q) <= Len(stamps) BY <1>0, <2>1, <2>3
  <2> QED BY <2>2, <2>8, <2>9, <2>10
<1> QED BY <1>1, <1>2

LEMMA NotExceeded ==
  ASSUME NEW stamps \in Seq(Nat), NEW t \in Nat, ~Exceeded(stamps, t)
  PROVE  Len(Recent(stamps, t)) < NumRequestsLimit
<1>1. CASE InWindow(stamps, t) = {}
  <2>1. Len(Recent(stamps, t)) = 0 BY <1>1 DEF Recent
  <2> QED BY <2>1, SlidingWindowConstants
<1>2. CASE InWindow(stamps, t) # {}
  BY <1>2, RecentTail, SlidingWindowConstants DEF Exceeded
<1> QED BY <1>1, <1>2

\* The list TryAppend builds from a well-formed entry.
LEMMA FreshFromEntry ==
  ASSUME NEW acc \in Seq(Nat), NEW e \in [id : Nat, stamps : Seq(Nat)],
         EntryOK(e, acc), NEW t \in Nat,
         \A i \in 1..Len(acc) : acc[i] <= t,
         ~Exceeded(e.stamps, t)
  PROVE  FreshOK(Append(Recent(e.stamps, t), t), e, acc, t)
<1> USE SlidingWindowConstants
<1> DEFINE st == e.stamps
           q == Recent(st, t)
           f == Append(q, t)
<1>1. /\ q \in Seq(Nat) /\ Len(q) \in Nat /\ Len(q) <= Len(st)
      /\ \A i \in 1..Len(q) : q[i] = st[Len(st) - Len(q) + i]
      /\ \A j \in 1..(Len(st) - Len(q)) : st[j] < t - WindowLength
  BY RecentTail
<1>2. Len(q) < NumRequestsLimit BY NotExceeded
<1>3. e.id \in 0..Len(acc) /\ Len(acc) \in Nat /\ Len(st) \in Nat
  BY DEF EntryOK
<1>4. Len(st) <= e.id
  BY <1>3 DEF EntryOK, TailOf
<1>5. \A i \in 1..Len(st) : st[i] = acc[e.id - Len(st) + i]
  BY <1>3 DEF EntryOK, TailOf
<1>6. \A j \in 1..(e.id - Len(st)) : acc[j] < t - WindowLength
  <2> SUFFICES ASSUME NEW j \in 1..(e.id - Len(st))
               PROVE  acc[j] < t - WindowLength
    OBVIOUS
  <2>1. e.id > 0 /\ e.id \in 1..Len(acc) /\ j \in 1..Len(acc) BY <1>3
  <2>2. acc[j] < acc[e.id] - WindowLength BY <2>1 DEF EntryOK, TailOf
  <2>3. acc[e.id] <= t /\ acc[e.id] \in Nat /\ acc[j] \in Nat BY <2>1
  <2> QED BY <2>2, <2>3
<1> HIDE DEF q, st
<1>7. /\ f \in Seq(Nat) /\ Len(f) = Len(q) + 1 /\ f[Len(f)] = t
      /\ \A i \in 1..Len(q) : f[i] = q[i]
  BY <1>1
<1>8. \A i \in 1..Len(q) : f[i] = acc[e.id - Len(q) + i]
  <2> SUFFICES ASSUME NEW i \in 1..Len(q) PROVE q[i] = acc[e.id - Len(q) + i]
    BY <1>7
  <2>1. Len(st) - Len(q) + i \in 1..Len(st) BY <1>1, <1>3
  <2>2. q[i] = st[Len(st) - Len(q) + i] BY <1>1
  <2>3. st[Len(st) - Len(q) + i] = acc[e.id - Len(st) + (Len(st) - Len(q) + i)]
    BY <1>5, <2>1
  <2>4. e.id - Len(st) + (Len(st) - Len(q) + i) = e.id - Len(q) + i
    BY <1>1, <1>3
  <2> QED BY <2>2, <2>3, <2>4
<1>9. \A j \in 1..(e.id - Len(q)) : acc[j] < t - WindowLength
  <2> SUFFICES ASSUME NEW j \in 1..(e.id - Len(q))
               PROVE  acc[j] < t - WindowLength
    OBVIOUS
  <2>1. CASE j <= e.id - Len(st) BY <1>3, <1>6, <2>1
  <2>2. CASE j > e.id - Len(st)
    <3> DEFINE i == j - (e.id - Len(st))
    <3>1. i \in 1..(Len(st) - Len(q)) /\ i \in 1..Len(st)
      BY <1>1, <1>3, <1>4, <2>2
    <3>2. st[i] = acc[e.id - Len(st) + i] BY <1>5, <3>1
    <3>3. e.id - Len(st) + i = j BY <1>3, <1>4
    <3> QED BY <1>1, <3>1, <3>2, <3>3
  <2> QED BY <1>3, <2>1, <2>2
<1>10. \A j \in 1..e.id : acc[j] <= t BY <1>3
<1>11. Len(f) - 1 = Len(q) /\ Len(f) <= NumRequestsLimit /\ f # <<>>
  <2> HIDE DEF f
  <2>1. Len(f) # 0 BY <1>1, <1>7
  <2> QED BY <1>1, <1>2, <1>7, <2>1
<1>12. FreshOK(f, e, acc, t)
  <2> HIDE DEF f
  <2> QED BY <1>1, <1>3, <1>4, <1>7, <1>8, <1>9, <1>10, <1>11 DEF FreshOK
<1> QED BY <1>12 DEF q, st

-----------------------------------------------------------------------------
(* What was known of an entry stays known when acc grows.                  *)

LEMMA AppendPrefix ==
  ASSUME NEW acc \in Seq(Nat), NEW t \in Nat
  PROVE  /\ Append(acc, t) \in Seq(Nat)
         /\ Len(Append(acc, t)) = Len(acc) + 1
         /\ Append(acc, t)[Len(acc) + 1] = t
         /\ \A i \in 1..Len(acc) : Append(acc, t)[i] = acc[i]
OBVIOUS

\* acc2 extends acc.
Extends(acc2, acc) ==
  Len(acc) <= Len(acc2) /\ \A i \in 1..Len(acc) : acc2[i] = acc[i]

LEMMA EntryStable ==
  ASSUME NEW acc \in Seq(Nat), NEW acc2 \in Seq(Nat), Extends(acc2, acc),
         NEW e \in [id : Nat, stamps : Seq(Nat)], EntryOK(e, acc)
  PROVE  EntryOK(e, acc2)
<1>1. e.id \in 0..Len(acc) /\ Len(acc) \in Nat /\ Len(acc2) \in Nat
      /\ Len(e.stamps) \in Nat
  BY DEF EntryOK
<1>2. e.id \in 0..Len(acc2) /\ Len(e.stamps) <= NumRequestsLimit
  BY <1>1 DEF EntryOK, Extends
<1>3. ASSUME e.id > 0 PROVE TailOf(e.stamps, acc2, e.id, acc2[e.id])
  <2>1. acc2[e.id] = acc[e.id] BY <1>1, <1>3 DEF Extends
  <2>2. TailOf(e.stamps, acc, e.id, acc[e.id]) BY <1>3 DEF EntryOK
  <2>3. \A i \in 1..Len(e.stamps) :
          acc2[e.id - Len(e.stamps) + i] = acc[e.id - Len(e.stamps) + i]
    <3> SUFFICES ASSUME NEW i \in 1..Len(e.stamps)
                 PROVE  e.id - Len(e.stamps) + i \in 1..Len(acc)
      BY DEF Extends
    <3>1. Len(e.stamps) <= e.id BY <2>2 DEF TailOf
    <3> QED BY <1>1, <3>1
  <2>4. \A j \in 1..(e.id - Len(e.stamps)) : acc2[j] = acc[j]
    <3>1. \A j \in 1..(e.id - Len(e.stamps)) : j \in 1..Len(acc) BY <1>1
    <3> QED BY <3>1 DEF Extends
  <2> QED BY <1>1, <1>2, <2>1, <2>2, <2>3, <2>4 DEF TailOf
<1> QED BY <1>2, <1>3 DEF EntryOK

LEMMA ShiftInRange ==
  ASSUME NEW n \in Nat, NEW m \in Nat, NEW i \in Nat,
         1 <= i, i <= m - 1, m - 1 <= n
  PROVE  n - (m - 1) + i \in 1..n
OBVIOUS

LEMMA FreshStable ==
  ASSUME NEW acc \in Seq(Nat), NEW acc2 \in Seq(Nat), Extends(acc2, acc),
         NEW e \in [id : Nat, stamps : Seq(Nat)], EntryOK(e, acc),
         NEW f \in Seq(Nat), NEW t \in Nat, NEW t2 \in Nat, t <= t2,
         FreshOK(f, e, acc, t)
  PROVE  FreshOK(f, e, acc2, t2)
<1>1. e.id \in 0..Len(acc) /\ Len(acc) \in Nat /\ Len(f) \in Nat /\ Len(f) > 0
  <2>1. f # <<>> BY DEF FreshOK
  <2> QED BY <2>1 DEF EntryOK
<1>2. f[Len(f)] \in Nat /\ f[Len(f)] <= t2
  BY <1>1 DEF FreshOK
<1>3. \A j \in 1..e.id : acc2[j] = acc[j]
  BY <1>1 DEF Extends
<1>4. Len(f) - 1 <= e.id BY DEF FreshOK
<1>5. ASSUME NEW i \in 1..(Len(f) - 1)
      PROVE  e.id - (Len(f) - 1) + i \in 1..e.id
  <2>1. i \in Nat /\ 1 <= i /\ i <= Len(f) - 1 BY <1>1
  <2>2. e.id \in Nat OBVIOUS
  <2> QED BY <1>1, <1>4, <2>1, <2>2, ShiftInRange
<1>6. \A i \in 1..(Len(f) - 1) : f[i] = acc2[e.id - (Len(f) - 1) + i]
  BY <1>3, <1>5 DEF FreshOK
<1>7. \A j \in 1..(e.id - (Len(f) - 1)) : acc2[j] < f[Len(f)] - WindowLength
  <2>1. \A j \in 1..(e.id - (Len(f) - 1)) : j \in 1..e.id BY <1>1
  <2> QED BY <1>3, <2>1 DEF FreshOK
<1>8. \A j \in 1..e.id : acc2[j] <= f[Len(f)] BY <1>3 DEF FreshOK
<1> QED BY <1>2, <1>4, <1>6, <1>7, <1>8 DEF FreshOK

\* A successful compare-and-swap: what the new list and history satisfy.
LEMMA InstallFresh ==
  ASSUME NEW acc \in Seq(Nat), NEW e \in [id : Nat, stamps : Seq(Nat)],
         EntryOK(e, acc), e.id = Len(acc),
         NEW f \in Seq(Nat), NEW t \in Nat, FreshOK(f, e, acc, t),
         NEW acc2, acc2 = Append(acc, f[Len(f)])
  PROVE  /\ acc2 \in Seq(Nat) /\ Len(acc2) = Len(acc) + 1
         /\ acc2[Len(acc2)] = f[Len(f)] /\ f[Len(f)] <= t
         /\ Extends(acc2, acc)
         /\ \A j \in 1..Len(acc) : acc2[j] <= acc2[Len(acc2)]
         /\ Len(acc2) > NumRequestsLimit =>
              acc2[Len(acc2)] - acc2[Len(acc2) - NumRequestsLimit] > WindowLength
         /\ EntryOK([id |-> e.id + 1, stamps |-> f], acc2)
<1> DEFINE n == Len(acc)
           m == Len(f) - 1
           u == f[Len(f)]
<1> USE SlidingWindowConstants
<1>1. n \in Nat /\ m \in Nat /\ Len(f) = m + 1 /\ u \in Nat /\ m <= n
  <2>1. f # <<>> BY DEF FreshOK
  <2> QED BY <2>1 DEF FreshOK
<1>2. /\ acc2 \in Seq(Nat) /\ Len(acc2) = n + 1 /\ acc2[n + 1] = u
      /\ \A i \in 1..n : acc2[i] = acc[i]
  BY <1>1, AppendPrefix
<1>3. u <= t /\ Len(f) <= NumRequestsLimit BY DEF FreshOK
<1>4. \A j \in 1..n : acc2[j] <= u BY <1>2 DEF FreshOK
<1>5. \A j \in 1..(n - m) : acc2[j] < u - WindowLength
  <2>1. \A j \in 1..(n - m) : j \in 1..n BY <1>1
  <2>2. \A j \in 1..(n - m) : acc[j] < u - WindowLength BY DEF FreshOK
  <2> QED BY <1>2, <2>1, <2>2
<1>6. \A i \in 1..m : f[i] = acc2[n - m + i]
  <2>1. \A i \in 1..m : f[i] = acc[n - m + i] BY DEF FreshOK
  <2>2. \A i \in 1..m : n - m + i \in 1..n BY <1>1
  <2> QED BY <1>2, <2>1, <2>2
<1> HIDE DEF n, m, u
<1>7. n + 1 > NumRequestsLimit => u - acc2[n + 1 - NumRequestsLimit] > WindowLength
  <2> SUFFICES ASSUME n + 1 > NumRequestsLimit
               PROVE  u - acc2[n + 1 - NumRequestsLimit] > WindowLength
    OBVIOUS
  <2> DEFINE j == n + 1 - NumRequestsLimit
  <2>0. m + 1 <= NumRequestsLimit BY <1>1, <1>3
  <2>1. j \in 1..(n - m) /\ j \in 1..(n + 1) BY <1>1, <2>0
  <2>2. acc2[j] \in Int BY <1>1, <1>2, <2>1
  <2>3. acc2[j] < u - WindowLength BY <1>5, <2>1
  <2> HIDE DEF j
  <2>4. ASSUME NEW a \in Int, a < u - WindowLength PROVE u - a > WindowLength
    BY <1>1, <2>4
  <2>5. u - acc2[j] > WindowLength BY <2>2, <2>3, <2>4
  <2> QED BY <2>5 DEF j
<1>8. EntryOK([id |-> n + 1, stamps |-> f], acc2)
  <2>1. \A i \in 1..(m + 1) : f[i] = acc2[n - m + i]
    <3> SUFFICES ASSUME NEW i \in 1..(m + 1) PROVE f[i] = acc2[n - m + i]
      OBVIOUS
    <3>1. CASE i \in 1..m BY <1>6, <3>1
    <3>2. CASE i = m + 1
      <4>1. n - m + i = n + 1 BY <1>1, <3>2
      <4>2. f[i] = u BY <1>1, <3>2 DEF u
      <4> QED BY <1>2, <4>1, <4>2
    <3>3. i \in 1..m \/ i = m + 1 BY <1>1
    <3> QED BY <3>1, <3>2, <3>3
  <2>2. n + 1 - (m + 1) = n - m BY <1>1
  <2>3. TailOf(f, acc2, n + 1, acc2[n + 1])
    <3> DEFINE k == n + 1
    <3>1. k \in 0..Len(acc2) /\ Len(f) <= k BY <1>1, <1>2
    <3>2. k - Len(f) = n - m BY <1>1
    <3>3. \A i \in 1..Len(f) : f[i] = acc2[k - Len(f) + i]
      BY <1>1, <2>1, <3>2
    <3>4. \A i \in 1..(k - Len(f)) : acc2[i] < acc2[k] - WindowLength
      BY <1>2, <1>5, <3>2
    <3> HIDE DEF k
    <3>5. TailOf(f, acc2, k, acc2[k]) BY ONLY <3>1, <3>3, <3>4 DEF TailOf
    <3> QED BY <3>5 DEF k
  <2> QED BY <1>1, <1>2, <1>3, <2>3 DEF EntryOK
<1> QED BY <1>1, <1>2, <1>3, <1>4, <1>7, <1>8 DEF n, u, Extends

-----------------------------------------------------------------------------
(* The invariant is inductive.                                             *)

LEMMA WindowInvInit == WindowInit => WindowInv
<1> SUFFICES ASSUME WindowInit PROVE WindowInv
  OBVIOUS
<1> USE SlidingWindowConstants
<1>1. NilEntry \in [id : Nat, stamps : Seq(Nat)] /\ Len(NilEntry.stamps) = 0
  BY DEF NilEntry
<1>2. \A k \in ClientKeys : accepted[k] = <<>> /\ Len(accepted[k]) = 0
  BY DEF WindowInit
<1>3. Types BY <1>1 DEF WindowInit, Types
<1>4. AcceptedInOrder /\ LimitHolds
  BY <1>2 DEF AcceptedInOrder, LimitHolds
<1>5. ASSUME NEW k \in ClientKeys PROVE EntryOK(NilEntry, accepted[k])
  BY <1>1, <1>2 DEF EntryOK, NilEntry
<1>6. \A r \in Requests : pc[r] # "cas" /\ key[r] \in ClientKeys BY DEF WindowInit
<1> QED BY <1>2, <1>3, <1>4, <1>5, <1>6 DEF WindowInit, WindowInv, NilEntry

LEMMA WindowInvStep == WindowInv /\ [WindowNext]_windowVars => WindowInv'
<1> SUFFICES ASSUME WindowInv, [WindowNext]_windowVars PROVE WindowInv'
  OBVIOUS
<1> USE SlidingWindowConstants
<1>T. Types BY DEF WindowInv
<1>A. \A k \in ClientKeys : accepted[k] \in Seq(Nat) /\ Len(accepted[k]) \in Nat
  BY <1>T DEF Types
<1>K. \A r \in Requests : key[r] \in ClientKeys BY <1>T DEF Types
<1>1. ASSUME NEW r \in Requests, Load(r) PROVE WindowInv'
  <2>1. UNCHANGED <<now, rlEntStore, key, fresh, accepted>> BY <1>1 DEF Load
  <2>2. /\ origin'[r] = rlEntStore[key[r]] /\ pc'[r] = "append"
        /\ \A q \in Requests \ {r} : origin'[q] = origin[q] /\ pc'[q] = pc[q]
    BY <1>1, <1>T DEF Load, Types
  <2>3. Types' BY <1>1, <1>T DEF Load, Types
  <2>4. EntryOK(rlEntStore[key[r]], accepted[key[r]]) BY <1>K DEF WindowInv
  <2>5. \A q \in Requests : EntryOK(origin'[q], accepted'[key'[q]])
    BY <2>1, <2>2, <2>4 DEF WindowInv
  <2>6. \A q \in Requests : pc'[q] = "cas" =>
          FreshOK(fresh'[q], origin'[q], accepted'[key'[q]], now')
    BY <2>1, <2>2 DEF WindowInv
  <2>7. AcceptedInOrder' /\ LimitHolds'
    BY <2>1 DEF WindowInv, AcceptedInOrder, LimitHolds
  <2> QED BY <2>1, <2>3, <2>5, <2>6, <2>7 DEF WindowInv
<1>2. ASSUME NEW r \in Requests, TryAppend(r) PROVE WindowInv'
  <2>1. UNCHANGED <<now, rlEntStore, key, origin, accepted>> BY <1>2 DEF TryAppend
  <2> DEFINE acc == accepted[key[r]]
             e == origin[r]
  <2>2. \A q \in Requests \ {r} : fresh'[q] = fresh[q] /\ pc'[q] = pc[q]
    BY <1>2, <1>T DEF TryAppend, Types
  <2>3. /\ acc \in Seq(Nat) /\ e \in [id : Nat, stamps : Seq(Nat)]
        /\ EntryOK(e, acc) /\ now \in Nat
        /\ \A i \in 1..Len(acc) : acc[i] <= now
    BY <1>T, <1>K DEF Types, WindowInv
  <2>4. Append(Recent(e.stamps, now), now) \in Seq(Nat)
    <3>1. Recent(e.stamps, now) \in Seq(Nat) BY <2>3, RecentTail
    <3> HIDE DEF e
    <3> QED BY <2>3, <3>1, AppendPrefix
  <2>5. Types'
    <3>1. fresh' \in [Requests -> Seq(Nat)]
      BY <1>2, <1>T, <2>4 DEF TryAppend, Types
    <3>2. pc' \in [Requests -> {"idle", "append", "cas", "retry", "accepted", "rejected"}]
      BY <1>2, <1>T DEF TryAppend, Types
    <3> QED BY <1>T, <2>1, <3>1, <3>2 DEF Types
  <2>6. pc'[r] = "cas" => FreshOK(fresh'[r], e, acc, now)
    <3> SUFFICES ASSUME pc'[r] = "cas" PROVE FreshOK(fresh'[r], e, acc, now)
      OBVIOUS
    <3>1. /\ ~Exceeded(e.stamps, now)
          /\ fresh'[r] = Append(Recent(e.stamps, now), now)
      BY <1>2, <1>T DEF TryAppend, Types
    <3> QED BY <2>3, <3>1, FreshFromEntry
  <2>7. \A q \in Requests : pc'[q] = "cas" =>
          FreshOK(fresh'[q], origin'[q], accepted'[key'[q]], now')
    BY <2>1, <2>2, <2>6 DEF WindowInv
  <2>8. AcceptedInOrder' /\ LimitHolds'
    BY <2>1 DEF WindowInv, AcceptedInOrder, LimitHolds
  <2> QED BY <2>1, <2>5, <2>7, <2>8 DEF WindowInv
<1>3. CASE Tick
  <2>1. /\ UNCHANGED <<rlEntStore, pc, key, origin, fresh, accepted>>
        /\ now' \in Nat /\ now <= now' /\ now \in Nat
    BY <1>3, <1>T DEF Tick, Types
  <2>2. Types' BY <1>T, <2>1 DEF Types
  <2>3. ASSUME NEW k \in ClientKeys, NEW i \in 1..Len(accepted[k])
        PROVE  accepted[k][i] <= now'
    <3>1. accepted[k][i] <= now BY DEF WindowInv
    <3>2. accepted[k][i] \in Nat BY <1>A
    <3> QED BY <2>1, <3>1, <3>2
  <2>4. ASSUME NEW q \in Requests, pc[q] = "cas"
        PROVE  FreshOK(fresh[q], origin[q], accepted[key[q]], now')
    <3>1. /\ accepted[key[q]] \in Seq(Nat) /\ fresh[q] \in Seq(Nat)
          /\ origin[q] \in [id : Nat, stamps : Seq(Nat)]
      BY <1>A, <1>K, <1>T DEF Types
    <3>2. /\ EntryOK(origin[q], accepted[key[q]])
          /\ FreshOK(fresh[q], origin[q], accepted[key[q]], now)
      BY <2>4 DEF WindowInv
    <3>3. Extends(accepted[key[q]], accepted[key[q]]) BY <3>1 DEF Extends
    <3> QED BY <2>1, <3>1, <3>2, <3>3, FreshStable
  <2>5. AcceptedInOrder' /\ LimitHolds'
    BY <2>1 DEF WindowInv, AcceptedInOrder, LimitHolds
  <2> QED BY <2>1, <2>2, <2>3, <2>4, <2>5 DEF WindowInv
<1>4. ASSUME NEW r \in Requests, CompareAndSwap(r),
             rlEntStore[key[r]].id # origin[r].id
      PROVE  WindowInv'
  <2>1. /\ UNCHANGED <<now, rlEntStore, key, origin, fresh, accepted>>
        /\ \A q \in Requests : pc'[q] = "cas" => pc[q] = "cas"
    BY <1>4, <1>T DEF CompareAndSwap, Types
  <2>2. Types' BY <1>4, <1>T DEF CompareAndSwap, Types
  <2>3. AcceptedInOrder' /\ LimitHolds'
    BY <2>1 DEF WindowInv, AcceptedInOrder, LimitHolds
  <2> QED BY <2>1, <2>2, <2>3 DEF WindowInv
<1>5. ASSUME NEW r \in Requests, CompareAndSwap(r),
             rlEntStore[key[r]].id = origin[r].id
      PROVE  WindowInv'
  <2> DEFINE k == key[r]
             acc == accepted[k]
             e == origin[r]
             f == fresh[r]
             u == f[Len(f)]
             acc2 == Append(acc, u)
             new == [id |-> e.id + 1, stamps |-> f]
  <2>1. /\ k \in ClientKeys /\ acc \in Seq(Nat) /\ f \in Seq(Nat) /\ now \in Nat
        /\ e \in [id : Nat, stamps : Seq(Nat)]
    BY <1>A, <1>K, <1>T DEF Types
  <2>2. /\ EntryOK(e, acc) /\ FreshOK(f, e, acc, now) /\ e.id = Len(acc)
        /\ \A i \in 1..Len(acc) : acc[i] <= now
    BY <1>5, <2>1 DEF WindowInv, CompareAndSwap
  <2>3. /\ acc2 \in Seq(Nat) /\ Len(acc2) = Len(acc) + 1
        /\ acc2[Len(acc2)] = u /\ u <= now
        /\ Extends(acc2, acc)
        /\ \A j \in 1..Len(acc) : acc2[j] <= acc2[Len(acc2)]
        /\ Len(acc2) > NumRequestsLimit =>
             acc2[Len(acc2)] - acc2[Len(acc2) - NumRequestsLimit] > WindowLength
        /\ EntryOK(new, acc2)
    BY <2>1, <2>2, InstallFresh
  <2>4. /\ UNCHANGED <<now, key, origin, fresh>>
        /\ accepted'[k] = acc2 /\ rlEntStore'[k] = new
        /\ \A j \in ClientKeys \ {k} : accepted'[j] = accepted[j] /\ rlEntStore'[j] = rlEntStore[j]
        /\ \A q \in Requests : pc'[q] = "cas" => pc[q] = "cas"
    BY <1>5, <1>T, <2>1 DEF CompareAndSwap, Types
  <2>5. Types'
    <3>1. accepted' \in [ClientKeys -> Seq(Nat)]
      BY <1>5, <1>T, <2>1, <2>3 DEF CompareAndSwap, Types
    <3>2. rlEntStore' \in [ClientKeys -> [id : Nat, stamps : Seq(Nat)]]
      <4>1. rlEntStore[k].id \in Nat BY <1>T, <2>1 DEF Types
      <4>2. [id |-> rlEntStore[k].id + 1, stamps |-> f]
              \in [id : Nat, stamps : Seq(Nat)]
        BY <2>1, <4>1
      <4>3. rlEntStore' = [rlEntStore EXCEPT ![k] = [id |-> rlEntStore[k].id + 1, stamps |-> f]]
        BY <1>5, <1>T, <2>1 DEF CompareAndSwap, Types
      <4> QED BY <1>T, <2>1, <4>2, <4>3 DEF Types
    <3>3. pc' \in [Requests -> {"idle", "append", "cas", "retry", "accepted", "rejected"}]
      BY <1>5, <1>T DEF CompareAndSwap, Types
    <3> QED BY <1>T, <2>4, <3>1, <3>2, <3>3 DEF Types
  <2> HIDE DEF acc2, u, new
  <2>6. ASSUME NEW j \in ClientKeys PROVE Extends(accepted'[j], accepted[j])
    <3>1. CASE j = k BY <2>3, <2>4, <3>1
    <3>2. CASE j # k
      <4>1. accepted'[j] = accepted[j] BY <2>4, <3>2
      <4> QED BY <1>A, <4>1 DEF Extends
    <3> QED BY <3>1, <3>2
  <2>7. \A j \in ClientKeys : accepted'[j] \in Seq(Nat) BY <2>5 DEF Types
  <2>8. ASSUME NEW j \in ClientKeys
        PROVE  /\ rlEntStore'[j].id = Len(accepted'[j])
               /\ EntryOK(rlEntStore'[j], accepted'[j])
               /\ \A i \in 1..Len(accepted'[j]) : accepted'[j][i] <= now
    <3>1. CASE j = k
      <4>1. rlEntStore'[j].id = Len(acc2) BY <2>2, <2>3, <2>4, <3>1 DEF new
      <4>2. \A i \in 1..Len(acc2) : acc2[i] <= now
        <5> SUFFICES ASSUME NEW i \in 1..Len(acc2) PROVE acc2[i] <= now
          OBVIOUS
        <5>1. CASE i = Len(acc2) BY <2>3, <5>1
        <5>2. CASE i # Len(acc2)
          <6>1. i \in 1..Len(acc) BY <2>1, <2>3, <5>2
          <6> QED BY <2>2, <2>3, <6>1 DEF Extends
        <5> QED BY <5>1, <5>2
      <4> QED BY <2>3, <2>4, <3>1, <4>1, <4>2
    <3>2. CASE j # k BY <2>4, <3>2 DEF WindowInv
    <3> QED BY <3>1, <3>2
  <2>9. \A q \in Requests : EntryOK(origin[q], accepted'[key[q]])
    <3> SUFFICES ASSUME NEW q \in Requests
                 PROVE  EntryOK(origin[q], accepted'[key[q]])
      OBVIOUS
    <3>1. /\ EntryOK(origin[q], accepted[key[q]]) /\ key[q] \in ClientKeys
          /\ origin[q] \in [id : Nat, stamps : Seq(Nat)]
      BY <1>K, <1>T DEF WindowInv, Types
    <3> QED BY <1>A, <2>6, <2>7, <3>1, EntryStable
  <2>10. ASSUME NEW q \in Requests, pc'[q] = "cas"
         PROVE  FreshOK(fresh[q], origin[q], accepted'[key[q]], now)
    <3>1. /\ FreshOK(fresh[q], origin[q], accepted[key[q]], now)
          /\ EntryOK(origin[q], accepted[key[q]]) /\ key[q] \in ClientKeys
          /\ origin[q] \in [id : Nat, stamps : Seq(Nat)] /\ fresh[q] \in Seq(Nat)
      BY <1>K, <1>T, <2>4, <2>10 DEF WindowInv, Types
    <3> QED BY <1>A, <2>1, <2>6, <2>7, <3>1, FreshStable
  <2>11. AcceptedInOrder'
    <3> SUFFICES ASSUME NEW j \in ClientKeys, NEW a \in 1..Len(accepted'[j]),
                        NEW b \in 1..Len(accepted'[j]), a <= b
                 PROVE  accepted'[j][a] <= accepted'[j][b]
      BY DEF AcceptedInOrder
    <3>1. CASE j # k BY <2>4, <3>1 DEF WindowInv, AcceptedInOrder
    <3>2. CASE j = k /\ b \in 1..Len(acc)
      <4>1. a \in 1..Len(acc) BY <2>1, <3>2
      <4> QED BY <2>3, <2>4, <3>2, <4>1 DEF WindowInv, AcceptedInOrder, Extends
    <3>3. CASE j = k /\ b = Len(acc2)
      <4>1. a \in 1..Len(acc) \/ a = Len(acc2) BY <2>1, <2>3, <2>4, <3>3
      <4>2. acc2[Len(acc2)] <= acc2[Len(acc2)]
        <5>1. acc2[Len(acc2)] \in Nat BY <2>1, <2>3
        <5> QED BY <5>1
      <4> QED BY <2>3, <2>4, <3>3, <4>1, <4>2
    <3>4. j = k => b \in 1..Len(acc) \/ b = Len(acc2)
      <4>1. Len(acc) \in Nat /\ Len(acc2) = Len(acc) + 1 BY <2>1, <2>3
      <4>2. j = k => b \in 1..Len(acc2) BY <2>4
      <4> QED BY <4>1, <4>2
    <3> QED BY <3>1, <3>2, <3>3, <3>4
  <2>12. LimitHolds'
    <3> SUFFICES ASSUME NEW j \in ClientKeys,
                        NEW i \in (NumRequestsLimit + 1)..Len(accepted'[j])
                 PROVE  accepted'[j][i] - accepted'[j][i - NumRequestsLimit]
                          > WindowLength
      BY DEF LimitHolds
    <3>1. CASE j # k BY <2>4, <3>1 DEF WindowInv, LimitHolds
    <3>2. CASE j = k /\ i \in 1..Len(acc)
      <4>1. i \in (NumRequestsLimit + 1)..Len(acc)
            /\ i - NumRequestsLimit \in 1..Len(acc)
        BY <2>1, <3>2
      <4>2. acc2[i] = acc[i]
            /\ acc2[i - NumRequestsLimit] = acc[i - NumRequestsLimit]
        BY <2>3, <4>1, <3>2 DEF Extends
      <4>3. acc[i] - acc[i - NumRequestsLimit] > WindowLength
        BY <2>1, <4>1 DEF WindowInv, LimitHolds
      <4> QED BY <2>4, <3>2, <4>2, <4>3
    <3>3. CASE j = k /\ i = Len(acc2)
      <4>1. Len(acc2) > NumRequestsLimit
        <5>1. i >= NumRequestsLimit + 1 /\ i \in Int OBVIOUS
        <5> QED BY <3>3, <5>1
      <4> QED BY <2>3, <2>4, <3>3, <4>1
    <3>4. j = k => i \in 1..Len(acc) \/ i = Len(acc2)
      <4>1. Len(acc) \in Nat /\ Len(acc2) = Len(acc) + 1 BY <2>1, <2>3
      <4>2. j = k => i \in 1..Len(acc2)
        <5>1. j = k => Len(accepted'[j]) = Len(acc2) BY <2>4
        <5> QED BY <4>1, <5>1
      <4> QED BY <4>1, <4>2
    <3> QED BY <3>1, <3>2, <3>3, <3>4
  <2> QED BY <2>4, <2>5, <2>8, <2>9, <2>10, <2>11, <2>12 DEF WindowInv
<1>6. CASE UNCHANGED windowVars
  BY <1>6 DEF windowVars, WindowInv, Types, AcceptedInOrder, LimitHolds
<1> QED BY <1>1, <1>2, <1>3, <1>4, <1>5, <1>6 DEF WindowNext

\* No window of WindowLength ever holds more than NumRequestsLimit accepted
\* requests of one key, however many requests race on its list.
THEOREM LimitAlwaysHolds == WindowSpec => []LimitHolds
<1>1. WindowInv => LimitHolds BY DEF WindowInv
<1> QED BY <1>1, WindowInvInit, WindowInvStep, PTL DEF WindowSpec

\* The timestamps of accepted requests stay in order.
THEOREM AcceptedStayInOrder == WindowSpec => []AcceptedInOrder
<1>1. WindowInv => AcceptedInOrder BY DEF WindowInv
<1> QED BY <1>1, WindowInvInit, WindowInvStep, PTL DEF WindowSpec

-----------------------------------------------------------------------------
(* A refusal is justified.                                                 *)

\* What Recent keeps of an ordered list lies in the window.
LEMMA RecentInWindow ==
  ASSUME NEW stamps \in Seq(Nat), NEW t \in Nat, InWindow(stamps, t) # {},
         \A i, j \in 1..Len(stamps) : i <= j => stamps[i] <= stamps[j]
  PROVE  /\ Len(Recent(stamps, t)) \in 1..Len(stamps)
         /\ \A i \in (Len(stamps) - Len(Recent(stamps, t)) + 1)..Len(stamps) :
              stamps[i] >= t - WindowLength
<1> DEFINE P == InWindow(stamps, t)
           f == First(P)
<1>0. Len(stamps) \in Nat /\ \A j \in 1..Len(stamps) : stamps[j] \in Nat
  OBVIOUS
<1>1. f \in 1..Len(stamps) /\ stamps[f] >= t - WindowLength
  <2>1. P \in SUBSET Nat BY <1>0 DEF InWindow
  <2>2. f \in P BY <2>1, FirstProperty
  <2> QED BY <2>2 DEF InWindow
<1>2. Recent(stamps, t) = SubSeq(stamps, f, Len(stamps)) BY DEF Recent
<1> HIDE DEF f
<1>3. Len(Recent(stamps, t)) = Len(stamps) - f + 1 BY <1>0, <1>1, <1>2
<1>4. ASSUME NEW i \in f..Len(stamps) PROVE stamps[i] >= t - WindowLength
  <2>1. stamps[f] <= stamps[i] /\ stamps[f] \in Nat /\ stamps[i] \in Nat BY <1>0, <1>1
  <2> QED BY <1>1, <2>1, SlidingWindowConstants
<1>5. Len(stamps) - Len(Recent(stamps, t)) + 1 = f BY <1>0, <1>1, <1>3
<1> QED BY <1>0, <1>1, <1>3, <1>4, <1>5

\* An entry that is full leaves no room in what had been accepted either.
LEMMA FullWindow ==
  ASSUME NEW acc \in Seq(Nat), NEW e \in [id : Nat, stamps : Seq(Nat)],
         EntryOK(e, acc), NEW t \in Nat,
         \A i, j \in 1..Len(acc) : i <= j => acc[i] <= acc[j],
         Exceeded(e.stamps, t)
  PROVE  Cardinality(InWindow(acc, t)) >= NumRequestsLimit
<1> DEFINE st == e.stamps
           n == e.id
           m == Len(Recent(st, t))
<1>1. /\ st \in Seq(Nat) /\ Len(st) \in Nat /\ n \in Nat /\ Len(acc) \in Nat
      /\ InWindow(st, t) # {} /\ m >= NumRequestsLimit
  BY DEF Exceeded
<1>2. Len(st) # 0 /\ st # <<>> BY <1>1 DEF InWindow
<1>3. /\ n \in 1..Len(acc) /\ Len(st) <= n
      /\ \A i \in 1..Len(st) : st[i] = acc[n - Len(st) + i]
  BY <1>1, <1>2 DEF EntryOK, TailOf
<1>4. \A i, j \in 1..Len(st) : i <= j => st[i] <= st[j]
  <2> SUFFICES ASSUME NEW i \in 1..Len(st), NEW j \in 1..Len(st), i <= j
               PROVE  st[i] <= st[j]
    OBVIOUS
  <2>1. /\ n - Len(st) + i \in 1..Len(acc) /\ n - Len(st) + j \in 1..Len(acc)
        /\ n - Len(st) + i <= n - Len(st) + j
    <3>1. \A a, b, c, k, l \in Nat : a <= b /\ b \in 1..c /\ k \in 1..a /\ l \in 1..a /\ k <= l =>
            b - a + k \in 1..c /\ b - a + l \in 1..c /\ b - a + k <= b - a + l
      OBVIOUS
    <3>2. i \in Nat /\ j \in Nat OBVIOUS
    <3> HIDE DEF st, n
    <3> QED BY <1>1, <1>3, <3>1, <3>2
  <2> QED BY <1>3, <2>1
<1>5. /\ m \in 1..Len(st)
      /\ \A i \in (Len(st) - m + 1)..Len(st) : st[i] >= t - WindowLength
  BY <1>1, <1>4, RecentInWindow
<1> HIDE DEF st, n, m
<1>6. ASSUME NEW i \in (n - m + 1)..n PROVE i \in InWindow(acc, t)
  <2>1. i - (n - Len(st)) \in (Len(st) - m + 1)..Len(st) BY <1>1, <1>3, <1>5
  <2>2. /\ st[i - (n - Len(st))] >= t - WindowLength
        /\ i - (n - Len(st)) \in 1..Len(st)
    <3>1. \A k \in (Len(st) - m + 1)..Len(st) : k \in 1..Len(st) BY <1>1, <1>5
    <3> QED BY <1>5, <2>1, <3>1
  <2>3. st[i - (n - Len(st))] = acc[n - Len(st) + (i - (n - Len(st)))] BY <1>3, <2>2
  <2>4. n - Len(st) + (i - (n - Len(st))) = i BY <1>1, <1>3
  <2>5. i \in 1..Len(acc) BY <1>1, <1>3, <1>5
  <2> QED BY <2>2, <2>3, <2>4, <2>5 DEF InWindow
<1>7. /\ IsFiniteSet(InWindow(acc, t))
  <2>1. IsFiniteSet(1..Len(acc)) BY <1>1, FS_Interval
  <2>2. InWindow(acc, t) \in SUBSET (1..Len(acc)) BY DEF InWindow
  <2> QED BY <2>1, <2>2, FS_Subset
<1>8. Cardinality((n - m + 1)..n) = m
  <2>1. n - m + 1 \in Int /\ n \in Int /\ ~(n - m + 1 > n) /\ n - (n - m + 1) + 1 = m
    BY <1>1, <1>3, <1>5
  <2> QED BY <2>1, FS_Interval
<1>9. Cardinality((n - m + 1)..n) <= Cardinality(InWindow(acc, t))
  BY <1>6, <1>7, FS_Subset
<1>10. Cardinality(InWindow(acc, t)) \in Nat BY <1>7, FS_CardinalityType
<1>11. m \in Nat BY <1>1, <1>5
<1> QED BY <1>1, <1>8, <1>9, <1>10, <1>11, SlidingWindowConstants

LEMMA WindowRejects == WindowInv /\ [WindowNext]_windowVars =>
                         \A r \in Requests : RejectsOnlyWhenFull(r)
<1> SUFFICES ASSUME WindowInv, [WindowNext]_windowVars, NEW r \in Requests,
                    pc[r] = "append", pc'[r] = "rejected"
             PROVE  Cardinality(InWindow(accepted[key[r]], now)) >= NumRequestsLimit
  BY DEF RejectsOnlyWhenFull
<1>T. Types BY DEF WindowInv
<1>1. /\ key[r] \in ClientKeys /\ accepted[key[r]] \in Seq(Nat) /\ now \in Nat
      /\ origin[r] \in [id : Nat, stamps : Seq(Nat)]
      /\ EntryOK(origin[r], accepted[key[r]])
  BY <1>T DEF Types, WindowInv
<1>2. \A i, j \in 1..Len(accepted[key[r]]) :
        i <= j => accepted[key[r]][i] <= accepted[key[r]][j]
  BY <1>1 DEF WindowInv, AcceptedInOrder
<1>3. TryAppend(r)
  <2>1. ASSUME NEW q \in Requests, Load(q) PROVE FALSE BY <1>T, <2>1 DEF Load, Types
  <2>2. ASSUME NEW q \in Requests, CompareAndSwap(q) PROVE FALSE
    BY <1>T, <2>2 DEF CompareAndSwap, Types
  <2>3. ASSUME NEW q \in Requests, TryAppend(q) PROVE q = r
    BY <1>T, <2>3 DEF TryAppend, Types
  <2>4. ~Tick /\ ~UNCHANGED windowVars BY DEF Tick, windowVars
  <2> QED BY <2>1, <2>2, <2>3, <2>4 DEF WindowNext
<1>4. Exceeded(origin[r].stamps, now) BY <1>3, <1>T DEF TryAppend, Types
<1> QED BY <1>1, <1>2, <1>4, FullWindow

\* A request is refused only when the window that ends now really holds the
\* limit, although TryAppend looks at a list that may be out of date by then.
THEOREM RejectionIsJustified == WindowSpec => RejectionJustified
<1>1. WindowInv /\ [WindowNext]_windowVars =>
        [\A r \in Requests : RejectsOnlyWhenFull(r)]_windowVars
  BY WindowRejects
<1> QED BY <1>1, WindowInvInit, WindowInvStep, PTL DEF WindowSpec, RejectionJustified

-----------------------------------------------------------------------------
(* The token pool.                                                         *)

Pcs == {"select", "consume", "register", "waiting", "retry", "emit", "done"}

At(lim, k, S) == {s \in StreamsOf(k) : lim[s] \in S}

Count(lim, k, S) == Cardinality(At(lim, k, S))

\* The streams of a key are finitely many.
LEMMA StreamsFinite ==
  ASSUME NEW k \in Keys
  PROVE  /\ IsFiniteSet(StreamsOf(k))
         /\ Cardinality(StreamsOf(k)) \in Nat
<1>1. StreamsOf(k) \subseteq Streams
  BY DEF StreamsOf
<1>2. IsFiniteSet(StreamsOf(k))
  BY <1>1, FS_Subset, PoolConstants DEF PoolConstants
<1> QED
  BY <1>2, FS_CardinalityType

\* A count of limiters never exceeds the number of streams of the key.
LEMMA CountBounds ==
  ASSUME NEW lim, NEW k \in Keys, NEW S
  PROVE  /\ IsFiniteSet(At(lim, k, S))
         /\ Count(lim, k, S) \in Nat
         /\ Count(lim, k, S) <= Cardinality(StreamsOf(k))
<1>1. At(lim, k, S) \subseteq StreamsOf(k)
  BY DEF At
<1>2. IsFiniteSet(At(lim, k, S)) /\ Cardinality(At(lim, k, S)) <= Cardinality(StreamsOf(k))
  BY <1>1, StreamsFinite, FS_Subset
<1> QED
  BY <1>2, FS_CardinalityType DEF Count

\* A limiter that enters S adds one to the count of its key.
LEMMA CountEnter ==
  ASSUME NEW lim \in [Streams -> Pcs], NEW s \in Streams, NEW to \in Pcs,
         NEW S, KeyOf[s] \in Keys, lim[s] \notin S, to \in S
  PROVE  Count([lim EXCEPT ![s] = to], KeyOf[s], S) = Count(lim, KeyOf[s], S) + 1
<1> DEFINE k == KeyOf[s]
<1>1. At([lim EXCEPT ![s] = to], k, S) = At(lim, k, S) \cup {s}
  BY DEF At, StreamsOf
<1>2. s \notin At(lim, k, S)
  BY DEF At
<1>3. IsFiniteSet(At(lim, k, S))
  BY CountBounds
<1> QED
  BY <1>1, <1>2, <1>3, FS_AddElement DEF Count

\* A limiter that leaves S takes one from the count of its key.
LEMMA CountLeave ==
  ASSUME NEW lim \in [Streams -> Pcs], NEW s \in Streams, NEW to \in Pcs,
         NEW S, KeyOf[s] \in Keys, lim[s] \in S, to \notin S
  PROVE  Count([lim EXCEPT ![s] = to], KeyOf[s], S) = Count(lim, KeyOf[s], S) - 1
<1> DEFINE k == KeyOf[s]
<1>1. At([lim EXCEPT ![s] = to], k, S) = At(lim, k, S) \ {s}
  BY DEF At, StreamsOf
<1>2. s \in At(lim, k, S)
  BY DEF At, StreamsOf
<1>3. IsFiniteSet(At(lim, k, S))
  BY CountBounds
<1> QED
  BY <1>1, <1>2, <1>3, FS_RemoveElement DEF Count

Held(lim, k) == Count(lim, k, {"emit"})

Refused(lim, k) == Count(lim, k, {"register", "waiting"})

\* Both counts are numbers, no larger than the number of streams.
LEMMA CountsAreBounded ==
  ASSUME NEW lim, NEW k \in Keys
  PROVE  /\ Held(lim, k) \in Nat
         /\ Refused(lim, k) \in Nat
         /\ Held(lim, k) <= Cardinality(StreamsOf(k))
         /\ Refused(lim, k) <= Cardinality(StreamsOf(k))
         /\ Cardinality(StreamsOf(k)) \in Nat
BY CountBounds, StreamsFinite DEF Held, Refused

Moves(lim, lim2, s, to) ==
  /\ lim \in [Streams -> Pcs]
  /\ s \in Streams
  /\ to \in Pcs
  /\ lim2 = [lim EXCEPT ![s] = to]

\* How the counts change when one limiter moves.
LEMMA MoveCounts ==
  ASSUME NEW lim, NEW lim2, NEW s, NEW to, Moves(lim, lim2, s, to), NEW k \in Keys
  PROVE  /\ KeyOf[s] # k \/ (lim[s] = "emit" <=> to = "emit") =>
              Held(lim2, k) = Held(lim, k)
         /\ \/ KeyOf[s] # k
            \/ lim[s] \in {"register", "waiting"} <=> to \in {"register", "waiting"}
            => Refused(lim2, k) = Refused(lim, k)
         /\ KeyOf[s] = k /\ lim[s] # "emit" /\ to = "emit" =>
              Held(lim2, k) = Held(lim, k) + 1
         /\ KeyOf[s] = k /\ lim[s] = "emit" /\ to # "emit" =>
              Held(lim2, k) = Held(lim, k) - 1
         /\ /\ KeyOf[s] = k /\ lim[s] \notin {"register", "waiting"}
            /\ to \in {"register", "waiting"}
            => Refused(lim2, k) = Refused(lim, k) + 1
<1>1. ASSUME KeyOf[s] # k \/ (lim[s] = "emit" <=> to = "emit")
      PROVE  Held(lim2, k) = Held(lim, k)
  <2>1. At(lim2, k, {"emit"}) = At(lim, k, {"emit"})
    BY <1>1 DEF Moves, At, StreamsOf
  <2> QED
    BY <2>1 DEF Held, Count
<1>2. ASSUME \/ KeyOf[s] # k
             \/ lim[s] \in {"register", "waiting"} <=> to \in {"register", "waiting"}
      PROVE  Refused(lim2, k) = Refused(lim, k)
  <2>1. At(lim2, k, {"register", "waiting"}) = At(lim, k, {"register", "waiting"})
    BY <1>2 DEF Moves, At, StreamsOf
  <2> QED
    BY <2>1 DEF Refused, Count
<1>3. ASSUME KeyOf[s] = k, lim[s] # "emit", to = "emit"
      PROVE  Held(lim2, k) = Held(lim, k) + 1
  <2>1. lim[s] \notin {"emit"} /\ to \in {"emit"} /\ KeyOf[s] \in Keys
    BY <1>3
  <2> QED
    BY <1>3, <2>1, CountEnter DEF Moves, Held
<1>4. ASSUME KeyOf[s] = k, lim[s] = "emit", to # "emit"
      PROVE  Held(lim2, k) = Held(lim, k) - 1
  <2>1. lim[s] \in {"emit"} /\ to \notin {"emit"} /\ KeyOf[s] \in Keys
    BY <1>4
  <2> QED
    BY <1>4, <2>1, CountLeave DEF Moves, Held
<1>5. ASSUME KeyOf[s] = k, lim[s] \notin {"register", "waiting"},
             to \in {"register", "waiting"}
      PROVE  Refused(lim2, k) = Refused(lim, k) + 1
  <2>1. KeyOf[s] \in Keys
    BY <1>5
  <2> QED
    BY <1>5, <2>1, CountEnter DEF Moves, Refused
<1> QED
  BY <1>1, <1>2, <1>3, <1>4, <1>5

-----------------------------------------------------------------------------
(* The inductive invariant: the accounts of the pool.                      *)

PoolBase ==
  /\ poolRuns \in BOOLEAN
  /\ tokensMap \in [Keys -> Int]
  /\ listeners \subseteq Streams
  /\ fatal \in BOOLEAN
  /\ limiter \in [Streams -> Pcs]
  /\ granted \in [Keys -> Nat]
  /\ emitted \in [Keys -> Nat]

\* What is left and what was granted are the quota; a negative counter is
\* owed to limiters that wait.
TokensAccounted ==
  \A k \in Keys :
    /\ tokensMap[k] <= NumTokensPerKey
    /\ granted[k] <= NumTokensPerKey
    /\ tokensMap[k] >= 0 => granted[k] + tokensMap[k] <= NumTokensPerKey
    /\ tokensMap[k] + Refused(limiter, k) >= 0

\* Items that left, and items about to leave, were granted in this interval
\* or belong to a limiter that holds one from before.
EmittedAccounted ==
  \A k \in Keys : emitted[k] + Held(limiter, k)
                    <= granted[k] + Cardinality(StreamsOf(k))

PoolInv == PoolBase /\ TokensAccounted /\ EmittedAccounted

\* The invariant holds in the initial state.
LEMMA PoolInvInit == Init => PoolInv
<1> SUFFICES ASSUME Init PROVE PoolInv
  OBVIOUS
<1> USE PoolConstants DEF PoolConstants
<1>0. tokensMap \in [Keys -> Int] /\ NumTokensPerKey \in Int
  BY DEF Init, Full
<1>1. PoolBase
  <2>1. limiter \in [Streams -> Pcs]
    BY DEF Init, Pcs
  <2>2. granted \in [Keys -> Nat] /\ emitted \in [Keys -> Nat]
    BY DEF Init
  <2> QED
    BY <1>0, <2>1, <2>2 DEF Init, PoolBase
<1>2. ASSUME NEW k \in Keys
      PROVE  /\ Refused(limiter, k) \in Nat
             /\ Held(limiter, k) \in Nat
             /\ Held(limiter, k) <= Cardinality(StreamsOf(k))
             /\ Cardinality(StreamsOf(k)) \in Nat
  BY CountsAreBounded
<1>3. TokensAccounted
  BY <1>2 DEF Init, TokensAccounted, Full
<1>4. EmittedAccounted
  BY <1>2 DEF Init, EmittedAccounted
<1> QED
  BY <1>1, <1>3, <1>4 DEF PoolInv

\* A step that leaves the pool's accounts alone and does not move a limiter
\* into or out of the counted places keeps the invariant.
LEMMA QuietMove ==
  ASSUME PoolInv, PoolBase', NEW s \in Streams, NEW to \in Pcs,
         limiter' = [limiter EXCEPT ![s] = to],
         limiter[s] \notin {"register", "waiting", "emit"},
         to \notin {"register", "waiting", "emit"},
         tokensMap' = tokensMap, granted' = granted, emitted' = emitted
  PROVE  PoolInv'
<1>1. limiter \in [Streams -> Pcs]
  BY DEF PoolInv, PoolBase
<1>2. Moves(limiter, limiter', s, to)
  BY <1>1 DEF Moves
<1>3. ASSUME NEW k \in Keys
      PROVE  /\ Refused(limiter', k) = Refused(limiter, k)
             /\ Held(limiter', k) = Held(limiter, k)
  BY <1>2, MoveCounts
<1> QED
  BY <1>3 DEF PoolInv, TokensAccounted, EmittedAccounted

\* A consumed token is granted to the limiter or owed to it.
LEMMA ConsumeKeeps ==
  ASSUME PoolInv, NEW s \in Streams, Consume(s)
  PROVE  PoolInv'
<1> DEFINE k == KeyOf[s]
<1> USE PoolConstants DEF PoolConstants
<1>0. /\ k \in Keys
      /\ limiter \in [Streams -> Pcs]
      /\ tokensMap \in [Keys -> Int] /\ granted \in [Keys -> Nat]
      /\ emitted \in [Keys -> Nat]
  BY DEF PoolInv, PoolBase
<1>1. tokensMap' = [tokensMap EXCEPT ![k] = @ - 1] /\ emitted' = emitted
  BY DEF Consume
<1>2. limiter[s] \in {"consume", "retry"}
  BY DEF Consume
<1>3. \A j \in Keys : /\ Cardinality(StreamsOf(j)) \in Nat
                      /\ Held(limiter, j) \in Nat
                      /\ Refused(limiter, j) \in Nat
  BY CountsAreBounded
<1>4. CASE /\ tokensMap[k] >= 1
           /\ granted' = [granted EXCEPT ![k] = @ + 1]
           /\ LimiterGoes(s, "emit")
  <2>1. limiter' = [limiter EXCEPT ![s] = "emit"]
    BY <1>4 DEF LimiterGoes
  <2>9. Moves(limiter, limiter', s, "emit")
    BY <1>0, <2>1 DEF Moves, Pcs
  <2>2. PoolBase'
    BY <1>0, <1>1, <1>4, <2>1 DEF PoolInv, PoolBase, Consume, Pcs
  <2>3. \A j \in Keys : Refused(limiter', j)
                          = Refused(limiter, j)
    BY <1>2, <2>9, MoveCounts
  <2>4. \A j \in Keys : j # k => Held(limiter', j) = Held(limiter, j)
    BY <1>2, <2>9, MoveCounts
  <2>5. Held(limiter', k) = Held(limiter, k) + 1
    BY <1>2, <2>9, MoveCounts
  <2>6. TokensAccounted'
    BY <1>0, <1>1, <1>3, <1>4, <2>3 DEF PoolInv, TokensAccounted
  <2>7. EmittedAccounted'
    BY <1>0, <1>1, <1>3, <1>4, <2>4, <2>5 DEF PoolInv, EmittedAccounted
  <2> QED
    BY <2>2, <2>6, <2>7 DEF PoolInv
<1>5. CASE /\ tokensMap[k] < 1
           /\ LimiterGoes(s, "register")
           /\ UNCHANGED granted
  <2>1. limiter' = [limiter EXCEPT ![s] = "register"]
    BY <1>5 DEF LimiterGoes
  <2>9. Moves(limiter, limiter', s, "register")
    BY <1>0, <2>1 DEF Moves, Pcs
  <2>2. PoolBase'
    BY <1>0, <1>1, <1>5, <2>1 DEF PoolInv, PoolBase, Consume, Pcs
  <2>3. \A j \in Keys : Held(limiter', j) = Held(limiter, j)
    BY <1>2, <2>9, MoveCounts
  <2>4. \A j \in Keys : j # k => Refused(limiter', j)
                                   = Refused(limiter, j)
    BY <1>2, <2>9, MoveCounts
  <2>5. Refused(limiter', k)
          = Refused(limiter, k) + 1
    BY <1>2, <2>9, MoveCounts
  <2>6. TokensAccounted'
    BY <1>0, <1>1, <1>3, <1>5, <2>4, <2>5 DEF PoolInv, TokensAccounted
  <2>7. EmittedAccounted'
    BY <1>0, <1>1, <1>3, <1>5, <2>3 DEF PoolInv, EmittedAccounted
  <2> QED
    BY <2>2, <2>6, <2>7 DEF PoolInv
<1> QED
  BY <1>4, <1>5 DEF Consume

\* A refused limiter stays counted as waiting while it registers.
LEMMA RegisterKeeps ==
  ASSUME PoolInv, NEW s \in Streams, Register(s)
  PROVE  PoolInv'
<1>1. /\ limiter \in [Streams -> Pcs]
      /\ limiter[s] = "register"
      /\ limiter' = [limiter EXCEPT ![s] = "waiting"]
  BY DEF PoolInv, PoolBase, Register, LimiterGoes
<1>2. PoolBase'
  BY <1>1 DEF PoolInv, PoolBase, Register, Pcs, history
<1>9. Moves(limiter, limiter', s, "waiting")
  BY <1>1 DEF Moves, Pcs
<1>3. \A j \in Keys : /\ Refused(limiter', j) = Refused(limiter, j)
                      /\ Held(limiter', j) = Held(limiter, j)
  BY <1>1, <1>9, MoveCounts
<1> QED
  BY <1>2, <1>3 DEF PoolInv, TokensAccounted, EmittedAccounted, Register, history

\* An emission moves an item from the held to the emitted ones.
LEMMA EmitKeeps ==
  ASSUME PoolInv, NEW s \in Streams, Emit(s)
  PROVE  PoolInv'
<1> DEFINE k == KeyOf[s]
<1> USE PoolConstants DEF PoolConstants
<1>1. /\ limiter \in [Streams -> Pcs]
      /\ limiter[s] = "emit"
      /\ limiter' = [limiter EXCEPT ![s] = "select"]
      /\ emitted' = [emitted EXCEPT ![k] = @ + 1]
      /\ emitted \in [Keys -> Nat] /\ granted \in [Keys -> Nat] /\ k \in Keys
      /\ tokensMap' = tokensMap /\ granted' = granted
  BY DEF PoolInv, PoolBase, Emit, LimiterGoes, poolVars
<1>2. PoolBase'
  BY <1>1 DEF PoolInv, PoolBase, Emit, Pcs, poolVars
<1>9. Moves(limiter, limiter', s, "select")
  BY <1>1 DEF Moves, Pcs
<1>3. \A j \in Keys : /\ Cardinality(StreamsOf(j)) \in Nat
                      /\ Held(limiter, j) \in Nat
  BY CountsAreBounded
<1>4. \A j \in Keys : Refused(limiter', j)
                        = Refused(limiter, j)
  BY <1>1, <1>9, MoveCounts
<1>5. \A j \in Keys : j # k => Held(limiter', j) = Held(limiter, j)
  BY <1>1, <1>9, MoveCounts
<1>6. Held(limiter', k) = Held(limiter, k) - 1
  BY <1>1, <1>9, MoveCounts
<1>7. TokensAccounted'
  BY <1>1, <1>4 DEF PoolInv, TokensAccounted
<1>8. EmittedAccounted'
  <2> SUFFICES ASSUME NEW j \in Keys
               PROVE  emitted'[j] + Held(limiter', j)
                        <= granted'[j] + Cardinality(StreamsOf(j))
    BY DEF EmittedAccounted
  <2>2. emitted[j] + Held(limiter, j) <= granted[j] + Cardinality(StreamsOf(j))
    BY DEF PoolInv, EmittedAccounted
  <2>3. emitted[j] \in Nat /\ granted[j] \in Nat
    BY <1>1
  <2>4. CASE j = k
    BY <1>1, <1>3, <1>6, <2>2, <2>3, <2>4
  <2>5. CASE j # k
    BY <1>1, <1>5, <2>2, <2>5
  <2> QED
    BY <2>4, <2>5
<1> QED
  BY <1>2, <1>7, <1>8 DEF PoolInv

\* A refresh settles every account: nothing granted, nothing emitted, and what
\* the limiters hold is at most one item each.
LEMMA RefreshKeeps ==
  ASSUME PoolInv, Refresh
  PROVE  PoolInv'
<1> USE PoolConstants DEF PoolConstants
<1>1. PoolBase'
  BY DEF PoolInv, PoolBase, Refresh, Full, Pcs
<1>2. \A j \in Keys : /\ Cardinality(StreamsOf(j)) \in Nat
                      /\ Held(limiter', j) \in Nat
                      /\ Held(limiter', j) <= Cardinality(StreamsOf(j))
                      /\ Refused(limiter', j) \in Nat
  BY CountsAreBounded
<1>3. TokensAccounted'
  BY <1>2 DEF Refresh, Full, TokensAccounted
<1>4. EmittedAccounted'
  BY <1>2 DEF Refresh, EmittedAccounted
<1> QED
  BY <1>1, <1>3, <1>4 DEF PoolInv

\* A step that touches neither the pool's accounts nor a limiter.
LEMMA UnrelatedKeeps ==
  ASSUME PoolInv, PoolBase', limiter' = limiter, tokensMap' = tokensMap,
         granted' = granted, emitted' = emitted
  PROVE  PoolInv'
BY DEF PoolInv, TokensAccounted, EmittedAccounted

\* Every step keeps the invariant.
LEMMA PoolInvStep == PoolInv /\ [Next]_vars => PoolInv'
<1> SUFFICES ASSUME PoolInv, [Next]_vars PROVE PoolInv'
  OBVIOUS
<1> USE DEF poolVars, streamVars, history
<1>1. CASE Refresh
  BY <1>1, RefreshKeeps
<1>2. CASE PoolExit
  BY <1>2, UnrelatedKeeps DEF PoolExit, PoolInv, PoolBase
<1>3. CASE UNCHANGED vars
  BY <1>3, UnrelatedKeeps DEF vars, PoolInv, PoolBase
<1>4. ASSUME NEW s \in Streams, StreamStep(s) PROVE PoolInv'
  <2>1. CASE TakeItem(s)
    <3>1. PoolBase'
      BY <2>1 DEF TakeItem, LimiterGoes, PoolInv, PoolBase, Pcs
    <3> QED
      BY <2>1, <3>1, QuietMove DEF TakeItem, LimiterGoes, Pcs
  <2>2. CASE CloseIn(s)
    BY <2>2, UnrelatedKeeps DEF CloseIn, PoolInv, PoolBase
  <2>3. CASE LimiterReturn(s)
    <3>1. PoolBase'
      BY <2>3 DEF LimiterReturn, LimiterGoes, PoolInv, PoolBase, Pcs
    <3> QED
      BY <2>3, <3>1, QuietMove DEF LimiterReturn, LimiterGoes, Pcs
  <2>4. CASE Consume(s)
    BY <2>4, ConsumeKeeps
  <2>5. CASE Register(s)
    BY <2>5, RegisterKeeps
  <2>6. CASE CallStopped(s)
    BY <2>6, UnrelatedKeeps DEF CallStopped, PoolInv, PoolBase
  <2>7. CASE Emit(s)
    BY <2>7, EmitKeeps
  <2>8. CASE ForwarderReturn(s)
    BY <2>8, UnrelatedKeeps DEF ForwarderReturn, PoolInv, PoolBase
  <2> QED
    BY <1>4, <2>1, <2>2, <2>3, <2>4, <2>5, <2>6, <2>7, <2>8 DEF StreamStep
<1>5. ASSUME NEW s \in Streams, Forward(s) PROVE PoolInv'
  BY <1>5, UnrelatedKeeps DEF Forward, PoolInv, PoolBase
<1>6. ASSUME NEW s \in Streams, Cancel(s) PROVE PoolInv'
  BY <1>6, UnrelatedKeeps DEF Cancel, PoolInv, PoolBase
<1> QED
  BY <1>1, <1>2, <1>3, <1>4, <1>5, <1>6 DEF Next, Step

\* Whatever the streams do, between two refreshes at most the quota plus one
\* item per limiter of a key gets out.
THEOREM EmissionIsBounded == Spec => []EmissionBound
<1>1. PoolInv => EmissionBound
  <2> SUFFICES ASSUME PoolInv, NEW k \in Keys
               PROVE  emitted[k] <= NumTokensPerKey + Cardinality(StreamsOf(k))
    BY DEF EmissionBound
  <2>1. /\ emitted[k] \in Nat /\ granted[k] \in Nat
        /\ granted[k] <= NumTokensPerKey
        /\ emitted[k] + Held(limiter, k) <= granted[k] + Cardinality(StreamsOf(k))
    BY DEF PoolInv, PoolBase, TokensAccounted, EmittedAccounted
  <2>2. Held(limiter, k) \in Nat /\ Cardinality(StreamsOf(k)) \in Nat
    BY CountsAreBounded
  <2> QED
    BY <2>1, <2>2, PoolConstants DEF PoolConstants
<1> QED
  BY <1>1, PoolInvInit, PoolInvStep, PTL DEF Spec
-----------------------------------------------------------------------------
(* The stream of items through a limiter.                                  *)

InHand(s) ==
  (IF limiter[s] \in {"select", "done"} THEN 0 ELSE 1)
    + (IF forwarder[s] = "send" THEN 1 ELSE 0)

StreamBase ==
  /\ feeder \in [Streams -> 0..NumItems]
  /\ inClosed \in [Streams -> BOOLEAN]
  /\ forwarder \in [Streams -> {"recv", "send", "done"}]
  /\ arrived \in [Streams -> Nat]
  /\ streamDone \in [Streams -> BOOLEAN]

\* Only limiters that wait are woken; every item fed is in hand or arrived;
\* the ends close in the order of the flow.
StreamAccounted(s) ==
  /\ s \in listeners => limiter[s] = "waiting"
  /\ arrived[s] + InHand(s) = feeder[s]
  /\ inClosed[s] => feeder[s] = NumItems
  /\ limiter[s] = "done" => inClosed[s] \/ streamDone[s]
  /\ forwarder[s] = "done" => limiter[s] = "done"

StreamInv == PoolInv /\ StreamBase /\ \A s \in Streams : StreamAccounted(s)

\* The stream invariant holds in the initial state.
LEMMA StreamInvInit == Init => StreamInv
<1> SUFFICES ASSUME Init PROVE StreamInv
  OBVIOUS
<1> USE PoolConstants DEF PoolConstants
<1>1. StreamBase
  BY DEF Init, StreamBase
<1>2. ASSUME NEW s \in Streams PROVE StreamAccounted(s)
  BY DEF Init, StreamAccounted, InHand
<1> QED
  BY <1>1, <1>2, PoolInvInit DEF StreamInv

\* One stream moves, the others keep their accounts.
LEMMA OtherStreamsKeep ==
  ASSUME StreamInv, NEW s \in Streams, NEW r \in Streams, r # s,
         limiter'[r] = limiter[r], forwarder'[r] = forwarder[r],
         feeder'[r] = feeder[r], inClosed'[r] = inClosed[r],
         arrived'[r] = arrived[r], streamDone'[r] = streamDone[r],
         r \in listeners' => r \in listeners
  PROVE  StreamAccounted(r)'
BY DEF StreamInv, StreamAccounted, InHand

\* Every step keeps the stream invariant.
LEMMA StreamInvStep == StreamInv /\ [Next]_vars => StreamInv'
<1> SUFFICES ASSUME StreamInv, [Next]_vars PROVE StreamInv'
  OBVIOUS
<1> USE PoolConstants DEF PoolConstants, poolVars, streamVars, history
<1>0. /\ PoolInv'
      /\ limiter \in [Streams -> Pcs]
      /\ StreamBase
      /\ \A r \in Streams : StreamAccounted(r)
  BY PoolInvStep DEF StreamInv, PoolInv, PoolBase
<1>1. CASE Refresh
  <2>1. StreamBase'
    BY <1>0, <1>1 DEF Refresh, StreamBase
  <2>2. ASSUME NEW r \in Streams PROVE StreamAccounted(r)'
    BY <1>0, <1>1 DEF Refresh, StreamAccounted, InHand
  <2> QED
    BY <1>0, <2>1, <2>2 DEF StreamInv
<1>2. CASE PoolExit
  BY <1>0, <1>2 DEF PoolExit, StreamInv, StreamBase, StreamAccounted, InHand
<1>3. CASE UNCHANGED vars
  BY <1>0, <1>3 DEF vars, StreamInv, StreamBase, StreamAccounted, InHand
<1>4. ASSUME NEW s \in Streams, StreamStep(s) \/ Forward(s) \/ Cancel(s)
      PROVE  StreamInv'
  <2>0. StreamAccounted(s)
    BY <1>0
  <2>1. CASE TakeItem(s)
    <3>1. StreamBase'
      BY <1>0, <2>1 DEF TakeItem, StreamBase
    <3>2. StreamAccounted(s)'
      BY <1>0, <2>0, <2>1 DEF TakeItem, LimiterGoes, StreamAccounted, InHand, StreamBase
    <3>3. \A r \in Streams : r # s => StreamAccounted(r)'
      BY <1>0, <2>1, OtherStreamsKeep DEF TakeItem, LimiterGoes, StreamBase
    <3> QED
      BY <1>0, <3>1, <3>2, <3>3 DEF StreamInv
  <2>2. CASE CloseIn(s)
    <3>1. StreamBase'
      BY <1>0, <2>2 DEF CloseIn, StreamBase
    <3>2. StreamAccounted(s)'
      BY <1>0, <2>0, <2>2 DEF CloseIn, StreamAccounted, InHand, StreamBase
    <3>3. \A r \in Streams : r # s => StreamAccounted(r)'
      BY <1>0, <2>2, OtherStreamsKeep DEF CloseIn, StreamBase
    <3> QED
      BY <1>0, <3>1, <3>2, <3>3 DEF StreamInv
  <2>3. CASE LimiterReturn(s)
    <3>1. StreamBase'
      BY <1>0, <2>3 DEF LimiterReturn, StreamBase
    <3>2. StreamAccounted(s)'
      BY <1>0, <2>0, <2>3 DEF LimiterReturn, LimiterGoes, StreamAccounted, InHand, StreamBase
    <3>3. \A r \in Streams : r # s => StreamAccounted(r)'
      BY <1>0, <2>3, OtherStreamsKeep DEF LimiterReturn, LimiterGoes, StreamBase
    <3> QED
      BY <1>0, <3>1, <3>2, <3>3 DEF StreamInv
  <2>4. CASE Consume(s)
    <3>1. StreamBase'
      BY <1>0, <2>4 DEF Consume, StreamBase
    <3>2. StreamAccounted(s)'
      BY <1>0, <2>0, <2>4 DEF Consume, LimiterGoes, StreamAccounted, InHand, StreamBase
    <3>3. \A r \in Streams : r # s => StreamAccounted(r)'
      BY <1>0, <2>4, OtherStreamsKeep DEF Consume, LimiterGoes, StreamBase
    <3> QED
      BY <1>0, <3>1, <3>2, <3>3 DEF StreamInv
  <2>5. CASE Register(s)
    <3>1. StreamBase'
      BY <1>0, <2>5 DEF Register, StreamBase
    <3>2. StreamAccounted(s)'
      BY <1>0, <2>0, <2>5 DEF Register, LimiterGoes, StreamAccounted, InHand, StreamBase
    <3>3. \A r \in Streams : r # s => StreamAccounted(r)'
      BY <1>0, <2>5, OtherStreamsKeep DEF Register, LimiterGoes, StreamBase
    <3> QED
      BY <1>0, <3>1, <3>2, <3>3 DEF StreamInv
  <2>6. CASE CallStopped(s)
    BY <1>0, <2>6 DEF CallStopped, StreamInv, StreamBase, StreamAccounted, InHand
  <2>7. CASE Emit(s)
    <3>1. StreamBase'
      BY <1>0, <2>7 DEF Emit, StreamBase
    <3>2. StreamAccounted(s)'
      BY <1>0, <2>0, <2>7 DEF Emit, LimiterGoes, StreamAccounted, InHand, StreamBase
    <3>3. \A r \in Streams : r # s => StreamAccounted(r)'
      BY <1>0, <2>7, OtherStreamsKeep DEF Emit, LimiterGoes, StreamBase
    <3> QED
      BY <1>0, <3>1, <3>2, <3>3 DEF StreamInv
  <2>8. CASE ForwarderReturn(s)
    <3>1. StreamBase'
      BY <1>0, <2>8 DEF ForwarderReturn, StreamBase
    <3>2. StreamAccounted(s)'
      BY <1>0, <2>0, <2>8 DEF ForwarderReturn, StreamAccounted, InHand, StreamBase
    <3>3. \A r \in Streams : r # s => StreamAccounted(r)'
      BY <1>0, <2>8, OtherStreamsKeep DEF ForwarderReturn, StreamBase
    <3> QED
      BY <1>0, <3>1, <3>2, <3>3 DEF StreamInv
  <2>9. CASE Forward(s)
    <3>1. StreamBase'
      BY <1>0, <2>9 DEF Forward, StreamBase
    <3>2. StreamAccounted(s)'
      BY <1>0, <2>0, <2>9 DEF Forward, StreamAccounted, InHand, StreamBase
    <3>3. \A r \in Streams : r # s => StreamAccounted(r)'
      BY <1>0, <2>9, OtherStreamsKeep DEF Forward, StreamBase
    <3> QED
      BY <1>0, <3>1, <3>2, <3>3 DEF StreamInv
  <2>10. CASE Cancel(s)
    <3>1. StreamBase'
      BY <1>0, <2>10 DEF Cancel, StreamBase
    <3>2. StreamAccounted(s)'
      BY <1>0, <2>0, <2>10 DEF Cancel, StreamAccounted, InHand, StreamBase
    <3>3. \A r \in Streams : r # s => StreamAccounted(r)'
      BY <1>0, <2>10, OtherStreamsKeep DEF Cancel, StreamBase
    <3> QED
      BY <1>0, <3>1, <3>2, <3>3 DEF StreamInv
  <2> QED
    BY <1>4, <2>1, <2>2, <2>3, <2>4, <2>5, <2>6, <2>7, <2>8, <2>9, <2>10
    DEF StreamStep
<1> QED
  BY <1>1, <1>2, <1>3, <1>4 DEF Next, Step

\* A stream whose destination is closed without a cancellation has delivered
\* every item, whatever it had to wait for.
THEOREM NothingIsLost == Spec => []NothingLost
<1>1. StreamInv => NothingLost
  <2> SUFFICES ASSUME StreamInv, NEW s \in Streams,
                      forwarder[s] = "done", ~streamDone[s]
               PROVE  arrived[s] = NumItems
    BY DEF NothingLost
  <2>1. StreamAccounted(s) /\ arrived[s] \in Nat
    BY DEF StreamInv, StreamBase
  <2> QED
    BY <2>1 DEF StreamAccounted, InHand
<1> QED
  BY <1>1, StreamInvInit, StreamInvStep, PTL DEF Spec

\* The variables have their types; in particular a counter is never further
\* below zero than there are limiters to be served.
THEOREM PoolTypeCorrect == Spec => []PoolTypeOK
<1>1. StreamInv => PoolTypeOK
  <2> SUFFICES ASSUME StreamInv PROVE PoolTypeOK
    OBVIOUS
  <2>1. PoolBase /\ StreamBase
    BY DEF StreamInv, PoolInv
  <2>2. ASSUME NEW k \in Keys
        PROVE  tokensMap[k] \in (-Cardinality(StreamsOf(k)))..NumTokensPerKey
    <3>1. /\ tokensMap[k] \in Int
          /\ tokensMap[k] <= NumTokensPerKey
          /\ tokensMap[k] + Refused(limiter, k) >= 0
      BY DEF StreamInv, PoolInv, PoolBase, TokensAccounted
    <3>2. /\ Refused(limiter, k) \in Nat
          /\ Refused(limiter, k) <= Cardinality(StreamsOf(k))
          /\ Cardinality(StreamsOf(k)) \in Nat
      BY CountsAreBounded
    <3> QED
      BY <3>1, <3>2, PoolConstants DEF PoolConstants
  <2>3. arrived \in [Streams -> 0..NumItems]
    <3>1. ASSUME NEW s \in Streams PROVE arrived[s] \in 0..NumItems
      <4>1. /\ arrived[s] \in Nat
            /\ feeder[s] \in 0..NumItems
            /\ arrived[s] + InHand(s) = feeder[s]
            /\ InHand(s) \in Nat
        BY <2>1 DEF StreamInv, StreamBase, StreamAccounted, InHand
      <4> QED
        BY <4>1, PoolConstants DEF PoolConstants
    <3> QED
      BY <2>1, <3>1 DEF StreamBase
  <2> QED
    BY <2>1, <2>2, <2>3 DEF PoolTypeOK, PoolBase, StreamBase, Pcs
<1> QED
  BY <1>1, StreamInvInit, StreamInvStep, PTL DEF Spec

-----------------------------------------------------------------------------
(* The pinger of one target.                                               *)

\* Events the event-generating goroutine has received.
Round == IF evGen = "output" THEN numPktsSent + 1 ELSE numPktsSent

EvGenBusy == evGen \in {"output", "getUnAcked", "getAckedSeq", "control"}

PingerTyped ==
  /\ evGen \in {"select", "output", "getUnAcked", "getAckedSeq", "control", "done"}
  /\ numPktsSent \in Nat
  /\ sender \in {"select", "markReceived", "markSent", "send", "done"}
  /\ curSeq \in 0..MaxSeq
  /\ ctrlSignals \in Seq(Nat)
  /\ deliver \subseteq Seqs
  /\ sender = "markReceived" => curSeq \in Seqs

\* Packet Round + 1 is still to be requested, being requested, or sent.
Lockstep ==
  /\ DeliveredSeqs = 1..Round
  /\ Sent = 1..Round \/ Sent = 1..(Round + 1)
  /\ ctrlSignals # <<>> =>
       /\ ctrlSignals = <<Round + 1>> /\ Sent = 1..Round /\ sender # "markSent"
  /\ sender = "markSent" =>
       /\ curSeq = Round + 1 /\ Round + 1 \in Seqs
       /\ Sent = 1..Round /\ ctrlSignals = <<>>
  /\ EvGenBusy => Sent = 1..Round /\ ctrlSignals = <<>> /\ sender # "markSent"

\* A further packet is on its way to be marked sent.
Pending == ctrlSignals # <<>> \/ sender = "markSent" \/ evGen = "control"

WithinInv ==
  /\ Sent \subseteq 1..TotalPkts
  /\ alive /\ Pending => Round < TotalPkts
  /\ sender = "send" => curSeq \in Sent
  /\ sent \subseteq Sent

\* The tracker stops only when it is told to, and the event-generating
\* goroutine only then or after the last packet.
EndInv ==
  /\ ~alive => ctxDone \/ closeCh
  /\ closeCh => closed
  /\ evGen = "done" => ctxDone \/ closed \/ Round = TotalPkts

TrackerInv == VerdictInv /\ OnceInv /\ AckedSeqExact

-----------------------------------------------------------------------------
(* The tracker inside the pinger.                                          *)

\* Whatever the goroutines of the pinger do to the tracker, a caller may do.
LEMMA PingerUsesTracker ==
  ASSUME PingerTyped, Lockstep, [PingerNext]_allVars
  PROVE  [TrackerNext]_trackerVars
<1> USE DEF TrackerNext
<1>1. CASE EvGen
  BY <1>1 DEF EvGen, EvGenEnds, EvGenOutput, EvGenGetUnAcked, EvGenGetAckedSeq,
     EvGenControl, EvGenReceive
<1>2. CASE Sender
  <2>1. sender = "markSent" => curSeq \in Seqs BY DEF Lockstep
  <2>2. sender = "markReceived" => curSeq \in Seqs BY DEF PingerTyped
  <2> QED BY <1>2, <2>1, <2>2 DEF Sender, SenderEnds, SenderMarkReceived,
             SenderTransceiverError, SenderTakeControl, SenderMarkSent, SenderSend,
             SenderTakeReply
<1>3. CASE Loop \/ RunFails \/ UNCHANGED allVars
  BY <1>3 DEF Loop, RunFails, allVars
<1>4. CASE Tracker BY <1>4 DEF Tracker
<1>5. CASE CancelPing BY <1>5 DEF CancelPing
<1> QED BY <1>1, <1>2, <1>3, <1>4, <1>5 DEF PingerNext

LEMMA TrackerInvStep ==
  ASSUME TrackerInv, [TrackerNext]_trackerVars
  PROVE  TrackerInv'
BY VerdictInvStep, OnceInvStep, AckedSeqExactStep DEF TrackerInv

\* A step that neither marks a packet sent nor delivers an event.
Undisturbed ==
  /\ UNCHANGED <<Sent, DeliveredSeqs>>
  /\ (alive' => alive) /\ (closed => closed') /\ (ctxDone => ctxDone')
  /\ ~alive' => ~alive \/ ctxDone \/ closeCh
  /\ (closeCh => closeCh') /\ (closeCh' => closeCh \/ closed)

LEMMA UntouchedTracker ==
  ASSUME UNCHANGED trackerVars
  PROVE  Undisturbed
BY DEF Undisturbed, trackerVars, Sent, DeliveredSeqs

LEMMA DisturbsLittle ==
  ASSUME TrackerTypeOK,
         \/ TrackerStep \/ ForgetAll \/ CancelCtx
         \/ \E s \in Seqs : MarkReceived(s)
  PROVE  Undisturbed
<1>T. alive \in BOOLEAN /\ closed \in BOOLEAN /\ ctxDone \in BOOLEAN /\ closeCh \in BOOLEAN
  BY DEF TrackerTypeOK
<1>1. CASE TrackerStep
  <2>1. /\ Sent' = Sent /\ DeliveredSeqs' = DeliveredSeqs
        /\ closed' = closed /\ ctxDone' = ctxDone
        /\ (alive' = alive) \/ (~alive' /\ (ctxDone \/ closeCh))
        /\ (closeCh' = closeCh) \/ closed
    BY <1>1, TrackerStepKeeps
  <2>2. CASE CloseCloseCh BY <1>T, <2>1, <2>2 DEF CloseCloseCh, Undisturbed
  <2>3. CASE ~CloseCloseCh
    <3>1. closeCh' = closeCh
      BY <1>1, <2>3 DEF TrackerStep, OwnerExit, HandleTimeout, EmitTimeout,
         HandleTimeoutLate, CleanupEntry, StartWaiter, TimerFires, SendEvent
    <3> QED BY <1>T, <2>1, <3>1 DEF Undisturbed
  <2> QED BY <2>2, <2>3
<1>2. CASE ForgetAll
  BY <1>2, <1>T DEF ForgetAll, Undisturbed, Sent, DeliveredSeqs
<1>3. CASE CancelCtx
  BY <1>3, <1>T DEF CancelCtx, Undisturbed, Sent, DeliveredSeqs
<1>4. CASE \E s \in Seqs : MarkReceived(s)
  BY <1>4, <1>T, MarkReceivedKeeps DEF Undisturbed
<1> QED BY <1>1, <1>2, <1>3, <1>4

\* After an event all packets that were sent have a verdict: GetUnAcked
\* returns 0, and GetAckedSeq their number.
LEMMA CountersAfterEvent ==
  ASSUME TrackerInv, PingerTyped, Lockstep, EvGenBusy
  PROVE  GetUnAcked = 0 /\ (alive => GetAckedSeq = Round)
<1>T. TrackerTypeOK /\ \A s \in Seqs : PacketInv(s)
  BY DEF TrackerInv, VerdictInv
<1>1. Sent = 1..Round /\ DeliveredSeqs = 1..Round BY DEF Lockstep
<1>2. Judged = 1..Round BY <1>1, DeliveredAreSent DEF TrackerInv
<1>3. UnAckedSeqs = {}
  <2> SUFFICES ASSUME NEW s \in Seqs, store[s] = 0 PROVE FALSE BY DEF UnAckedSeqs
  <2>1. s \in Sent
    <3>1. store[s] # Absent BY DEF Absent
    <3>2. waiter[s] = "none" => store[s] = Absent BY <1>T DEF PacketInv
    <3> QED BY <3>1, <3>2 DEF Sent
  <2>2. s \in Judged BY <2>1, <1>1, <1>2
  <2>3. s \in emitting BY <1>T, <2>1, <2>2 DEF PacketInv, Sent, UnAckedSeqs
  <2>4. PICK k \in 0..MaxReplies : delivered[<<s, k>>] > 0
    BY <2>1, <1>1 DEF DeliveredSeqs
  <2>5. <<s, k>> \in Event /\ TimeoutEvent(s) = <<s, 0>> BY DEF Event, TimeoutEvent
  <2>6. InFlight(TimeoutEvent(s)) BY <2>3 DEF InFlight
  <2>7. Generated(TimeoutEvent(s)) BY <2>6 DEF Generated
  <2>8. k = 0
    <3>1. Generated(<<s, k>>) BY <2>4 DEF Generated
    <3>2. \A j \in 1..MaxReplies : ~Generated(<<s, j>>) BY <1>T, <2>7 DEF PacketInv
    <3> QED BY <3>1, <3>2, TrackerConstants
  <2>9. OnePlace(<<s, k>>) BY <2>5 DEF TrackerInv, OnceInv
  <2> QED BY <2>4, <2>5, <2>6, <2>8, <2>9 DEF OnePlace
<1>4. GetUnAcked = 0 BY <1>3, FS_EmptySet DEF GetUnAcked
<1>5. Round \in Nat BY DEF PingerTyped, Round
<1>6. Cardinality(Judged) = Round BY <1>2, <1>5, FS_Interval
<1> QED BY <1>4, <1>6 DEF GetAckedSeq, TrackerInv, AckedSeqExact

-----------------------------------------------------------------------------
(* The inductive step.                                                     *)

LEMMA PingerTypedStep ==
  ASSUME PingerTyped, Lockstep, [PingerNext]_allVars
  PROVE  PingerTyped'
<1> USE SimplePingerConstants DEF PingerTyped
<1>1. CASE EvGen
  <2>1. CASE EvGenEnds \/ EvGenOutput
    <3>1. UNCHANGED <<ctrlSignals, sender, curSeq, deliver>>
      BY <2>1 DEF EvGenEnds, EvGenOutput, senderVars, ioVars
    <3>2. evGen' \in {"done", "getUnAcked"} /\ numPktsSent' \in Nat
      BY <2>1 DEF EvGenEnds, EvGenReturns, EvGenOutput
    <3> QED BY <3>1, <3>2
  <2>2. CASE EvGenGetUnAcked \/ EvGenGetAckedSeq
    BY <2>2 DEF EvGenGetUnAcked, EvGenGetAckedSeq, EvGenReturns, senderVars, ioVars
  <2>3. CASE EvGenControl BY <2>3 DEF EvGenControl, senderVars, ioVars
  <2>4. ASSUME NEW e \in Event, EvGenReceive(e) PROVE PingerTyped'
    BY <2>4 DEF EvGenReceive, senderVars, ioVars
  <2> QED BY <1>1, <2>1, <2>2, <2>3, <2>4 DEF EvGen
<1>2. CASE Sender
  <2>1. CASE SenderEnds \/ SenderMarkReceived \/ SenderTransceiverError
               \/ SenderMarkSent
    BY <2>1 DEF SenderEnds, SenderMarkReceived, SenderTransceiverError,
       SenderMarkSent, SenderGoes, evGenVars, ioVars, IOTakeError
  <2>2. CASE SenderTakeControl
    <3>1. Head(ctrlSignals) = Round + 1 /\ Round + 1 \in 0..MaxSeq
      BY <2>2 DEF SenderTakeControl, Lockstep, Round
    <3> QED BY <2>2, <3>1 DEF SenderTakeControl, SenderGoes, evGenVars, ioVars
  <2>3. CASE SenderSend
    BY <2>3 DEF SenderSend, SenderGoes, evGenVars, IOAccept, IOFails
  <2>4. ASSUME NEW s \in Seqs, SenderTakeReply(s) PROVE PingerTyped'
    BY <2>4 DEF SenderTakeReply, SenderGoes, evGenVars, IOHandOver
  <2> QED BY <1>2, <2>1, <2>2, <2>3, <2>4 DEF Sender
<1>3. CASE Loop
  <2>1. deliver' \subseteq Seqs
    BY <1>3 DEF Loop, IOStop, IOReadError, IOFails, IORead
  <2> QED BY <1>3, <2>1 DEF Loop, pingerVars
<1>4. CASE Tracker \/ CancelPing \/ RunFails \/ UNCHANGED allVars
  BY <1>4 DEF Tracker, CancelPing, RunFails, allVars, pingerVars, ioVars, evGenVars,
     senderVars
<1> QED BY <1>1, <1>2, <1>3, <1>4 DEF PingerNext

\* Steps after which the counters and signals of the pinger are what they were.
LEMMA QuietPingerStep ==
  ASSUME PingerTyped, Lockstep, WithinInv, EndInv, Undisturbed,
         UNCHANGED <<Round, ctrlSignals, sent>>,
         EvGenBusy' => EvGenBusy,
         evGen' = "control" => evGen = "control",
         evGen' = "done" => evGen = "done",
         sender' = "markSent" => sender = "markSent" /\ UNCHANGED curSeq,
         sender' = "send" => sender = "send" /\ UNCHANGED curSeq
  PROVE  Lockstep' /\ WithinInv' /\ EndInv'
<1>1. Lockstep' BY DEF Lockstep, Undisturbed
<1>2. WithinInv' BY DEF WithinInv, Undisturbed, Pending
<1>3. EndInv' BY DEF EndInv, Undisturbed
<1> QED BY <1>1, <1>2, <1>3

LEMMA EvGenStep ==
  ASSUME TrackerInv, MaxReplies = 1, PingerTyped, Lockstep, WithinInv, EndInv, EvGen
  PROVE  Lockstep' /\ WithinInv' /\ EndInv'
<1>N. Round \in Nat /\ numPktsSent \in Nat /\ TotalPkts \in Nat \ {0}
  BY SimplePingerConstants DEF PingerTyped, Round
<1>U. UNCHANGED trackerVars => Undisturbed BY UntouchedTracker
<1>1. CASE EvGenEnds
  <2>1. Undisturbed /\ evGen = "select" /\ evGen' = "done"
    BY <1>1, <1>U DEF EvGenEnds, EvGenReturns
  <2>2. UNCHANGED <<numPktsSent, ctrlSignals, sender, curSeq, sent>>
    BY <1>1 DEF EvGenEnds, senderVars
  <2>3. Round' = Round BY <2>1, <2>2 DEF Round
  <2>4. Lockstep' BY <2>1, <2>2, <2>3 DEF Lockstep, Undisturbed, EvGenBusy
  <2>5. WithinInv' BY <2>1, <2>2, <2>3 DEF WithinInv, Undisturbed, Pending
  <2>6. ctxDone' \/ closed'
    BY <1>1, <2>1 DEF EvGenEnds, EndInv, Undisturbed
  <2>7. EndInv' BY <2>1, <2>6 DEF EndInv, Undisturbed
  <2> QED BY <2>4, <2>5, <2>7
<1>2. ASSUME NEW e \in Event, EvGenReceive(e) PROVE Lockstep' /\ WithinInv' /\ EndInv'
  <2>1. /\ e[1] \in Sent \ DeliveredSeqs /\ DeliveredSeqs' = DeliveredSeqs \cup {e[1]}
        /\ UNCHANGED <<Sent, alive, closed, closeCh, ctxDone>>
    BY <1>2, ReceiveDelivers DEF EvGenReceive, TrackerInv
  <2>2. evGen = "select" /\ evGen' = "output"
        /\ UNCHANGED <<numPktsSent, ctrlSignals, sender, curSeq, sent>>
    BY <1>2 DEF EvGenReceive, senderVars
  <2>3. Round' = Round + 1 BY <2>2 DEF Round
  <2>4. Sent = 1..(Round + 1) /\ e[1] = Round + 1 /\ Sent # 1..Round
    BY <2>1, <1>N DEF Lockstep
  <2>5. ctrlSignals = <<>> /\ sender # "markSent" BY <2>4 DEF Lockstep
  <2>6. DeliveredSeqs' = 1..Round' /\ Sent' = 1..Round'
    BY <2>1, <2>3, <2>4, <1>N DEF Lockstep
  <2>7. Lockstep' BY <2>2, <2>5, <2>6 DEF Lockstep
  <2>8. WithinInv' BY <2>1, <2>2, <2>5 DEF WithinInv, Pending
  <2>9. EndInv' BY <2>1, <2>2 DEF EndInv
  <2> QED BY <2>7, <2>8, <2>9
<1>3. CASE EvGenOutput
  <2>1. Undisturbed /\ evGen = "output" /\ evGen' = "getUnAcked"
        /\ numPktsSent' = numPktsSent + 1
        /\ UNCHANGED <<ctrlSignals, sender, curSeq, sent>>
    BY <1>3, <1>U DEF EvGenOutput, senderVars
  <2>2. Round' = Round BY <2>1 DEF Round
  <2> QED BY <2>1, <2>2, QuietPingerStep DEF EvGenBusy
<1>4. CASE EvGenGetUnAcked
  <2>0. EvGenBusy BY <1>4 DEF EvGenGetUnAcked, EvGenBusy
  <2>1. GetUnAcked = 0 BY <2>0, CountersAfterEvent
  <2>2. Undisturbed /\ evGen = "getUnAcked" /\ evGen' = "getAckedSeq"
        /\ UNCHANGED <<numPktsSent, ctrlSignals, sender, curSeq, sent>>
    BY <1>4, <2>1, <1>U DEF EvGenGetUnAcked, senderVars
  <2>3. Round' = Round BY <2>2 DEF Round
  <2> QED BY <2>2, <2>3, QuietPingerStep DEF EvGenBusy
<1>5. CASE EvGenGetAckedSeq
  <2>0. EvGenBusy BY <1>5 DEF EvGenGetAckedSeq, EvGenBusy
  <2>1. alive => GetAckedSeq = Round BY <2>0, CountersAfterEvent
  <2>2. Undisturbed /\ evGen = "getAckedSeq"
        /\ UNCHANGED <<numPktsSent, ctrlSignals, sender, curSeq, sent>>
    BY <1>5, <1>U DEF EvGenGetAckedSeq, senderVars
  <2>3. Sent = 1..Round /\ ctrlSignals = <<>> /\ sender # "markSent"
    BY <2>0 DEF Lockstep
  <2>4. CASE GetAckedSeq = TotalPkts /\ evGen' = "done"
    <3>1. Round = TotalPkts BY <2>1, <2>4, <1>N DEF GetAckedSeq
    <3>2. Round' = Round BY <2>2, <2>4 DEF Round
    <3>3. Lockstep' BY <2>2, <2>3, <2>4, <3>2 DEF Lockstep, Undisturbed, EvGenBusy
    <3>4. WithinInv' BY <2>2, <2>3, <2>4, <3>2 DEF WithinInv, Undisturbed, Pending
    <3>5. EndInv' BY <2>2, <3>1, <3>2 DEF EndInv, Undisturbed
    <3> QED BY <3>3, <3>4, <3>5
  <2>5. CASE GetAckedSeq # TotalPkts /\ evGen' = "control"
    <3>1. alive => Round < TotalPkts
      <4>1. Round > 0 => Round \in Sent BY <2>3, <1>N
      <4>2. Round > 0 => Round \in 1..TotalPkts BY <4>1 DEF WithinInv
      <4>3. alive => Round # TotalPkts BY <2>1, <2>5
      <4> QED BY <4>2, <4>3, <1>N
    <3>2. Round' = Round BY <2>2, <2>5 DEF Round
    <3>3. Lockstep' BY <2>2, <2>3, <2>5, <3>2 DEF Lockstep, Undisturbed, EvGenBusy
    <3>4. WithinInv' BY <2>2, <2>5, <3>1, <3>2 DEF WithinInv, Undisturbed, Pending
    <3>5. EndInv' BY <2>2, <2>5, <3>2 DEF EndInv, Undisturbed
    <3> QED BY <3>3, <3>4, <3>5
  <2> QED BY <1>5, <2>4, <2>5 DEF EvGenGetAckedSeq, EvGenReturns
<1>6. CASE EvGenControl
  <2>1. Undisturbed /\ evGen = "control" /\ evGen' = "select"
        /\ UNCHANGED <<numPktsSent, sender, curSeq, sent>>
    BY <1>6, <1>U DEF EvGenControl, senderVars
  <2>2. Sent = 1..Round /\ ctrlSignals = <<>> /\ sender # "markSent"
    BY <2>1 DEF Lockstep, EvGenBusy
  <2>3. Round' = Round /\ Round = numPktsSent BY <2>1 DEF Round
  <2>4. ctrlSignals' = <<Round + 1>> BY <1>6, <2>2, <2>3, <1>N DEF EvGenControl
  <2>5. Lockstep' BY <2>1, <2>2, <2>3, <2>4 DEF Lockstep, Undisturbed, EvGenBusy
  <2>6. WithinInv' BY <2>1, <2>3 DEF WithinInv, Undisturbed, Pending
  <2>7. EndInv' BY <2>1, <2>3 DEF EndInv, Undisturbed
  <2> QED BY <2>5, <2>6, <2>7
<1> QED BY <1>1, <1>2, <1>3, <1>4, <1>5, <1>6 DEF EvGen

LEMMA SenderStep ==
  ASSUME TrackerInv, PingerTyped, Lockstep, WithinInv, EndInv, Sender
  PROVE  Lockstep' /\ WithinInv' /\ EndInv'
<1>N. Round \in Nat /\ numPktsSent \in Nat BY DEF PingerTyped, Round
<1>T. TrackerTypeOK BY DEF TrackerInv, VerdictInv
<1>U. UNCHANGED trackerVars => Undisturbed BY UntouchedTracker
<1>E. evGen' = evGen /\ numPktsSent' = numPktsSent /\ Round' = Round
  BY DEF Sender, SenderEnds, SenderMarkReceived, SenderTransceiverError,
     SenderTakeControl, SenderMarkSent, SenderSend, SenderTakeReply, evGenVars, Round
<1>B. EvGenBusy' = EvGenBusy BY <1>E DEF EvGenBusy
<1>1. CASE SenderEnds
  <2>1. Undisturbed /\ sender' = "done" /\ UNCHANGED <<ctrlSignals, sent>>
    BY <1>1, <1>U DEF SenderEnds, SenderGoes
  <2> QED BY <2>1, <1>E, <1>B, QuietPingerStep
<1>2. ASSUME NEW s \in Seqs, SenderTakeReply(s) PROVE Lockstep' /\ WithinInv' /\ EndInv'
  <2>1. Undisturbed /\ sender' = "markReceived" /\ UNCHANGED <<ctrlSignals, sent>>
    BY <1>2, <1>U DEF SenderTakeReply, SenderGoes
  <2> QED BY <2>1, <1>E, <1>B, QuietPingerStep
<1>3. CASE SenderMarkReceived
  <2>1. sender' \in {"select", "done"} /\ UNCHANGED <<ctrlSignals, sent>>
    BY <1>3 DEF SenderMarkReceived, SenderGoes
  <2>2. curSeq \in Seqs BY <1>3 DEF SenderMarkReceived, PingerTyped
  <2>3. Undisturbed
    BY <1>3, <2>2, <1>T, <1>U, DisturbsLittle DEF SenderMarkReceived
  <2> QED BY <2>1, <2>3, <1>E, <1>B, QuietPingerStep
<1>4. CASE SenderTransceiverError
  <2>1. sender' = "done" /\ UNCHANGED <<ctrlSignals, sent>>
    BY <1>4 DEF SenderTransceiverError, SenderGoes
  <2>2. Undisturbed
    BY <1>4, <1>T, <1>U, DisturbsLittle DEF SenderTransceiverError
  <2> QED BY <2>1, <2>2, <1>E, <1>B, QuietPingerStep
<1>5. CASE SenderTakeControl
  <2>1. Undisturbed /\ ctrlSignals # <<>> /\ sender' = "markSent" /\ sent' = sent
        /\ curSeq' = Head(ctrlSignals) /\ ctrlSignals' = Tail(ctrlSignals)
    BY <1>5, <1>U DEF SenderTakeControl, SenderGoes
  <2>2. ctrlSignals = <<Round + 1>> /\ Round + 1 \in Seqs /\ Sent = 1..Round
        /\ ~EvGenBusy
    BY <1>5, <2>1, <1>N, SimplePingerConstants DEF Lockstep, SenderTakeControl
  <2>3. curSeq' = Round + 1 /\ ctrlSignals' = <<>> BY <2>1, <2>2
  <2>4. Lockstep' BY <2>1, <2>2, <2>3, <1>E, <1>B DEF Lockstep, Undisturbed
  <2>5. WithinInv' BY <2>1, <1>E DEF WithinInv, Undisturbed, Pending
  <2>6. EndInv' BY <2>1, <1>E DEF EndInv, Undisturbed
  <2> QED BY <2>4, <2>5, <2>6
<1>6. CASE SenderMarkSent
  <2>1. sender = "markSent" /\ UNCHANGED <<ctrlSignals, curSeq, sent>>
    BY <1>6 DEF SenderMarkSent
  <2>2. curSeq = Round + 1 /\ curSeq \in Seqs /\ Sent = 1..Round /\ ctrlSignals = <<>>
        /\ ~EvGenBusy
    BY <2>1 DEF Lockstep
  <2>3. CASE MarkSent(curSeq) /\ sender' = "send"
    <3>1. Sent' = Sent \cup {curSeq} /\ alive
          /\ UNCHANGED <<DeliveredSeqs, alive, closed, closeCh, ctxDone>>
      BY <2>2, <2>3, <1>T, MarkSentSends
    <3>2. Sent' = 1..(Round + 1) BY <2>2, <3>1, <1>N
    <3>3. Round < TotalPkts BY <2>1, <3>1 DEF WithinInv, Pending
    <3>4. Lockstep' BY <2>1, <2>2, <2>3, <3>1, <3>2, <1>E, <1>B DEF Lockstep
    <3>5. Sent' \subseteq 1..TotalPkts BY <3>2, <3>3, <1>N, SimplePingerConstants
    <3>6. sent' \subseteq Sent' /\ curSeq' \in Sent' BY <2>1, <3>1 DEF WithinInv
    <3>7. ~Pending' BY <2>1, <2>2, <2>3, <1>E, <1>B DEF Pending, EvGenBusy
    <3>8. WithinInv' BY <3>5, <3>6, <3>7 DEF WithinInv
    <3>9. EndInv' BY <3>1, <1>E DEF EndInv
    <3> QED BY <3>4, <3>8, <3>9
  <2>4. CASE sender' = "done" /\ UNCHANGED trackerVars
    BY <2>1, <2>4, <1>U, <1>E, <1>B, QuietPingerStep
  <2> QED BY <1>6, <2>3, <2>4 DEF SenderMarkSent, SenderGoes
<1>7. CASE SenderSend
  <2>1. Undisturbed /\ sender = "send" /\ sender' = "select"
        /\ sent' = sent \cup {curSeq} /\ UNCHANGED <<ctrlSignals, curSeq>>
    BY <1>7, <1>U DEF SenderSend, SenderGoes
  <2>2. Lockstep' BY <2>1, <1>E, <1>B DEF Lockstep, Undisturbed
  <2>3. sent' \subseteq Sent BY <2>1 DEF WithinInv
  <2>4. WithinInv' BY <2>1, <2>3, <1>E DEF WithinInv, Undisturbed, Pending
  <2>5. EndInv' BY <2>1, <1>E DEF EndInv, Undisturbed
  <2> QED BY <2>2, <2>4, <2>5
<1> QED BY <1>1, <1>2, <1>3, <1>4, <1>5, <1>6, <1>7 DEF Sender

PingerInv == TrackerInv /\ PingerTyped /\ Lockstep /\ WithinInv /\ EndInv

LEMMA PingerInvInit == PingerInit => PingerInv
<1> SUFFICES ASSUME PingerInit PROVE PingerInv
  OBVIOUS
<1>1. TrackerInit BY DEF PingerInit
<1>2. TrackerInv
  BY <1>1, VerdictInvInit, OnceInvInit, AckedSeqExactInit DEF TrackerInv
<1>3. Round = 0 /\ numPktsSent = 0 /\ ~EvGenBusy
  BY DEF PingerInit, Round, EvGenBusy
<1>4. Sent = {} /\ DeliveredSeqs = {}
  <2>1. Sent = {} BY <1>1 DEF TrackerInit, Sent
  <2> QED BY <2>1, <1>2, DeliveredAreSent DEF TrackerInv
<1>5. 1 \in Seqs /\ TotalPkts > 0 /\ MaxSeq \in Nat BY SimplePingerConstants
<1>6. PingerTyped BY <1>5 DEF PingerInit, IOInit, PingerTyped
<1>7. Lockstep
  <2>1. ctrlSignals = <<1>> /\ sender = "select" BY DEF PingerInit
  <2>2. 1..Round = {} BY <1>3
  <2> QED BY <1>3, <1>4, <1>5, <2>1, <2>2 DEF Lockstep
<1>8. WithinInv
  <2>1. sent = {} /\ sender = "select" BY DEF PingerInit
  <2> QED BY <1>3, <1>4, <1>5, <2>1 DEF WithinInv
<1>9. EndInv
  <2>1. alive /\ ~closeCh BY <1>1 DEF TrackerInit
  <2>2. evGen = "select" BY DEF PingerInit
  <2> QED BY <2>1, <2>2 DEF EndInv
<1> QED BY <1>2, <1>6, <1>7, <1>8, <1>9 DEF PingerInv

LEMMA PingerInvStep ==
  ASSUME MaxReplies = 1, PingerInv, [PingerNext]_allVars
  PROVE  PingerInv'
<1>1. TrackerInv /\ PingerTyped /\ Lockstep /\ WithinInv /\ EndInv BY DEF PingerInv
<1>2. TrackerInv' BY <1>1, PingerUsesTracker, TrackerInvStep
<1>3. PingerTyped' BY <1>1, PingerTypedStep
<1>4. Lockstep' /\ WithinInv' /\ EndInv'
  <2>1. CASE EvGen BY <1>1, <2>1, EvGenStep
  <2>2. CASE Sender BY <1>1, <2>2, SenderStep
  <2>3. CASE Loop \/ Tracker \/ CancelPing \/ RunFails \/ UNCHANGED allVars
    <3>1. UNCHANGED <<evGen, numPktsSent, ctrlSignals, sender, curSeq, sent>>
      BY <2>3 DEF Loop, Tracker, CancelPing, RunFails, allVars, pingerVars, evGenVars,
         senderVars
    <3>2. Undisturbed
      <4>1. TrackerTypeOK BY <1>1 DEF TrackerInv, VerdictInv
      <4> QED BY <2>3, <4>1, UntouchedTracker, DisturbsLittle
              DEF Loop, Tracker, CancelPing, RunFails, allVars
    <3>3. Round' = Round /\ EvGenBusy' = EvGenBusy BY <3>1 DEF Round, EvGenBusy
    <3> QED BY <1>1, <3>1, <3>2, <3>3, QuietPingerStep
  <2> QED BY <2>1, <2>2, <2>3 DEF PingerNext
<1> QED BY <1>2, <1>3, <1>4 DEF PingerInv

\* "Doing so cause it send out 3 icmp echo request packets": with at most one
\* reply to a packet, no packet beyond the requested number is sent, whatever
\* order replies, timeouts, errors and a cancellation come in.
THEOREM PingerStaysWithinCount ==
  ASSUME MaxReplies = 1
  PROVE  PingerSpec => []WithinCount
<1>1. PingerInv => WithinCount
  <2> SUFFICES ASSUME PingerInv PROVE WithinCount
    OBVIOUS
  <2>1. TotalPkts \in Nat BY SimplePingerConstants
  <2>2. sent \subseteq 1..TotalPkts BY DEF PingerInv, WithinInv
  <2>3. IsFiniteSet(1..TotalPkts) /\ Cardinality(1..TotalPkts) = TotalPkts
    BY <2>1, FS_Interval
  <2> QED BY <2>2, <2>3, FS_Subset DEF WithinCount
<1>2. PingerInv /\ [PingerNext]_allVars => PingerInv' BY PingerInvStep
<1> QED BY <1>1, <1>2, PingerInvInit, PTL DEF PingerSpec

\* "no more icmp events will be generated": with at most one reply to a
\* packet, the event-generating goroutine returns by itself only after an event
\* of every packet asked for has gone out.
THEOREM PingerCompleteAtEnd ==
  ASSUME MaxReplies = 1
  PROVE  PingerSpec => []CompleteAtEnd
<1>1. PingerInv => CompleteAtEnd
  BY SimplePingerConstants DEF PingerInv, Lockstep, EndInv, CompleteAtEnd, DeliveredSeqs
<1>2. PingerInv /\ [PingerNext]_allVars => PingerInv' BY PingerInvStep
<1> QED BY <1>1, <1>2, PingerInvInit, PTL DEF PingerSpec
=============================================================================
