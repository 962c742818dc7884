------------------------- MODULE ConsoleDataProofs --------------------------
(***************************************************************************)
(* TLAPS proofs about what the console computes from a stream, for any     *)
(* stream: the lines, events and words of the transform streams            *)
(* (LineStream), the ping table with its map (PingTable), the statistics,  *)
(* the table and the map of a traceroute (TraceStats); and about the       *)
(* lookup of what is typed (AddressClassify).                              *)
(*                                                                         *)
(* What a recursive function computes is shown by least elements: the      *)
(* lengths at which a claim fails are a set of natural numbers, and if it  *)
(* is not empty its least element contradicts the step.                    *)
(*                                                                         *)
(* The argument for the streams: Cut gives the lines of a text, and for a  *)
(* text cut in two what it gives for the first part, followed by what it   *)
(* gives for the rest it kept with the second part behind it.  For the     *)
(* table: the cell of a pair has the samples of the pair, newest first.    *)
(* For the traceroute: each event changes the statistics of its peer to    *)
(* those of its positions and one more, PeerFits, and an event of the last *)
(* hop makes the positions of the hops behind it the empty set, CountedIn; *)
(* table and map then list what is there, and the numbers of their lines   *)
(* are those of sets of pairs of a hop and a peer.                         *)
(* For the lookup: two addresses give the same masked value exactly if     *)
(* they have the same bits, so the way of an address leads to the node of  *)
(* a route exactly if they agree in the bits read down to it.              *)
(***************************************************************************)
EXTENDS LineStream, PingTable, TraceStats, AddressClassify, FunctionTheorems,
        SequenceTheorems, WellFoundedInduction, FiniteSetTheorems, TLAPS

----------------------------------------------------------------------------
(* Sequences.  A set of natural numbers has a least element; with it, what *)
(* Only and FlattenSeq do is shown along a sequence, element by element.   *)

Before == {p \in Nat \X Nat : p[1] < p[2]}

\* The order of the natural numbers is well-founded.
LEMMA BeforeIsWellFounded == IsWellFoundedOn(Before, Nat)
<1>1. OpToRel(<, Nat) = Before
  BY DEF OpToRel, Before
<1> QED BY <1>1, NatLessThanWellFounded, Zenon

\* Every set of natural numbers that is not empty has a least element: what the
\* proofs by induction below rest on.
LEMMA LeastElement ==
  ASSUME NEW T, T \subseteq Nat, T # {}
  PROVE  \E m \in T : \A n \in T : m <= n
<1>1. PICK m \in T : \A n \in T : ~(<<n, m>> \in Before)
  BY BeforeIsWellFounded, WFMin
<1>2. ASSUME NEW n \in T PROVE m <= n
  <2>1. n \in Nat /\ m \in Nat OBVIOUS
  <2>2. <<n, m>> \in Nat \X Nat BY <2>1
  <2>3. ~(n < m) BY <1>1, <2>2 DEF Before
  <2> QED BY <2>1, <2>3
<1> QED BY <1>2

\* Induction over the natural numbers, for a set.
LEMMA Induction ==
  ASSUME NEW T, 0 \in T, \A n \in Nat : n \in T => n + 1 \in T
  PROVE  \A n \in Nat : n \in T
<1>1. SUFFICES ASSUME Nat \ T # {} PROVE FALSE
  OBVIOUS
<1>2. PICK m \in Nat \ T : \A n \in Nat \ T : m <= n
  BY <1>1, LeastElement
<1>3. m # 0 /\ m - 1 \in Nat
  BY <1>2
<1>4. m - 1 \in T
  BY <1>2, <1>3
<1> QED BY <1>2, <1>3, <1>4

\* Induction over sequences.
LEMMA SeqInduction ==
  ASSUME NEW X, NEW T, <<>> \in T,
         \A s \in Seq(X), x \in X : s \in T => Append(s, x) \in T
  PROVE  \A s \in Seq(X) : s \in T
<1> DEFINE P == {n \in Nat : \A s \in Seq(X) : Len(s) = n => s \in T}
<1>1. 0 \in P
  <2>1. ASSUME NEW s \in Seq(X), Len(s) = 0 PROVE s \in T
    <3>1. s = <<>> BY <2>1, EmptySeq
    <3> QED BY <3>1
  <2> QED BY <2>1
<1>2. ASSUME NEW n \in Nat, n \in P PROVE n + 1 \in P
  <2>1. ASSUME NEW s \in Seq(X), Len(s) = n + 1 PROVE s \in T
    <3> DEFINE front == SubSeq(s, 1, n)
    <3>1. front \in Seq(X) /\ Len(front) = n
      BY <2>1
    <3>2. s[n + 1] \in X
      BY <2>1
    <3>3. s = Append(front, s[n + 1])
      BY <2>1, <3>1, <3>2
    <3>4. front \in T
      BY <1>2, <3>1
    <3> QED BY <3>1, <3>2, <3>3, <3>4
  <2> QED BY <2>1
<1> HIDE DEF P
<1>3. \A n \in Nat : n \in P
  BY <1>1, <1>2, Induction
<1> QED BY <1>3 DEF P

----------------------------------------------------------------------------
(* Only *)

KeptOf(s, S, n, f) ==
  f = [i \in 0..n |->
         IF i = 0 THEN <<>>
         ELSE IF s[i] \in S THEN Append(f[i - 1], s[i]) ELSE f[i - 1]]

\* Only computes its result along its sequence.
LEMMA KeptExists ==
  ASSUME NEW s, NEW S
  PROVE  \A n \in Nat : \E f : KeptOf(s, S, n, f)
<1> DEFINE T == {n \in Nat : \E f : KeptOf(s, S, n, f)}
<1>1. 0 \in T
  <2>1. KeptOf(s, S, 0, [i \in 0..0 |-> <<>>])
    BY DEF KeptOf
  <2> QED BY <2>1
<1>2. ASSUME NEW n \in Nat, n \in T PROVE n + 1 \in T
  <2>1. PICK f : KeptOf(s, S, n, f)
    BY <1>2
  <2> DEFINE last == IF s[n + 1] \in S THEN Append(f[n], s[n + 1]) ELSE f[n]
             g == [i \in 0..(n + 1) |-> IF i = n + 1 THEN last ELSE f[i]]
  <2>2. \A i \in 0..n : f[i] = IF i = 0 THEN <<>>
          ELSE IF s[i] \in S THEN Append(f[i - 1], s[i]) ELSE f[i - 1]
    BY <2>1 DEF KeptOf
  <2>3. ASSUME NEW i \in 0..(n + 1)
        PROVE  g[i] = IF i = 0 THEN <<>>
                 ELSE IF s[i] \in S THEN Append(g[i - 1], s[i]) ELSE g[i - 1]
    <3>1. CASE i = n + 1
      <4>1. g[i - 1] = f[n] /\ g[i] = last /\ i # 0
        BY <3>1
      <4> QED BY <4>1, <3>1
    <3>2. CASE i # n + 1
      <4>1. i \in 0..n /\ g[i] = f[i]
        BY <3>2
      <4>2. i # 0 => g[i - 1] = f[i - 1]
        BY <3>2
      <4> QED BY <4>1, <4>2, <2>2
    <3> QED BY <3>1, <3>2
  <2>4. KeptOf(s, S, n + 1, g)
    BY <2>3 DEF KeptOf
  <2> QED BY <2>4
<1> HIDE DEF T
<1>3. \A n \in Nat : n \in T
  BY <1>1, <1>2, Induction
<1> QED BY <1>3 DEF T

\* Only is the last of its partial results.
LEMMA OnlyIsKept ==
  ASSUME NEW X, NEW s \in Seq(X), NEW S
  PROVE  \E f : KeptOf(s, S, Len(s), f) /\ Only(s, S) = f[Len(s)]
<1> DEFINE f == CHOOSE g : KeptOf(s, S, Len(s), g)
<1>1. KeptOf(s, S, Len(s), f)
  BY KeptExists
<1>2. Only(s, S) = f[Len(s)]
  BY DEF Only, KeptOf
<1> QED BY <1>1, <1>2

\* Only, step by step.
LEMMA OnlyEmpty == ASSUME NEW S PROVE Only(<<>>, S) = <<>>
<1>1. <<>> \in Seq({}) OBVIOUS
<1>2. PICK f : KeptOf(<<>>, S, Len(<<>>), f) /\ Only(<<>>, S) = f[Len(<<>>)]
  BY <1>1, OnlyIsKept
<1> QED BY <1>2 DEF KeptOf

\* Only of a sequence with one more element.
LEMMA OnlyAppend ==
  ASSUME NEW X, NEW s \in Seq(X), NEW x \in X, NEW S
  PROVE  Only(Append(s, x), S) = IF x \in S THEN Append(Only(s, S), x) ELSE Only(s, S)
<1> DEFINE t == Append(s, x)
           n == Len(s)
<1>1. t \in Seq(X) /\ Len(t) = n + 1 /\ t[n + 1] = x /\ n \in Nat
  OBVIOUS
<1>2. \A i \in 1..n : t[i] = s[i]
  OBVIOUS
<1>3. PICK f : KeptOf(s, S, n, f) /\ Only(s, S) = f[n]
  BY OnlyIsKept
<1>4. PICK g : KeptOf(t, S, n + 1, g) /\ Only(t, S) = g[n + 1]
  BY <1>1, OnlyIsKept
<1> HIDE DEF t
<1>5. \A i \in 0..n : f[i] = IF i = 0 THEN <<>>
          ELSE IF s[i] \in S THEN Append(f[i - 1], s[i]) ELSE f[i - 1]
  BY <1>3 DEF KeptOf
<1>6. \A i \in 0..(n + 1) : g[i] = IF i = 0 THEN <<>>
          ELSE IF t[i] \in S THEN Append(g[i - 1], t[i]) ELSE g[i - 1]
  BY <1>4 DEF KeptOf
<1> DEFINE T == {i \in Nat : i <= n => f[i] = g[i]}
<1>7. 0 \in T
  BY <1>1, <1>5, <1>6
<1>8. ASSUME NEW i \in Nat, i \in T PROVE i + 1 \in T
  <2>1. SUFFICES ASSUME i + 1 <= n PROVE f[i + 1] = g[i + 1]
    OBVIOUS
  <2>2. f[i] = g[i] /\ i + 1 \in 0..n /\ i + 1 \in 0..(n + 1) /\ t[i + 1] = s[i + 1]
    BY <1>1, <1>2, <1>8, <2>1
  <2>3. f[i + 1] = IF s[i + 1] \in S THEN Append(f[i], s[i + 1]) ELSE f[i]
    BY <1>5, <2>2
  <2>4. g[i + 1] = IF t[i + 1] \in S THEN Append(g[i], t[i + 1]) ELSE g[i]
    BY <1>6, <2>2
  <2> QED BY <2>2, <2>3, <2>4
<1> HIDE DEF T
<1>9. n \in T
  BY <1>1, <1>7, <1>8, Induction
<1>10. f[n] = g[n]
  BY <1>1, <1>9 DEF T
<1>11. g[n + 1] = IF t[n + 1] \in S THEN Append(g[n], t[n + 1]) ELSE g[n]
  BY <1>1, <1>6
<1> QED BY <1>1, <1>3, <1>4, <1>10, <1>11 DEF t

\* What Only returns.
LEMMA OnlyType ==
  ASSUME NEW X, NEW S
  PROVE  \A s \in Seq(X) : Only(s, S) \in Seq(X \cap S) /\ Only(s, S) \in Seq(X)
<1> DEFINE T == {s \in Seq(X) : Only(s, S) \in Seq(X \cap S)}
<1>1. <<>> \in T
  <2>1. <<>> \in Seq(X) /\ <<>> \in Seq(X \cap S)
    OBVIOUS
  <2> QED BY <2>1, OnlyEmpty
<1>2. ASSUME NEW s \in Seq(X), NEW x \in X, s \in T PROVE Append(s, x) \in T
  <2>1. Only(Append(s, x), S) = IF x \in S THEN Append(Only(s, S), x) ELSE Only(s, S)
    BY OnlyAppend
  <2>2. Append(s, x) \in Seq(X) /\ Only(s, S) \in Seq(X \cap S)
    BY <1>2
  <2> QED BY <2>1, <2>2
<1> HIDE DEF T
<1>3. \A s \in Seq(X) : s \in T
  BY <1>1, <1>2, SeqInduction
<1>4. ASSUME NEW s \in Seq(X \cap S) PROVE s \in Seq(X)
  OBVIOUS
<1> QED BY <1>3, <1>4 DEF T

\* Only of a sequence of a set is one.
LEMMA OnlyInSeq ==
  ASSUME NEW X, NEW S, NEW s \in Seq(X)
  PROVE  Only(s, S) \in Seq(X)
BY OnlyType

\* Concatenation, step by step.
LEMMA CatAppend ==
  ASSUME NEW X, NEW s \in Seq(X), NEW t \in Seq(X), NEW x \in X
  PROVE  s \o Append(t, x) = Append(s \o t, x)
OBVIOUS

\* Only of a concatenation; Only of Only.
LEMMA OnlyCat ==
  ASSUME NEW X, NEW S, NEW s \in Seq(X)
  PROVE  \A t \in Seq(X) : Only(s \o t, S) = Only(s, S) \o Only(t, S)
<1> DEFINE T == {t \in Seq(X) : Only(s \o t, S) = Only(s, S) \o Only(t, S)}
<1>0. \A t \in Seq(X) : Only(t, S) \in Seq(X \cap S)
  BY OnlyType
<1>1. <<>> \in T
  <2>1. s \o <<>> = s /\ Only(s, S) \o <<>> = Only(s, S) /\ <<>> \in Seq(X)
    BY <1>0
  <2> QED BY <2>1, OnlyEmpty
<1>2. ASSUME NEW t \in Seq(X), NEW x \in X, t \in T PROVE Append(t, x) \in T
  <2>1. Only(Append(t, x), S) = IF x \in S THEN Append(Only(t, S), x) ELSE Only(t, S)
    BY OnlyAppend
  <2>2. s \o Append(t, x) = Append(s \o t, x) /\ s \o t \in Seq(X)
    BY CatAppend
  <2>3. Only(Append(s \o t, x), S)
          = IF x \in S THEN Append(Only(s \o t, S), x) ELSE Only(s \o t, S)
    BY <2>2, OnlyAppend
  <2>4. Only(s \o t, S) = Only(s, S) \o Only(t, S)
    BY <1>2
  <2>5. Only(s, S) \o Append(Only(t, S), x) = Append(Only(s, S) \o Only(t, S), x)
    BY OnlyInSeq, CatAppend
  <2>6. Only(s \o Append(t, x), S) = Only(s, S) \o Only(Append(t, x), S)
    BY <2>1, <2>2, <2>3, <2>4, <2>5
  <2>7. Append(t, x) \in Seq(X)
    OBVIOUS
  <2> QED BY <2>6, <2>7
<1> HIDE DEF T
<1>3. \A t \in Seq(X) : t \in T
  BY <1>1, <1>2, SeqInduction
<1> QED BY <1>3 DEF T

\* Keeping fewer elements of what was kept.
LEMMA OnlyTwice ==
  ASSUME NEW X, NEW S, NEW U, X \cap U \subseteq S
  PROVE  \A s \in Seq(X) : Only(Only(s, S), U) = Only(s, U)
<1> DEFINE T == {s \in Seq(X) : Only(Only(s, S), U) = Only(s, U)}
<1>1. <<>> \in T
  BY OnlyEmpty
<1>2. ASSUME NEW s \in Seq(X), NEW x \in X, s \in T PROVE Append(s, x) \in T
  <2>1. Only(Append(s, x), S) = IF x \in S THEN Append(Only(s, S), x) ELSE Only(s, S)
    BY OnlyAppend
  <2>2. Only(Append(s, x), U) = IF x \in U THEN Append(Only(s, U), x) ELSE Only(s, U)
    BY OnlyAppend
  <2>3. Only(s, S) \in Seq(X)
    BY OnlyType
  <2>4. Only(Append(Only(s, S), x), U)
          = IF x \in U THEN Append(Only(Only(s, S), U), x) ELSE Only(Only(s, S), U)
    BY <2>3, OnlyAppend
  <2>5. Only(Only(s, S), U) = Only(s, U) /\ Append(s, x) \in Seq(X)
    BY <1>2
  <2> QED BY <2>1, <2>2, <2>4, <2>5
<1> HIDE DEF T
<1>3. \A s \in Seq(X) : s \in T
  BY <1>1, <1>2, SeqInduction
<1> QED BY <1>3 DEF T

\* What is kept depends on the elements that are there.
LEMMA OnlySame ==
  ASSUME NEW X, NEW S, NEW U, X \cap U = X \cap S
  PROVE  \A s \in Seq(X) : Only(s, S) = Only(s, U)
<1> DEFINE T == {s \in Seq(X) : Only(s, S) = Only(s, U)}
<1>1. <<>> \in T
  BY OnlyEmpty
<1>2. ASSUME NEW s \in Seq(X), NEW x \in X, s \in T PROVE Append(s, x) \in T
  <2>1. Only(Append(s, x), S) = IF x \in S THEN Append(Only(s, S), x) ELSE Only(s, S)
    BY OnlyAppend
  <2>2. Only(Append(s, x), U) = IF x \in U THEN Append(Only(s, U), x) ELSE Only(s, U)
    BY OnlyAppend
  <2>5. Only(s, S) = Only(s, U) /\ Append(s, x) \in Seq(X) /\ (x \in S <=> x \in U)
    BY <1>2
  <2> QED BY <2>1, <2>2, <2>5
<1> HIDE DEF T
<1>3. \A s \in Seq(X) : s \in T
  BY <1>1, <1>2, SeqInduction
<1> QED BY <1>3 DEF T

\* Which elements are kept.
LEMMA OnlyRange ==
  ASSUME NEW X, NEW S
  PROVE  \A s \in Seq(X) : ToSet(Only(s, S)) = ToSet(s) \cap S
<1> DEFINE T == {s \in Seq(X) : ToSet(Only(s, S)) = ToSet(s) \cap S}
<1>1. <<>> \in T
  <2>1. <<>> \in Seq(X) /\ Only(<<>>, S) = <<>> /\ ToSet(<<>>) = {}
    BY OnlyEmpty DEF ToSet
  <2> QED BY <2>1
<1>2. ASSUME NEW s \in Seq(X), NEW x \in X, s \in T PROVE Append(s, x) \in T
  <2>0. ASSUME NEW u \in Seq(X) PROVE ToSet(Append(u, x)) = ToSet(u) \cup {x}
    <3>1. Append(u, x)[Len(u) + 1] = x /\ \A i \in 1..Len(u) : Append(u, x)[i] = u[i]
      OBVIOUS
    <3>2. DOMAIN u = 1..Len(u) /\ DOMAIN Append(u, x) = 1..(Len(u) + 1) /\ Len(u) \in Nat
      OBVIOUS
    <3>3. 1..(Len(u) + 1) = (1..Len(u)) \cup {Len(u) + 1}
      BY <3>2
    <3> QED BY <3>1, <3>2, <3>3 DEF ToSet
  <2>1. Only(Append(s, x), S) = IF x \in S THEN Append(Only(s, S), x) ELSE Only(s, S)
    BY OnlyAppend
  <2>2. Only(s, S) \in Seq(X) /\ Append(s, x) \in Seq(X)
    BY OnlyInSeq
  <2>3. ToSet(Append(s, x)) = ToSet(s) \cup {x}
    BY <2>0
  <2>4. ToSet(Append(Only(s, S), x)) = ToSet(Only(s, S)) \cup {x}
    BY <2>0, <2>2
  <2>5. ToSet(Only(s, S)) = ToSet(s) \cap S
    BY <1>2
  <2>6. ToSet(Only(Append(s, x), S)) = ToSet(Append(s, x)) \cap S
    BY <2>1, <2>3, <2>4, <2>5
  <2> QED BY <2>2, <2>6
<1> HIDE DEF T
<1>3. \A s \in Seq(X) : s \in T
  BY <1>1, <1>2, SeqInduction
<1> QED BY <1>3 DEF T

Ordered(s, R) == \A i, j \in DOMAIN s : i < j => <<s[i], s[j]>> \in R

\* An order of the elements is an order of those that are kept.
LEMMA OnlyOrdered ==
  ASSUME NEW X, NEW S, NEW R
  PROVE  \A s \in Seq(X) : Ordered(s, R) => Ordered(Only(s, S), R)
<1> DEFINE T == {s \in Seq(X) : Ordered(s, R) => Ordered(Only(s, S), R)}
<1>1. <<>> \in T
  <2>1. <<>> \in Seq(X) /\ Only(<<>>, S) = <<>>
    BY OnlyEmpty
  <2>2. Ordered(<<>>, R)
    BY DEF Ordered
  <2> QED BY <2>1, <2>2
<1>2. ASSUME NEW s \in Seq(X), NEW x \in X, s \in T PROVE Append(s, x) \in T
  <2> SUFFICES ASSUME Ordered(Append(s, x), R) PROVE Ordered(Only(Append(s, x), S), R)
    OBVIOUS
  <2>1. Only(Append(s, x), S) = IF x \in S THEN Append(Only(s, S), x) ELSE Only(s, S)
    BY OnlyAppend
  <2>2. Only(s, S) \in Seq(X) /\ DOMAIN s = 1..Len(s) /\ Len(s) \in Nat
    BY OnlyInSeq
  <2>3. DOMAIN Append(s, x) = 1..(Len(s) + 1) /\ Append(s, x)[Len(s) + 1] = x
        /\ \A i \in 1..Len(s) : Append(s, x)[i] = s[i]
    OBVIOUS
  <2>4. ASSUME NEW i \in DOMAIN s PROVE <<s[i], x>> \in R
    <3> DEFINE t == Append(s, x)
    <3>1. i \in DOMAIN t /\ Len(s) + 1 \in DOMAIN t /\ i < Len(s) + 1
      BY <2>2, <2>3
    <3>2. <<t[i], t[Len(s) + 1]>> \in R
      BY <3>1 DEF Ordered
    <3> QED BY <2>2, <2>3, <3>2
  <2>5. Ordered(s, R)
    <3>1. ASSUME NEW i \in DOMAIN s, NEW j \in DOMAIN s, i < j PROVE <<s[i], s[j]>> \in R
      <4>1. i \in DOMAIN Append(s, x) /\ j \in DOMAIN Append(s, x)
        BY <2>2, <2>3
      <4>2. Append(s, x)[i] = s[i] /\ Append(s, x)[j] = s[j]
        BY <2>2, <2>3
      <4> QED BY <3>1, <4>1, <4>2 DEF Ordered
    <3> QED BY <3>1 DEF Ordered
  <2>6. Ordered(Only(s, S), R)
    BY <1>2, <2>5
  <2>7. CASE x \in S
    <3> DEFINE o == Only(s, S)
    <3>1. o \in Seq(X) /\ DOMAIN o = 1..Len(o) /\ Len(o) \in Nat
      BY <2>2
    <3>2. ASSUME NEW i \in DOMAIN o PROVE <<o[i], x>> \in R
      <4>1. o[i] \in ToSet(s)
        BY OnlyRange DEF ToSet
      <4> QED BY <4>1, <2>4 DEF ToSet
    <3> HIDE DEF o
    <3>3. DOMAIN Append(o, x) = 1..(Len(o) + 1) /\ Append(o, x)[Len(o) + 1] = x
          /\ \A i \in 1..Len(o) : Append(o, x)[i] = o[i]
      BY <3>1
    <3>4. ASSUME NEW i \in DOMAIN Append(o, x), NEW j \in DOMAIN Append(o, x), i < j
          PROVE  <<Append(o, x)[i], Append(o, x)[j]>> \in R
      <4>1. i \in 1..Len(o) /\ Append(o, x)[i] = o[i]
        BY <3>1, <3>3, <3>4
      <4>2. CASE j = Len(o) + 1
        BY <3>1, <3>2, <3>3, <4>1, <4>2
      <4>3. CASE j \in 1..Len(o)
        <5>1. Append(o, x)[j] = o[j] /\ <<o[i], o[j]>> \in R
          BY <2>6, <3>1, <3>3, <3>4, <4>1, <4>3 DEF Ordered, o
        <5> QED BY <4>1, <5>1
      <4>4. j = Len(o) + 1 \/ j \in 1..Len(o)
        BY <3>1, <3>3
      <4> QED BY <4>2, <4>3, <4>4
    <3>5. Ordered(Append(o, x), R)
      BY <3>4 DEF Ordered
    <3> QED BY <2>1, <2>7, <3>5 DEF o
  <2> QED BY <2>1, <2>6, <2>7
<1> HIDE DEF T
<1>3. \A s \in Seq(X) : s \in T
  BY <1>1, <1>2, SeqInduction
<1> QED BY <1>3 DEF T

Mapped(f, s) == [i \in DOMAIN s |-> f[s[i]]]

\* Mapping what is kept, and keeping what is mapped.
LEMMA OnlyMappedTyped ==
  ASSUME NEW X, NEW Y, NEW f \in [Y -> X], NEW S, NEW P, \A y \in Y : y \in P <=> f[y] \in S
  PROVE  \A s \in Seq(Y) : Mapped(f, Only(s, P)) = Only(Mapped(f, s), S)
<1> DEFINE T == {s \in Seq(Y) : Mapped(f, Only(s, P)) = Only(Mapped(f, s), S)}
<1>0. ASSUME NEW s \in Seq(Y), NEW y \in Y
      PROVE  Mapped(f, Append(s, y)) = Append(Mapped(f, s), f[y]) /\ Mapped(f, s) \in Seq(X)
  BY DEF Mapped
<1>1. <<>> \in T
  <2>1. <<>> \in Seq(Y) /\ Mapped(f, <<>>) = <<>>
    BY DEF Mapped
  <2> QED BY <2>1, OnlyEmpty
<1>2. ASSUME NEW s \in Seq(Y), NEW y \in Y, s \in T PROVE Append(s, y) \in T
  <2>1. Only(Append(s, y), P) = IF y \in P THEN Append(Only(s, P), y) ELSE Only(s, P)
    BY OnlyAppend
  <2>2. Only(s, P) \in Seq(Y) /\ Append(s, y) \in Seq(Y)
    BY OnlyInSeq
  <2>3. Mapped(f, Append(s, y)) = Append(Mapped(f, s), f[y]) /\ Mapped(f, s) \in Seq(X)
    BY <1>0
  <2>4. Only(Append(Mapped(f, s), f[y]), S)
          = IF f[y] \in S THEN Append(Only(Mapped(f, s), S), f[y]) ELSE Only(Mapped(f, s), S)
    BY <2>3, OnlyAppend
  <2>5. Mapped(f, Append(Only(s, P), y)) = Append(Mapped(f, Only(s, P)), f[y])
    BY <1>0, <2>2
  <2>6. y \in P <=> f[y] \in S
    OBVIOUS
  <2>7. Mapped(f, Only(s, P)) = Only(Mapped(f, s), S)
    BY <1>2
  <2>8. Mapped(f, Only(Append(s, y), P)) = Only(Mapped(f, Append(s, y)), S)
    BY <2>1, <2>3, <2>4, <2>5, <2>6, <2>7
  <2> QED BY <2>2, <2>8
<1> HIDE DEF T
<1>3. \A s \in Seq(Y) : s \in T
  BY <1>1, <1>2, SeqInduction
<1> QED BY <1>3 DEF T

\* The same for a mapping with any values.
LEMMA OnlyMapped ==
  ASSUME NEW Y, NEW f, NEW S, NEW P, \A y \in Y : y \in P <=> f[y] \in S
  PROVE  \A s \in Seq(Y) : Mapped(f, Only(s, P)) = Only(Mapped(f, s), S)
<1> DEFINE X == {f[y] : y \in Y}
           g == [y \in Y |-> f[y]]
<1>1. g \in [Y -> X] /\ \A y \in Y : g[y] = f[y]
  OBVIOUS
<1>2. \A y \in Y : y \in P <=> g[y] \in S
  BY <1>1
<1> HIDE DEF g, X
<1>3. \A s \in Seq(Y) : Mapped(g, Only(s, P)) = Only(Mapped(g, s), S)
  BY <1>1, <1>2, OnlyMappedTyped
<1>4. ASSUME NEW s \in Seq(Y) PROVE Mapped(g, s) = Mapped(f, s)
  BY <1>1 DEF Mapped
<1>5. \A s \in Seq(Y) : Only(s, P) \in Seq(Y)
  BY OnlyInSeq
<1> QED BY <1>3, <1>4, <1>5

\* Mapping, step by step.
LEMMA MappedAppend ==
  ASSUME NEW Y, NEW f, NEW s \in Seq(Y), NEW y \in Y
  PROVE  Mapped(f, Append(s, y)) = Append(Mapped(f, s), f[y])
<1> DEFINE X == {f[z] : z \in Y}
<1>1. Mapped(f, s) \in Seq(X) /\ Len(Mapped(f, s)) = Len(s)
  BY DEF Mapped
<1> QED BY <1>1 DEF Mapped

\* Mapping a concatenation.
LEMMA MappedCat ==
  ASSUME NEW Y, NEW f, NEW s \in Seq(Y)
  PROVE  \A t \in Seq(Y) : Mapped(f, s \o t) = Mapped(f, s) \o Mapped(f, t)
<1> DEFINE X == {f[z] : z \in Y}
           T == {t \in Seq(Y) : Mapped(f, s \o t) = Mapped(f, s) \o Mapped(f, t)}
<1>0. \A t \in Seq(Y) : Mapped(f, t) \in Seq(X)
  BY DEF Mapped
<1>1. <<>> \in T
  <2>1. s \o <<>> = s /\ <<>> \in Seq(Y) /\ Mapped(f, <<>>) = <<>>
    BY DEF Mapped
  <2>2. \A u \in Seq(X) : u \o <<>> = u
    OBVIOUS
  <2> HIDE DEF X
  <2>3. Mapped(f, s) \o <<>> = Mapped(f, s)
    BY <1>0, <2>2
  <2> QED BY <2>1, <2>3
<1>2. ASSUME NEW t \in Seq(Y), NEW y \in Y, t \in T PROVE Append(t, y) \in T
  <2>1. s \o Append(t, y) = Append(s \o t, y) /\ s \o t \in Seq(Y) /\ Append(t, y) \in Seq(Y)
    BY CatAppend
  <2>2. Mapped(f, Append(s \o t, y)) = Append(Mapped(f, s \o t), f[y])
    BY <2>1, MappedAppend
  <2>3. Mapped(f, Append(t, y)) = Append(Mapped(f, t), f[y])
    BY MappedAppend
  <2>4. f[y] \in X
    OBVIOUS
  <2> HIDE DEF X
  <2>5. Mapped(f, s) \o Append(Mapped(f, t), f[y]) = Append(Mapped(f, s) \o Mapped(f, t), f[y])
    BY <1>0, <2>4, CatAppend
  <2>6. Mapped(f, s \o t) = Mapped(f, s) \o Mapped(f, t)
    BY <1>2
  <2>7. Mapped(f, s \o Append(t, y)) = Mapped(f, s) \o Mapped(f, Append(t, y))
    BY <2>1, <2>2, <2>3, <2>5, <2>6
  <2> QED BY <2>1, <2>7
<1> HIDE DEF T
<1>3. \A t \in Seq(Y) : t \in T
  BY <1>1, <1>2, SeqInduction
<1> QED BY <1>3 DEF T

----------------------------------------------------------------------------
(* FlattenSeq *)

FlatOf(ss, n, f) ==
  f = [i \in 1..n |-> IF i = 1 THEN ss[i] ELSE f[i - 1] \o ss[i]]

\* FlattenSeq computes its result along its sequence.
LEMMA FlatExists ==
  ASSUME NEW ss
  PROVE  \A n \in Nat : \E f : FlatOf(ss, n, f)
<1> DEFINE T == {n \in Nat : \E f : FlatOf(ss, n, f)}
<1>1. 0 \in T
  <2>1. FlatOf(ss, 0, [i \in 1..0 |-> <<>>])
    BY DEF FlatOf
  <2> QED BY <2>1
<1>2. ASSUME NEW n \in Nat, n \in T PROVE n + 1 \in T
  <2>1. PICK f : FlatOf(ss, n, f)
    BY <1>2
  <2> DEFINE last == IF n = 0 THEN ss[1] ELSE f[n] \o ss[n + 1]
             g == [i \in 1..(n + 1) |-> IF i = n + 1 THEN last ELSE f[i]]
  <2>2. \A i \in 1..n : f[i] = IF i = 1 THEN ss[i] ELSE f[i - 1] \o ss[i]
    BY <2>1 DEF FlatOf
  <2>3. ASSUME NEW i \in 1..(n + 1)
        PROVE  g[i] = IF i = 1 THEN ss[i] ELSE g[i - 1] \o ss[i]
    <3>1. CASE i = n + 1
      <4>1. g[i] = last /\ (i = 1 <=> n = 0)
        BY <3>1
      <4>2. i # 1 => g[i - 1] = f[n]
        BY <3>1
      <4> QED BY <4>1, <4>2, <3>1
    <3>2. CASE i # n + 1
      <4>1. i \in 1..n /\ g[i] = f[i]
        BY <3>2
      <4>2. i # 1 => g[i - 1] = f[i - 1]
        BY <3>2
      <4> QED BY <4>1, <4>2, <2>2
    <3> QED BY <3>1, <3>2
  <2>4. FlatOf(ss, n + 1, g)
    BY <2>3 DEF FlatOf
  <2> QED BY <2>4
<1> HIDE DEF T
<1>3. \A n \in Nat : n \in T
  BY <1>1, <1>2, Induction
<1> QED BY <1>3 DEF T

\* FlattenSeq is the last of its partial results.
LEMMA FlattenIsFlat ==
  ASSUME NEW X, NEW ss \in Seq(X), Len(ss) # 0
  PROVE  \E f : FlatOf(ss, Len(ss), f) /\ FlattenSeq(ss) = f[Len(ss)]
<1> DEFINE f == CHOOSE g : FlatOf(ss, Len(ss), g)
<1>1. FlatOf(ss, Len(ss), f)
  <2>1. Len(ss) \in Nat
    OBVIOUS
  <2>2. \E g : FlatOf(ss, Len(ss), g)
    BY <2>1, FlatExists
  <2> QED BY <2>2
<1>2. FlattenSeq(ss) = f[Len(ss)]
  BY DEF FlattenSeq, FlatOf
<1> QED BY <1>1, <1>2

\* FlattenSeq, step by step.
LEMMA FlattenEmpty == FlattenSeq(<<>>) = <<>>
BY DEF FlattenSeq

\* FlattenSeq with one more sequence.
LEMMA FlattenAppend ==
  ASSUME NEW X, NEW ss \in Seq(Seq(X)), NEW w \in Seq(X)
  PROVE  FlattenSeq(Append(ss, w)) = FlattenSeq(ss) \o w
<1> DEFINE t == Append(ss, w)
           n == Len(ss)
<1>1. t \in Seq(Seq(X)) /\ Len(t) = n + 1 /\ t[n + 1] = w /\ n \in Nat
  OBVIOUS
<1>2. \A i \in 1..n : t[i] = ss[i]
  OBVIOUS
<1> HIDE DEF t, n
<1>4. PICK g : FlatOf(t, n + 1, g) /\ FlattenSeq(t) = g[n + 1]
  <2>1. Len(t) # 0
    BY <1>1
  <2> QED BY <1>1, <2>1, FlattenIsFlat
<1>6. \A i \in 1..(n + 1) : g[i] = IF i = 1 THEN t[i] ELSE g[i - 1] \o t[i]
  BY <1>4 DEF FlatOf
<1>7. CASE n = 0
  <2>1. ss = <<>>
    BY <1>7, EmptySeq DEF n
  <2>2. g[1] = w /\ <<>> \o w = w
    BY <1>1, <1>6, <1>7
  <2> QED BY <1>4, <1>7, <2>1, <2>2, FlattenEmpty DEF t
<1>8. CASE n # 0
  <2>3. PICK f : FlatOf(ss, n, f) /\ FlattenSeq(ss) = f[n]
    BY <1>8, FlattenIsFlat DEF n
  <2>5. \A i \in 1..n : f[i] = IF i = 1 THEN ss[i] ELSE f[i - 1] \o ss[i]
    BY <2>3 DEF FlatOf
  <2> DEFINE T == {i \in Nat : i + 1 <= n => f[i + 1] = g[i + 1]}
  <2>6. 0 \in T
    <3>1. 1 \in 1..n /\ 1 \in 1..(n + 1)
      BY <1>1, <1>8
    <3>2. f[1] = ss[1] /\ g[1] = t[1] /\ t[1] = ss[1]
      BY <3>1, <2>5, <1>6, <1>2
    <3> QED BY <3>2
  <2>7. ASSUME NEW i \in Nat, i \in T PROVE i + 1 \in T
    <3>0. (i + 1) + 1 = i + 2 /\ i + 1 \in Nat
      OBVIOUS
    <3>1. SUFFICES ASSUME i + 2 <= n PROVE f[i + 2] = g[i + 2]
      BY <1>1, <3>0
    <3>2. f[i + 1] = g[i + 1] /\ i + 2 \in 1..n /\ i + 2 \in 1..(n + 1) /\ i + 2 # 1
      BY <1>1, <2>7, <3>1
    <3>3. f[i + 2] = f[(i + 2) - 1] \o ss[i + 2]
      BY <2>5, <3>2
    <3>4. g[i + 2] = g[(i + 2) - 1] \o t[i + 2]
      BY <1>6, <3>2
    <3>5. (i + 2) - 1 = i + 1 /\ t[i + 2] = ss[i + 2]
      BY <1>2, <3>2
    <3> QED BY <3>2, <3>3, <3>4, <3>5
  <2> HIDE DEF T
  <2>8. n - 1 \in T
    <3>1. \A i \in Nat : i \in T
      BY <2>6, <2>7, Induction
    <3>2. n - 1 \in Nat
      BY <1>1, <1>8
    <3> QED BY <3>1, <3>2
  <2>9. f[n] = g[n]
    BY <1>1, <2>8 DEF T
  <2>10. g[n + 1] = g[n] \o t[n + 1]
    <3>1. n + 1 \in 1..(n + 1) /\ n + 1 # 1 /\ (n + 1) - 1 = n
      BY <1>1, <1>8
    <3> QED BY <1>6, <3>1
  <2> QED BY <1>1, <1>4, <2>3, <2>9, <2>10 DEF t
<1> QED BY <1>7, <1>8

\* What FlattenSeq returns.
LEMMA FlattenType ==
  ASSUME NEW X
  PROVE  \A ss \in Seq(Seq(X)) : FlattenSeq(ss) \in Seq(X)
<1> DEFINE T == {ss \in Seq(Seq(X)) : FlattenSeq(ss) \in Seq(X)}
<1>1. <<>> \in T
  <2>1. <<>> \in Seq(X) /\ <<>> \in Seq(Seq(X))
    OBVIOUS
  <2> QED BY <2>1, FlattenEmpty
<1>2. ASSUME NEW ss \in Seq(Seq(X)), NEW w \in Seq(X), ss \in T PROVE Append(ss, w) \in T
  <2>1. FlattenSeq(Append(ss, w)) = FlattenSeq(ss) \o w
    BY FlattenAppend
  <2>2. Append(ss, w) \in Seq(Seq(X))
    OBVIOUS
  <2>3. FlattenSeq(ss) \in Seq(X)
    BY <1>2
  <2>4. FlattenSeq(ss) \o w \in Seq(X)
    BY <2>3
  <2> QED BY <2>1, <2>2, <2>4
<1> HIDE DEF T
<1>3. \A ss \in Seq(Seq(X)) : ss \in T
  BY <1>1, <1>2, SeqInduction
<1> QED BY <1>3 DEF T

\* Concatenation is associative, and FlattenSeq distributes over it.
LEMMA CatAssoc ==
  ASSUME NEW X, NEW a \in Seq(X), NEW b \in Seq(X), NEW c \in Seq(X)
  PROVE  (a \o b) \o c = a \o (b \o c)
OBVIOUS

\* FlattenSeq of a concatenation.
LEMMA FlattenCat ==
  ASSUME NEW X, NEW ss \in Seq(Seq(X))
  PROVE  \A tt \in Seq(Seq(X)) : FlattenSeq(ss \o tt) = FlattenSeq(ss) \o FlattenSeq(tt)
<1> DEFINE T == {tt \in Seq(Seq(X)) : FlattenSeq(ss \o tt) = FlattenSeq(ss) \o FlattenSeq(tt)}
<1>1. <<>> \in T
  <2>1. FlattenSeq(ss) \in Seq(X)
    BY FlattenType
  <2>2. ss \o <<>> = ss /\ FlattenSeq(ss) \o <<>> = FlattenSeq(ss) /\ <<>> \in Seq(Seq(X))
    BY <2>1
  <2> QED BY <2>2, FlattenEmpty
<1>2. ASSUME NEW tt \in Seq(Seq(X)), NEW w \in Seq(X), tt \in T PROVE Append(tt, w) \in T
  <2>1. FlattenSeq(Append(tt, w)) = FlattenSeq(tt) \o w
    BY FlattenAppend
  <2>2. ss \o Append(tt, w) = Append(ss \o tt, w) /\ ss \o tt \in Seq(Seq(X))
    BY CatAppend
  <2>3. FlattenSeq(Append(ss \o tt, w)) = FlattenSeq(ss \o tt) \o w
    BY <2>2, FlattenAppend
  <2>4. FlattenSeq(ss) \in Seq(X) /\ FlattenSeq(tt) \in Seq(X)
    BY FlattenType
  <2>5. (FlattenSeq(ss) \o FlattenSeq(tt)) \o w = FlattenSeq(ss) \o (FlattenSeq(tt) \o w)
    BY <2>4, CatAssoc
  <2>6. FlattenSeq(ss \o tt) = FlattenSeq(ss) \o FlattenSeq(tt) /\ Append(tt, w) \in Seq(Seq(X))
    BY <1>2
  <2> QED BY <2>1, <2>2, <2>3, <2>5, <2>6
<1> HIDE DEF T
<1>3. \A tt \in Seq(Seq(X)) : tt \in T
  BY <1>1, <1>2, SeqInduction
<1> QED BY <1>3 DEF T

\* A bounded set of numbers that is not empty has a greatest element.
LEMMA GreatestElement ==
  ASSUME NEW n \in Nat, NEW T, T \subseteq 0..n, T # {}
  PROVE  Max(T) \in T /\ \A k \in T : k <= Max(T)
<1> DEFINE U == {n - k : k \in T}
<1>1. U \subseteq Nat /\ U # {}
  <2>1. \A k \in T : n - k \in Nat
    OBVIOUS
  <2> QED BY <2>1
<1>2. PICK m \in U : \A k \in U : m <= k
  BY <1>1, LeastElement
<1>3. PICK x \in T : m = n - x
  OBVIOUS
<1>4. ASSUME NEW k \in T PROVE k <= x
  <2>1. n - k \in U /\ k \in Int /\ x \in Int
    OBVIOUS
  <2>2. n - x <= n - k
    BY <1>2, <1>3, <2>1
  <2> QED BY <2>1, <2>2
<1>5. \E y \in T : \A k \in T : y >= k
  BY <1>4
<1> HIDE DEF U
<1>6. Max(T) \in T /\ \A k \in T : Max(T) >= k
  BY <1>5 DEF Max
<1> QED BY <1>6

\* The elements of a concatenation.
LEMMA CatAt ==
  ASSUME NEW X, NEW a \in Seq(X), NEW b \in Seq(X)
  PROVE  /\ a \o b \in Seq(X)
         /\ Len(a \o b) = Len(a) + Len(b)
         /\ \A m \in 1..Len(a) : (a \o b)[m] = a[m]
         /\ \A m \in 1..Len(b) : (a \o b)[Len(a) + m] = b[m]
OBVIOUS

----------------------------------------------------------------------------
(* The tokenizer.  Cut is defined for every text, and takes it character by*)
(* character.                                                              *)

\* The first line feed.
LEMMA FirstLFCases ==
  ASSUME NEW s \in Seq(Chars)
  PROVE  \/ FirstLF(s) = 0 /\ \A i \in 1..Len(s) : s[i] # LF
         \/ /\ FirstLF(s) \in 1..Len(s) /\ s[FirstLF(s)] = LF
            /\ \A i \in 1..Len(s) : s[i] = LF => FirstLF(s) <= i
<1> DEFINE I == {i \in 1..Len(s) : s[i] = LF}
<1>1. FirstLF(s) = IF I # {} THEN Min(I) ELSE 0
  BY DEF FirstLF, SelectInSeq
<1>2. CASE I = {}
  BY <1>1, <1>2
<1>3. CASE I # {}
  <2>1. I \subseteq Nat
    OBVIOUS
  <2>2. \E m \in I : \A n \in I : m <= n
    BY <1>3, <2>1, LeastElement
  <2>3. Min(I) \in I /\ \A n \in I : Min(I) <= n
    BY <2>2 DEF Min
  <2> QED BY <1>1, <1>3, <2>3
<1> QED BY <1>2, <1>3

\* A line without its CR is a line.
LEMMA CleanLineType ==
  ASSUME NEW line \in Seq(Chars)
  PROVE  CleanLine(line) \in Seq(Chars)
<1>1. CASE line = <<>>
  BY <1>1 DEF CleanLine
<1>2. CASE line # <<>>
  <2>1. Len(line) \in Nat /\ Len(line) # 0
    BY <1>2, EmptySeq
  <2>2. Front(line) \in Seq(Chars)
    BY <2>1 DEF Front
  <2> QED BY <2>2 DEF CleanLine
<1> QED BY <1>1, <1>2

----------------------------------------------------------------------------
(* Cut *)

Behind(s) == SubSeq(s, FirstLF(s) + 1, Len(s))

FirstLine(s) == CleanLine(SubSeq(s, 1, FirstLF(s) - 1))

CutStep(f, s) ==
  IF FirstLF(s) = 0 THEN [out |-> <<>>, rest |-> s]
  ELSE [out |-> <<FirstLine(s)>> \o f[Behind(s)].out, rest |-> f[Behind(s)].rest]

NoLonger(n) == {s \in Seq(Chars) : Len(s) <= n}

CutUpTo(n, f) == f = [s \in NoLonger(n) |-> CutStep(f, s)]

\* What is behind the first line feed is shorter than the text.
LEMMA BehindIsShorter ==
  ASSUME NEW s \in Seq(Chars), FirstLF(s) # 0
  PROVE  /\ Behind(s) \in Seq(Chars) /\ Len(Behind(s)) = Len(s) - FirstLF(s)
         /\ FirstLF(s) \in 1..Len(s)
         /\ FirstLine(s) \in Seq(Chars)
<1>1. FirstLF(s) \in 1..Len(s) /\ Len(s) \in Nat
  BY FirstLFCases
<1>2. Behind(s) \in Seq(Chars) /\ Len(Behind(s)) = Len(s) - FirstLF(s)
  BY <1>1 DEF Behind
<1>3. SubSeq(s, 1, FirstLF(s) - 1) \in Seq(Chars)
  BY <1>1
<1> QED BY <1>1, <1>2, <1>3, CleanLineType DEF FirstLine

\* Cut is defined for texts up to every length, in one way only, and so for every
\* text.
LEMMA CutUpToExists == \A n \in Nat : \E f : CutUpTo(n, f)
<1> DEFINE T == {n \in Nat : \E f : CutUpTo(n, f)}
<1>1. 0 \in T
  <2> DEFINE f == [s \in NoLonger(0) |-> CutStep(<<>>, s)]
  <2>1. ASSUME NEW s \in NoLonger(0) PROVE CutStep(<<>>, s) = CutStep(f, s)
    <3>1. s \in Seq(Chars) /\ Len(s) <= 0
      BY DEF NoLonger
    <3>2. FirstLF(s) = 0
      BY <3>1, FirstLFCases
    <3> QED BY <3>2 DEF CutStep
  <2>2. CutUpTo(0, f)
    BY <2>1 DEF CutUpTo
  <2> QED BY <2>2
<1>2. ASSUME NEW n \in Nat, n \in T PROVE n + 1 \in T
  <2>1. PICK f : CutUpTo(n, f)
    BY <1>2
  <2> DEFINE g == [s \in NoLonger(n + 1) |-> CutStep(f, s)]
  <2>2. \A s \in NoLonger(n) : f[s] = CutStep(f, s)
    BY <2>1 DEF CutUpTo
  <2>3. ASSUME NEW s \in NoLonger(n + 1) PROVE CutStep(f, s) = CutStep(g, s)
    <3>1. s \in Seq(Chars) /\ Len(s) <= n + 1
      BY DEF NoLonger
    <3>2. CASE FirstLF(s) = 0
      BY <3>2 DEF CutStep
    <3>3. CASE FirstLF(s) # 0
      <4>1. Behind(s) \in Seq(Chars) /\ Len(Behind(s)) <= n
        BY <3>1, <3>3, BehindIsShorter
      <4>2. Behind(s) \in NoLonger(n) /\ Behind(s) \in NoLonger(n + 1)
        BY <4>1 DEF NoLonger
      <4>3. g[Behind(s)] = f[Behind(s)]
        BY <2>2, <4>2
      <4> HIDE DEF g
      <4> QED BY <3>3, <4>3 DEF CutStep
    <3> QED BY <3>2, <3>3
  <2>4. CutUpTo(n + 1, g)
    BY <2>3 DEF CutUpTo
  <2> QED BY <2>4
<1> HIDE DEF T
<1>3. \A n \in Nat : n \in T
  BY <1>1, <1>2, Induction
<1> QED BY <1>3 DEF T

\* Two such functions agree.
LEMMA CutUpToUnique ==
  ASSUME NEW n \in Nat, NEW m \in Nat, NEW f, NEW g, CutUpTo(n, f), CutUpTo(m, g)
  PROVE  \A s \in NoLonger(n) \cap NoLonger(m) : f[s] = g[s]
<1> DEFINE T == {k \in Nat : \A s \in NoLonger(n) \cap NoLonger(m) : Len(s) <= k => f[s] = g[s]}
<1>0. ASSUME NEW s \in NoLonger(n) \cap NoLonger(m)
      PROVE  /\ s \in Seq(Chars) /\ Len(s) \in Nat /\ Len(s) <= n /\ Len(s) <= m
             /\ f[s] = CutStep(f, s) /\ g[s] = CutStep(g, s)
  <2>1. s \in Seq(Chars) /\ Len(s) <= n /\ Len(s) <= m
    BY DEF NoLonger
  <2>2. f[s] = CutStep(f, s)
    BY DEF CutUpTo
  <2>3. g[s] = CutStep(g, s)
    BY DEF CutUpTo
  <2> QED BY <2>1, <2>2, <2>3
<1>1. 0 \in T
  <2>1. ASSUME NEW s \in NoLonger(n) \cap NoLonger(m), Len(s) <= 0 PROVE f[s] = g[s]
    <3>1. s \in Seq(Chars)
      BY <1>0
    <3>2. FirstLF(s) = 0
      BY <2>1, <3>1, FirstLFCases
    <3> QED BY <1>0, <3>2 DEF CutStep
  <2> QED BY <2>1
<1>2. ASSUME NEW k \in Nat, k \in T PROVE k + 1 \in T
  <2>1. ASSUME NEW s \in NoLonger(n) \cap NoLonger(m), Len(s) <= k + 1 PROVE f[s] = g[s]
    <3>2. CASE FirstLF(s) = 0
      BY <1>0, <3>2 DEF CutStep
    <3>3. CASE FirstLF(s) # 0
      <4>1. Behind(s) \in Seq(Chars) /\ Len(Behind(s)) <= k /\ Len(Behind(s)) <= n
            /\ Len(Behind(s)) <= m
        BY <1>0, <2>1, <3>3, BehindIsShorter
      <4>2. Behind(s) \in NoLonger(n) \cap NoLonger(m)
        BY <4>1 DEF NoLonger
      <4>3. f[Behind(s)] = g[Behind(s)]
        BY <1>2, <4>1, <4>2
      <4>4. CutStep(f, s) = CutStep(g, s)
        BY <4>3 DEF CutStep
      <4> QED BY <1>0, <4>4
    <3> QED BY <3>2, <3>3
  <2> QED BY <2>1
<1> HIDE DEF T
<1>3. \A k \in Nat : k \in T
  BY <1>1, <1>2, Induction
<1>4. ASSUME NEW s \in NoLonger(n) \cap NoLonger(m) PROVE f[s] = g[s]
  <2>1. Len(s) \in T /\ Len(s) <= Len(s)
    BY <1>0, <1>3
  <2> QED BY <2>1 DEF T
<1> QED BY <1>4

\* Cut satisfies its definition.
LEMMA CutIsCut ==
  \A s \in Seq(Chars) : Cut[s] = CutStep(Cut, s)
<1> DEFINE Upto(n) == CHOOSE f : CutUpTo(n, f)
           C == [s \in Seq(Chars) |-> Upto(Len(s))[s]]
<1>0. \A n \in Nat : CutUpTo(n, Upto(n))
  BY CutUpToExists
<1> HIDE DEF Upto
<1>1. ASSUME NEW s \in Seq(Chars) PROVE C[s] = CutStep(C, s)
  <2> DEFINE n == Len(s)
  <2>1. n \in Nat /\ s \in NoLonger(n)
    BY DEF NoLonger
  <2>2. C[s] = CutStep(Upto(n), s)
    BY <1>0, <2>1 DEF CutUpTo
  <2>3. CASE FirstLF(s) = 0
    BY <2>2, <2>3 DEF CutStep
  <2>4. CASE FirstLF(s) # 0
    <3> DEFINE b == Behind(s)
    <3>1. b \in Seq(Chars) /\ Len(b) \in Nat /\ Len(b) <= n
      BY <2>1, <2>4, BehindIsShorter
    <3>2. b \in NoLonger(n) \cap NoLonger(Len(b))
      BY <3>1 DEF NoLonger
    <3>3. Upto(n)[b] = Upto(Len(b))[b]
      BY <1>0, <2>1, <3>1, <3>2, CutUpToUnique
    <3>4. C[b] = Upto(n)[b]
      BY <3>1, <3>3
    <3> HIDE DEF C, n
    <3> QED BY <2>2, <2>4, <3>4 DEF CutStep
  <2> QED BY <2>3, <2>4
<1>2. C = [s \in Seq(Chars) |-> CutStep(C, s)]
  BY <1>1
<1>3. Cut = CHOOSE f : f = [s \in Seq(Chars) |-> CutStep(f, s)]
  BY DEF Cut, CutStep, Behind, FirstLine
<1> HIDE DEF C
<1>4. Cut = [s \in Seq(Chars) |-> CutStep(Cut, s)]
  BY <1>2, <1>3
<1> QED BY <1>4

CutResult == [out : Seq(Seq(Chars)), rest : Seq(Chars)]

\* What the tokenizer gives for a text.
LEMMA CutType == \A s \in Seq(Chars) : Cut[s] \in CutResult
<1> DEFINE T == {k \in Nat : \A s \in Seq(Chars) : Len(s) <= k => Cut[s] \in CutResult}
<1>0. ASSUME NEW s \in Seq(Chars), FirstLF(s) = 0 PROVE Cut[s] \in CutResult
  <2>1. Cut[s] = [out |-> <<>>, rest |-> s]
    BY <1>0, CutIsCut DEF CutStep
  <2>2. <<>> \in Seq(Seq(Chars))
    OBVIOUS
  <2> QED BY <2>1, <2>2 DEF CutResult
<1>1. 0 \in T
  <2>1. ASSUME NEW s \in Seq(Chars), Len(s) <= 0 PROVE Cut[s] \in CutResult
    <3>2. FirstLF(s) = 0
      BY <2>1, FirstLFCases
    <3> QED BY <1>0, <3>2
  <2> QED BY <2>1
<1>2. ASSUME NEW k \in Nat, k \in T PROVE k + 1 \in T
  <2>1. ASSUME NEW s \in Seq(Chars), Len(s) <= k + 1, FirstLF(s) # 0 PROVE Cut[s] \in CutResult
    <3> DEFINE b == Behind(s)
    <3>1. b \in Seq(Chars) /\ Len(b) <= k /\ FirstLine(s) \in Seq(Chars)
      BY <2>1, BehindIsShorter
    <3>2. Cut[b] \in CutResult
      BY <1>2, <3>1
    <3>3. Cut[s] = [out |-> <<FirstLine(s)>> \o Cut[b].out, rest |-> Cut[b].rest]
      BY <2>1, CutIsCut DEF CutStep
    <3>4. Cut[b].out \in Seq(Seq(Chars)) /\ Cut[b].rest \in Seq(Chars)
      BY <3>2 DEF CutResult
    <3>5. <<FirstLine(s)>> \o Cut[b].out \in Seq(Seq(Chars))
      BY <3>1, <3>4
    <3> QED BY <3>3, <3>4, <3>5 DEF CutResult
  <2> QED BY <1>0, <2>1
<1> HIDE DEF T
<1>3. \A k \in Nat : k \in T
  BY <1>1, <1>2, Induction
<1>4. ASSUME NEW s \in Seq(Chars) PROVE Cut[s] \in CutResult
  <2>1. Len(s) \in T /\ Len(s) <= Len(s)
    BY <1>3
  <2> QED BY <2>1 DEF T
<1> QED BY <1>4

\* What one more character does: a line feed completes the line that was kept.
Longer(r, c) ==
  IF c = LF THEN [out |-> Append(r.out, CleanLine(r.rest)), rest |-> <<>>]
  ELSE [out |-> r.out, rest |-> Append(r.rest, c)]

\* A suffix of a text with one more character.
LEMMA SubSeqAppend ==
  ASSUME NEW X, NEW s \in Seq(X), NEW x \in X, NEW k \in 1..(Len(s) + 1)
  PROVE  SubSeq(Append(s, x), k, Len(s) + 1) = Append(SubSeq(s, k, Len(s)), x)
<1> DEFINE t == Append(s, x)
           a == SubSeq(t, k, Len(s) + 1)
           b == SubSeq(s, k, Len(s))
<1>1. t \in Seq(X) /\ Len(t) = Len(s) + 1 /\ Len(s) \in Nat /\ t[Len(s) + 1] = x
      /\ \A i \in 1..Len(s) : t[i] = s[i]
  OBVIOUS
<1> HIDE DEF t
<1>2. a \in Seq(X) /\ Len(a) = Len(s) + 2 - k
      /\ \A i \in 1..(Len(s) + 2 - k) : a[i] = t[k + i - 1]
  BY <1>1
<1>3. b \in Seq(X) /\ Len(b) = Len(s) + 1 - k
      /\ \A i \in 1..(Len(s) + 1 - k) : b[i] = s[k + i - 1]
  BY <1>1
<1> HIDE DEF a, b
<1>4. Append(b, x) \in Seq(X) /\ Len(Append(b, x)) = Len(b) + 1
      /\ Append(b, x)[Len(b) + 1] = x /\ \A i \in 1..Len(b) : Append(b, x)[i] = b[i]
  BY <1>3
<1>5. ASSUME NEW i \in 1..Len(a) PROVE a[i] = Append(b, x)[i]
  <2>1. CASE i = Len(a)
    <3>1. k + i - 1 = Len(s) + 1 /\ i = Len(b) + 1 /\ i \in 1..(Len(s) + 2 - k)
      BY <1>1, <1>2, <1>3, <2>1
    <3>2. a[i] = t[Len(s) + 1]
      BY <1>2, <3>1
    <3> QED BY <1>1, <1>4, <3>1, <3>2
  <2>2. CASE i # Len(a)
    <3>00. Len(a) = Len(s) + 2 - k /\ Len(s) \in Nat
      BY <1>1, <1>2
    <3>0. k \in Int /\ i \in Int /\ 1 <= k /\ 1 <= i /\ i < Len(s) + 2 - k
      BY <3>00, <2>2
    <3>1. k + i - 1 \in 1..Len(s) /\ i \in 1..Len(b) /\ i \in 1..(Len(s) + 2 - k)
          /\ i \in 1..(Len(s) + 1 - k)
      BY <1>1, <1>3, <3>0
    <3>2. a[i] = t[k + i - 1] /\ b[i] = s[k + i - 1]
      BY <1>2, <1>3, <3>1
    <3> QED BY <1>1, <1>4, <3>1, <3>2
  <2> QED BY <2>1, <2>2
<1>6. Len(a) = Len(Append(b, x))
  BY <1>1, <1>2, <1>3, <1>4
<1>7. a = Append(b, x)
  BY <1>2, <1>4, <1>5, <1>6, SeqEqual
<1> QED BY <1>7 DEF a, b, t

\* The first line feed of a text with one more character.
LEMMA FirstLFAppend ==
  ASSUME NEW s \in Seq(Chars), NEW c \in Chars
  PROVE  FirstLF(Append(s, c)) = IF FirstLF(s) # 0 THEN FirstLF(s)
                                 ELSE IF c = LF THEN Len(s) + 1 ELSE 0
<1> DEFINE t == Append(s, c)
<1>1. t \in Seq(Chars) /\ Len(t) = Len(s) + 1 /\ Len(s) \in Nat /\ t[Len(s) + 1] = c
      /\ \A i \in 1..Len(s) : t[i] = s[i]
  OBVIOUS
<1> HIDE DEF t
<1>2. \/ FirstLF(s) = 0 /\ \A i \in 1..Len(s) : s[i] # LF
      \/ /\ FirstLF(s) \in 1..Len(s) /\ s[FirstLF(s)] = LF
         /\ \A i \in 1..Len(s) : s[i] = LF => FirstLF(s) <= i
  BY FirstLFCases
<1>3. \/ FirstLF(t) = 0 /\ \A i \in 1..Len(t) : t[i] # LF
      \/ /\ FirstLF(t) \in 1..Len(t) /\ t[FirstLF(t)] = LF
         /\ \A i \in 1..Len(t) : t[i] = LF => FirstLF(t) <= i
  BY <1>1, FirstLFCases
<1>4. CASE FirstLF(s) # 0
  <2>1. FirstLF(s) \in 1..Len(t) /\ t[FirstLF(s)] = LF
    BY <1>1, <1>2, <1>4
  <2>2. FirstLF(t) \in 1..Len(t) /\ t[FirstLF(t)] = LF /\ FirstLF(t) <= FirstLF(s)
    BY <1>3, <2>1
  <2>3. FirstLF(t) \in 1..Len(s) /\ s[FirstLF(t)] = LF
    BY <1>1, <1>2, <1>4, <2>2
  <2>4. FirstLF(s) <= FirstLF(t)
    BY <1>2, <1>4, <2>3
  <2> QED BY <1>2, <1>4, <2>2, <2>3, <2>4 DEF t
<1>5. CASE FirstLF(s) = 0
  <2>1. \A i \in 1..Len(s) : t[i] # LF
    BY <1>1, <1>2, <1>5
  <2>2. CASE c = LF
    BY <1>1, <1>3, <1>5, <2>1, <2>2 DEF t
  <2>3. CASE c # LF
    BY <1>1, <1>3, <1>5, <2>1, <2>3 DEF t
  <2> QED BY <2>2, <2>3
<1> QED BY <1>4, <1>5

\* The tokenizer of a text with one more character.
LEMMA CutByCharacter ==
  \A s \in Seq(Chars), c \in Chars : Cut[Append(s, c)] = Longer(Cut[s], c)
<1> DEFINE T == {k \in Nat : \A s \in Seq(Chars) : Len(s) <= k =>
                   \A c \in Chars : Cut[Append(s, c)] = Longer(Cut[s], c)}
<1>0. ASSUME NEW s \in Seq(Chars), NEW c \in Chars, FirstLF(s) = 0
      PROVE  Cut[Append(s, c)] = Longer(Cut[s], c)
  <2> DEFINE t == Append(s, c)
  <2>1. t \in Seq(Chars) /\ Len(s) \in Nat /\ Len(t) = Len(s) + 1
    OBVIOUS
  <2>2. Cut[s] = [out |-> <<>>, rest |-> s]
    BY <1>0, CutIsCut DEF CutStep
  <2>3. Cut[t] = CutStep(Cut, t)
    BY <2>1, CutIsCut
  <2>4. FirstLF(t) = IF c = LF THEN Len(s) + 1 ELSE 0
    BY <1>0, FirstLFAppend
  <2>5. CASE c # LF
    BY <2>2, <2>3, <2>4, <2>5 DEF CutStep, Longer
  <2>6. CASE c = LF
    <3>1. SubSeq(t, 1, (Len(s) + 1) - 1) = s
      BY <2>1
    <3>2. Behind(t) = <<>>
      BY <2>1, <2>4, <2>6 DEF Behind
    <3>3. FirstLine(t) = CleanLine(s)
      BY <2>4, <2>6, <3>1 DEF FirstLine
    <3>4. <<>> \in Seq(Chars) /\ Len(<<>>) = 0
      OBVIOUS
    <3>5. FirstLF(<<>>) = 0
      <4>1. {i \in 1..Len(<<>>) : <<>>[i] = LF} = {}
        BY <3>4
      <4> QED BY <4>1 DEF FirstLF, SelectInSeq
    <3>6. Cut[<<>>] = [out |-> <<>>, rest |-> <<>>]
      BY <3>4, <3>5, CutIsCut DEF CutStep
    <3>7. FirstLF(t) # 0
      BY <2>1, <2>4, <2>6
    <3>8. Cut[t] = [out |-> <<CleanLine(s)>> \o <<>>, rest |-> <<>>]
      BY <2>3, <3>2, <3>3, <3>6, <3>7 DEF CutStep
    <3>9. <<CleanLine(s)>> \o <<>> = Append(<<>>, CleanLine(s))
      BY CleanLineType
    <3> QED BY <2>2, <2>6, <3>8, <3>9 DEF Longer
  <2> QED BY <2>5, <2>6
<1>1. 0 \in T
  <2>1. ASSUME NEW s \in Seq(Chars), Len(s) <= 0 PROVE FirstLF(s) = 0
    BY <2>1, FirstLFCases
  <2> QED BY <1>0, <2>1
<1>2. ASSUME NEW k \in Nat, k \in T PROVE k + 1 \in T
  <2>1. ASSUME NEW s \in Seq(Chars), Len(s) <= k + 1, NEW c \in Chars, FirstLF(s) # 0
        PROVE  Cut[Append(s, c)] = Longer(Cut[s], c)
    <3> DEFINE t == Append(s, c)
               b == Behind(s)
               line == FirstLine(s)
    <3>1. t \in Seq(Chars) /\ Len(t) = Len(s) + 1 /\ Len(s) \in Nat
      OBVIOUS
    <3>2. b \in Seq(Chars) /\ Len(b) <= k /\ line \in Seq(Chars) /\ FirstLF(s) \in 1..Len(s)
      BY <2>1, BehindIsShorter
    <3>3. FirstLF(t) = FirstLF(s)
      BY <2>1, FirstLFAppend
    <3>4. Behind(t) = Append(b, c)
      <4>1. FirstLF(s) + 1 \in 1..(Len(s) + 1)
        BY <3>1, <3>2
      <4>2. SubSeq(t, FirstLF(s) + 1, Len(s) + 1) = Append(SubSeq(s, FirstLF(s) + 1, Len(s)), c)
        BY <4>1, SubSeqAppend
      <4> QED BY <3>1, <3>3, <4>2 DEF Behind
    <3>5. FirstLine(t) = line
      <4>1. SubSeq(t, 1, FirstLF(s) - 1) = SubSeq(s, 1, FirstLF(s) - 1)
        BY <3>1, <3>2
      <4> QED BY <3>3, <4>1 DEF FirstLine
    <3>6. Cut[Append(b, c)] = Longer(Cut[b], c)
      BY <1>2, <3>2
    <3>7. Cut[s] = [out |-> <<line>> \o Cut[b].out, rest |-> Cut[b].rest]
      BY <2>1, CutIsCut DEF CutStep
    <3>8. Cut[t] = [out |-> <<line>> \o Cut[Append(b, c)].out, rest |-> Cut[Append(b, c)].rest]
      BY <2>1, <3>1, <3>3, <3>4, <3>5, CutIsCut DEF CutStep
    <3>9. Cut[b].out \in Seq(Seq(Chars)) /\ Cut[b].rest \in Seq(Chars)
      BY <3>2, CutType DEF CutResult
    <3>10. <<line>> \o Append(Cut[b].out, CleanLine(Cut[b].rest))
             = Append(<<line>> \o Cut[b].out, CleanLine(Cut[b].rest))
      <4>1. <<line>> \in Seq(Seq(Chars)) /\ CleanLine(Cut[b].rest) \in Seq(Chars)
        BY <3>2, <3>9, CleanLineType
      <4> DEFINE one == <<line>>
                 out == Cut[b].out
                 last == CleanLine(Cut[b].rest)
      <4>2. one \in Seq(Seq(Chars)) /\ out \in Seq(Seq(Chars)) /\ last \in Seq(Chars)
        BY <3>9, <4>1
      <4> HIDE DEF one, out, last
      <4>3. one \o Append(out, last) = Append(one \o out, last)
        BY <4>2, CatAppend
      <4> QED BY <4>3 DEF one, out, last
    <3> HIDE DEF t, b, line
    <3>11. CASE c = LF
      <4>1. Cut[Append(b, c)] = [out |-> Append(Cut[b].out, CleanLine(Cut[b].rest)), rest |-> <<>>]
        BY <3>6, <3>11 DEF Longer
      <4>2. Cut[t] = [out |-> <<line>> \o Append(Cut[b].out, CleanLine(Cut[b].rest)), rest |-> <<>>]
        BY <3>8, <4>1
      <4>3. Longer(Cut[s], c) = [out |-> Append(<<line>> \o Cut[b].out, CleanLine(Cut[b].rest)),
                                 rest |-> <<>>]
        BY <3>7, <3>11 DEF Longer
      <4> QED BY <3>10, <4>2, <4>3 DEF t
    <3>12. CASE c # LF
      <4>1. Cut[Append(b, c)] = [out |-> Cut[b].out, rest |-> Append(Cut[b].rest, c)]
        BY <3>6, <3>12 DEF Longer
      <4>2. Cut[t] = [out |-> <<line>> \o Cut[b].out, rest |-> Append(Cut[b].rest, c)]
        BY <3>8, <4>1
      <4>3. Longer(Cut[s], c) = [out |-> <<line>> \o Cut[b].out, rest |-> Append(Cut[b].rest, c)]
        BY <3>7, <3>12 DEF Longer
      <4> QED BY <4>2, <4>3 DEF t
    <3> QED BY <3>11, <3>12
  <2> QED BY <1>0, <2>1
<1> HIDE DEF T
<1>3. \A k \in Nat : k \in T
  BY <1>1, <1>2, Induction
<1>4. ASSUME NEW s \in Seq(Chars), NEW c \in Chars PROVE Cut[Append(s, c)] = Longer(Cut[s], c)
  <2>1. Len(s) \in T /\ Len(s) <= Len(s)
    BY <1>3
  <2> QED BY <2>1 DEF T
<1> QED BY <1>4

----------------------------------------------------------------------------
(* The lines of a text as a whole are what Cut gives for it.               *)

FeedsBefore(text, e) == {i \in 1..(e - 1) : text[i] = LF}

Start(text, e) == IF FeedsBefore(text, e) = {} THEN 1 ELSE Max(FeedsBefore(text, e)) + 1

LinesOf(text) == [k \in DOMAIN LineFeeds(text) |-> LineEndingAt(text, LineFeeds(text)[k])]

TailOf(text) == SubSeq(text, Start(text, Len(text) + 1), Len(text))

\* Where a line begins.
LEMMA LineEndingAtStart ==
  ASSUME NEW text, NEW e
  PROVE  LineEndingAt(text, e) = CleanLine(SubSeq(text, Start(text, e), e - 1))
BY DEF LineEndingAt, Start, FeedsBefore

\* A line begins at a position of the text.
LEMMA StartRange ==
  ASSUME NEW text \in Seq(Chars), NEW e \in 1..(Len(text) + 1)
  PROVE  Start(text, e) \in 1..e
<1>1. CASE FeedsBefore(text, e) = {}
  BY <1>1 DEF Start
<1>2. CASE FeedsBefore(text, e) # {}
  <2>1. FeedsBefore(text, e) \subseteq 0..(e - 1) /\ e - 1 \in Nat
    BY DEF FeedsBefore
  <2>2. Max(FeedsBefore(text, e)) \in FeedsBefore(text, e)
    BY <1>2, <2>1, GreatestElement
  <2>3. Max(FeedsBefore(text, e)) \in 1..(e - 1)
    BY <2>2 DEF FeedsBefore
  <2> QED BY <1>2, <2>3 DEF Start
<1> QED BY <1>1, <1>2

\* The lines that were complete stay what they are when the text goes on.
LEMMA LinesStay ==
  ASSUME NEW s \in Seq(Chars), NEW c \in Chars, NEW e \in 1..(Len(s) + 1)
  PROVE  /\ FeedsBefore(Append(s, c), e) = FeedsBefore(s, e)
         /\ LineEndingAt(Append(s, c), e) = LineEndingAt(s, e)
<1> DEFINE t == Append(s, c)
<1>1. t \in Seq(Chars) /\ Len(t) = Len(s) + 1 /\ Len(s) \in Nat
      /\ \A i \in 1..Len(s) : t[i] = s[i]
  OBVIOUS
<1> HIDE DEF t
<1>2. ASSUME NEW i \in 1..(e - 1) PROVE t[i] = s[i]
  <2>1. i \in 1..Len(s)
    BY <1>1
  <2> QED BY <1>1, <2>1
<1>3. FeedsBefore(t, e) = FeedsBefore(s, e)
  BY <1>2 DEF FeedsBefore
<1>4. Start(t, e) = Start(s, e) /\ Start(s, e) \in 1..e
  BY <1>3, StartRange DEF Start
<1>5. SubSeq(t, Start(s, e), e - 1) = SubSeq(s, Start(s, e), e - 1)
  <2> DEFINE k == Start(s, e)
             a == SubSeq(t, k, e - 1)
             b == SubSeq(s, k, e - 1)
  <2>0. k \in 1..e /\ Len(s) \in Nat /\ e \in 1..(Len(s) + 1) /\ Len(t) = Len(s) + 1
    BY <1>1, <1>4
  <2> HIDE DEF k
  <2>1. a \in Seq(Chars) /\ Len(a) = e - k /\ \A i \in 1..(e - k) : a[i] = t[k + i - 1]
    BY <1>1, <2>0
  <2>2. b \in Seq(Chars) /\ Len(b) = e - k /\ \A i \in 1..(e - k) : b[i] = s[k + i - 1]
    BY <2>0
  <2>3. ASSUME NEW i \in 1..(e - k) PROVE t[k + i - 1] = s[k + i - 1]
    <3>1. k + i - 1 \in 1..Len(s)
      BY <2>0
    <3> QED BY <1>1, <3>1
  <2> HIDE DEF a, b
  <2>4. \A i \in 1..Len(a) : a[i] = b[i]
    BY <2>1, <2>2, <2>3
  <2>5. a = b
    BY <2>1, <2>2, <2>4, SeqEqual
  <2> QED BY <2>5 DEF a, b, k
<1>6. LineEndingAt(t, e) = LineEndingAt(s, e)
  BY <1>4, <1>5, LineEndingAtStart
<1> QED BY <1>3, <1>6 DEF t

\* The line feeds of a text, and of a text with one more character.
LEMMA FeedsType ==
  ASSUME NEW s \in Seq(Chars)
  PROVE  LineFeeds(s) \in Seq(1..Len(s))
<1> DEFINE ids == [i \in DOMAIN s |-> i]
<1>1. ids \in Seq(1..Len(s))
  OBVIOUS
<1> HIDE DEF ids
<1>2. Only(ids, {i \in DOMAIN s : s[i] = LF}) \in Seq(1..Len(s))
  BY <1>1, OnlyInSeq
<1> QED BY <1>2 DEF LineFeeds, ids

\* The line feeds of a text with one more character.
LEMMA FeedsAppend ==
  ASSUME NEW s \in Seq(Chars), NEW c \in Chars
  PROVE  LineFeeds(Append(s, c)) = IF c = LF THEN Append(LineFeeds(s), Len(s) + 1)
                                   ELSE LineFeeds(s)
<1> DEFINE t == Append(s, c)
           n == Len(s)
           ids == [i \in DOMAIN s |-> i]
           more == [i \in DOMAIN t |-> i]
           S == {i \in DOMAIN s : s[i] = LF}
           U == {i \in DOMAIN t : t[i] = LF}
<1>1. t \in Seq(Chars) /\ DOMAIN t = 1..(n + 1) /\ DOMAIN s = 1..n /\ n \in Nat
      /\ t[n + 1] = c /\ \A i \in 1..n : t[i] = s[i]
  OBVIOUS
<1> HIDE DEF t, n
<1>2. ids \in Seq(1..n) /\ Len(ids) = n /\ ids \in Seq(1..(n + 1))
  BY <1>1
<1>3. more = Append(ids, n + 1)
  BY <1>1, <1>2
<1>4. (1..n) \cap U = (1..n) \cap S /\ (n + 1 \in U <=> c = LF)
  BY <1>1
<1> HIDE DEF ids, more, S, U
<1>5. Only(Append(ids, n + 1), U) = IF n + 1 \in U THEN Append(Only(ids, U), n + 1) ELSE Only(ids, U)
  <2> DEFINE X == 1..(n + 1)
             x == n + 1
  <2>1. x \in X /\ ids \in Seq(X)
    BY <1>1, <1>2
  <2> HIDE DEF X, x
  <2>2. Only(Append(ids, x), U) = IF x \in U THEN Append(Only(ids, U), x) ELSE Only(ids, U)
    BY <2>1, OnlyAppend
  <2> QED BY <2>2 DEF x
<1>6. Only(ids, U) = Only(ids, S)
  <2> DEFINE X == 1..n
  <2>1. ids \in Seq(X) /\ X \cap S = X \cap U
    BY <1>2, <1>4
  <2> HIDE DEF X
  <2>2. \A q \in Seq(X) : Only(q, U) = Only(q, S)
    BY <2>1, OnlySame
  <2> QED BY <2>1, <2>2
<1>7. LineFeeds(t) = Only(more, U) /\ LineFeeds(s) = Only(ids, S)
  BY DEF LineFeeds, more, ids, U, S
<1> QED BY <1>3, <1>4, <1>5, <1>6, <1>7 DEF t, n

Parsed(text) == [out |-> LinesOf(text), rest |-> TailOf(text)]

\* The lines of a text with one more character.
LEMMA ParsedByCharacter ==
  ASSUME NEW s \in Seq(Chars), NEW c \in Chars
  PROVE  Parsed(Append(s, c)) = Longer(Parsed(s), c)
<1> DEFINE t == Append(s, c)
           n == Len(s)
           feeds == LineFeeds(s)
<1>1. t \in Seq(Chars) /\ Len(t) = n + 1 /\ n \in Nat /\ t[n + 1] = c
      /\ \A i \in 1..n : t[i] = s[i]
  OBVIOUS
<1>2. feeds \in Seq(1..n)
  BY FeedsType
<1>3. LineFeeds(t) = IF c = LF THEN Append(feeds, n + 1) ELSE feeds
  BY FeedsAppend
<1>4. \A e \in 1..(n + 1) : LineEndingAt(t, e) = LineEndingAt(s, e)
  BY LinesStay
<1>5. FeedsBefore(t, n + 1) = FeedsBefore(s, n + 1)
  <2>1. n + 1 \in 1..(n + 1)
    BY <1>1
  <2> QED BY <2>1, LinesStay
<1>6. LineEndingAt(s, n + 1) = CleanLine(TailOf(s))
  <2>1. (n + 1) - 1 = n
    BY <1>1
  <2> QED BY <2>1, LineEndingAtStart DEF TailOf
<1> HIDE DEF t, n, feeds
<1>7. FeedsBefore(t, n + 2) = FeedsBefore(t, n + 1) \cup (IF c = LF THEN {n + 1} ELSE {})
  <2>1. (n + 2) - 1 = n + 1 /\ (n + 1) - 1 = n /\ 1..(n + 1) = (1..n) \cup {n + 1}
    BY <1>1
  <2> QED BY <1>1, <2>1 DEF FeedsBefore
<1>8. (n + 1) + 1 = n + 2
  BY <1>1
<1>9. CASE c = LF
  <2>1. LinesOf(t) = Append(LinesOf(s), CleanLine(TailOf(s)))
    <3> DEFINE more == Append(feeds, n + 1)
               m == Len(feeds)
    <3>1. m \in Nat /\ DOMAIN feeds = 1..m /\ DOMAIN more = 1..(m + 1) /\ more[m + 1] = n + 1
          /\ \A k \in 1..m : more[k] = feeds[k] /\ feeds[k] \in 1..n
      BY <1>1, <1>2
    <3>2. LinesOf(t) = [k \in 1..(m + 1) |-> LineEndingAt(t, more[k])]
      BY <1>3, <1>9, <3>1 DEF LinesOf
    <3>3. LinesOf(s) = [k \in 1..m |-> LineEndingAt(s, feeds[k])]
      BY <3>1 DEF LinesOf, feeds
    <3> HIDE DEF more, m
    <3>4. Append(LinesOf(s), CleanLine(TailOf(s)))
            = [k \in 1..(m + 1) |-> IF k = m + 1 THEN CleanLine(TailOf(s))
                                    ELSE LineEndingAt(s, feeds[k])]
      BY <3>1, <3>3
    <3>5. ASSUME NEW k \in 1..(m + 1)
          PROVE  LineEndingAt(t, more[k]) = IF k = m + 1 THEN CleanLine(TailOf(s))
                                            ELSE LineEndingAt(s, feeds[k])
      <4>1. CASE k = m + 1
        <5>1. n + 1 \in 1..(n + 1)
          BY <1>1
        <5> QED BY <1>4, <1>6, <3>1, <4>1, <5>1
      <4>2. CASE k # m + 1
        <5>1. k \in 1..m
          BY <3>1, <4>2
        <5>2. more[k] = feeds[k] /\ feeds[k] \in 1..n
          BY <3>1, <5>1
        <5>3. feeds[k] \in 1..(n + 1)
          BY <1>1, <5>2
        <5> QED BY <1>4, <4>2, <5>2, <5>3
      <4> QED BY <4>1, <4>2
    <3> QED BY <3>2, <3>4, <3>5
  <2>2. TailOf(t) = <<>>
    <3>1. FeedsBefore(t, n + 2) # {} /\ n + 1 \in FeedsBefore(t, n + 2)
      BY <1>7, <1>9
    <3>2. FeedsBefore(t, n + 2) \subseteq 0..(n + 1) /\ n + 1 \in Nat
      BY <1>1 DEF FeedsBefore
    <3>3. Max(FeedsBefore(t, n + 2)) \in 0..(n + 1) /\ n + 1 <= Max(FeedsBefore(t, n + 2))
      BY <3>1, <3>2, GreatestElement
    <3>4. Max(FeedsBefore(t, n + 2)) = n + 1
      BY <1>1, <3>3
    <3>5. Start(t, Len(t) + 1) = n + 2
      BY <1>1, <1>8, <3>1, <3>4 DEF Start
    <3> QED BY <1>1, <3>5 DEF TailOf
  <2> QED BY <1>9, <2>1, <2>2 DEF Parsed, Longer, t
<1>10. CASE c # LF
  <2>1. LinesOf(t) = LinesOf(s)
    <3>1. \A k \in DOMAIN feeds : feeds[k] \in 1..(n + 1)
      BY <1>1, <1>2
    <3>2. LineFeeds(t) = feeds /\ LineFeeds(s) = feeds
      BY <1>3, <1>10 DEF feeds
    <3> QED BY <1>4, <3>1, <3>2 DEF LinesOf
  <2>2. Start(t, Len(t) + 1) = Start(s, n + 1)
    BY <1>1, <1>5, <1>7, <1>8, <1>10 DEF Start
  <2>3. TailOf(t) = Append(TailOf(s), c)
    <3>1. Start(s, n + 1) \in 1..(Len(s) + 1)
      BY <1>1, StartRange DEF n
    <3>2. SubSeq(Append(s, c), Start(s, n + 1), Len(s) + 1)
            = Append(SubSeq(s, Start(s, n + 1), Len(s)), c)
      BY <3>1, SubSeqAppend
    <3> QED BY <1>1, <2>2, <3>2 DEF TailOf, t, n
  <2> QED BY <1>10, <2>1, <2>3 DEF Parsed, Longer, t
<1> QED BY <1>9, <1>10

\* The lines of the empty text.
LEMMA ParsedEmpty ==
  /\ <<>> \in Seq(Chars)
  /\ Cut[<<>>] = [out |-> <<>>, rest |-> <<>>]
  /\ Parsed(<<>>) = [out |-> <<>>, rest |-> <<>>]
<1>1. <<>> \in Seq(Chars) /\ Len(<<>>) = 0 /\ DOMAIN <<>> = {}
  OBVIOUS
<1>2. {i \in 1..Len(<<>>) : <<>>[i] = LF} = {}
  BY <1>1
<1>3. FirstLF(<<>>) = 0
  BY <1>2 DEF FirstLF, SelectInSeq
<1>4. Cut[<<>>] = [out |-> <<>>, rest |-> <<>>]
  BY <1>1, <1>3, CutIsCut DEF CutStep
<1>5. LineFeeds(<<>>) = <<>>
  <2>1. [i \in DOMAIN <<>> |-> i] = <<>>
    OBVIOUS
  <2> QED BY <2>1, OnlyEmpty DEF LineFeeds
<1>6. LinesOf(<<>>) = <<>>
  BY <1>5 DEF LinesOf
<1>7. TailOf(<<>>) = <<>>
  <2>1. FeedsBefore(<<>>, 0 + 1) = {}
    BY DEF FeedsBefore
  <2>2. Start(<<>>, 0 + 1) = 1
    BY <2>1 DEF Start
  <2> QED BY <1>1, <2>2 DEF TailOf
<1> QED BY <1>1, <1>4, <1>6, <1>7 DEF Parsed

\* Cut gives the lines of a text as a whole.
LEMMA CutIsParsed == \A s \in Seq(Chars) : Cut[s] = Parsed(s)
<1> DEFINE T == {s \in Seq(Chars) : Cut[s] = Parsed(s)}
<1>1. <<>> \in T
  BY ParsedEmpty
<1>2. ASSUME NEW s \in Seq(Chars), NEW c \in Chars, s \in T PROVE Append(s, c) \in T
  <2>1. Append(s, c) \in Seq(Chars)
    OBVIOUS
  <2>2. Cut[Append(s, c)] = Parsed(Append(s, c))
    BY <1>2, CutByCharacter, ParsedByCharacter
  <2> QED BY <2>1, <2>2
<1> HIDE DEF T
<1>3. \A s \in Seq(Chars) : s \in T
  BY <1>1, <1>2, SeqInduction
<1> QED BY <1>3 DEF T

\* What is kept has no line feed.
LEMMA RestHasNoLF == \A s \in Seq(Chars) : FirstLF(Cut[s].rest) = 0
<1> DEFINE T == {s \in Seq(Chars) : FirstLF(Cut[s].rest) = 0}
<1>0. FirstLF(<<>>) = 0
  <2>1. {i \in 1..Len(<<>>) : <<>>[i] = LF} = {}
    OBVIOUS
  <2> QED BY <2>1 DEF FirstLF, SelectInSeq
<1>1. <<>> \in T
  BY <1>0, ParsedEmpty
<1>2. ASSUME NEW s \in Seq(Chars), NEW c \in Chars, s \in T PROVE Append(s, c) \in T
  <2>1. Append(s, c) \in Seq(Chars)
    OBVIOUS
  <2>2. Cut[Append(s, c)] = Longer(Cut[s], c)
    BY CutByCharacter
  <2>3. Cut[s].rest \in Seq(Chars) /\ FirstLF(Cut[s].rest) = 0
    BY <1>2, CutType DEF CutResult
  <2>4. CASE c = LF
    BY <1>0, <2>1, <2>2, <2>4 DEF Longer
  <2>5. CASE c # LF
    <3>1. FirstLF(Append(Cut[s].rest, c)) = 0
      BY <2>3, <2>5, FirstLFAppend
    <3>2. Cut[Append(s, c)].rest = Append(Cut[s].rest, c)
      BY <2>2, <2>5 DEF Longer
    <3>3. FirstLF(Cut[Append(s, c)].rest) = 0
      BY <3>1, <3>2
    <3> QED BY <2>1, <3>3
  <2> QED BY <2>4, <2>5
<1> HIDE DEF T
<1>3. \A s \in Seq(Chars) : s \in T
  BY <1>1, <1>2, SeqInduction
<1> QED BY <1>3 DEF T

\* Cutting a text in two makes no difference: what was kept of the first part goes
\* before the second.
LEMMA CutContinues ==
  ASSUME NEW s \in Seq(Chars)
  PROVE  \A u \in Seq(Chars) :
           /\ Cut[s \o u].out = Cut[s].out \o Cut[Cut[s].rest \o u].out
           /\ Cut[s \o u].rest = Cut[Cut[s].rest \o u].rest
<1> DEFINE r == Cut[s].rest
           o == Cut[s].out
           T == {u \in Seq(Chars) : Cut[s \o u].out = o \o Cut[r \o u].out
                                    /\ Cut[s \o u].rest = Cut[r \o u].rest}
<1>0. r \in Seq(Chars) /\ o \in Seq(Seq(Chars)) /\ FirstLF(r) = 0
  BY CutType, RestHasNoLF DEF CutResult
<1> HIDE DEF r, o
<1>1. <<>> \in T
  <2>1. s \o <<>> = s /\ r \o <<>> = r /\ o \o <<>> = o /\ <<>> \in Seq(Chars)
    BY <1>0
  <2>2. Cut[r] = [out |-> <<>>, rest |-> r]
    <3>1. Cut[r] = CutStep(Cut, r)
      BY <1>0, CutIsCut
    <3>2. CutStep(Cut, r) = [out |-> <<>>, rest |-> r]
      BY <1>0 DEF CutStep
    <3> QED BY <3>1, <3>2
  <2>3. Cut[s].out = o /\ Cut[s].rest = r
    BY DEF r, o
  <2>4. Cut[s].out = o \o Cut[r].out /\ Cut[s].rest = Cut[r].rest
    <3>1. Cut[r].out = <<>> /\ Cut[r].rest = r
      BY <2>2
    <3> QED BY <2>1, <2>3, <3>1
  <2>5. Cut[s \o <<>>].out = o \o Cut[r \o <<>>].out /\ Cut[s \o <<>>].rest = Cut[r \o <<>>].rest
    BY <2>1, <2>4
  <2> QED BY <2>1, <2>5
<1>2. ASSUME NEW u \in Seq(Chars), NEW c \in Chars, u \in T PROVE Append(u, c) \in T
  <2>1. Append(u, c) \in Seq(Chars) /\ s \o u \in Seq(Chars) /\ r \o u \in Seq(Chars)
    BY <1>0
  <2>2. s \o Append(u, c) = Append(s \o u, c)
    BY CatAppend
  <2>22. r \o Append(u, c) = Append(r \o u, c)
    BY <1>0, CatAppend
  <2>3. Cut[Append(s \o u, c)] = Longer(Cut[s \o u], c)
    BY <2>1, CutByCharacter
  <2>4. Cut[Append(r \o u, c)] = Longer(Cut[r \o u], c)
    BY <2>1, CutByCharacter
  <2>5. Cut[s \o u].out = o \o Cut[r \o u].out /\ Cut[s \o u].rest = Cut[r \o u].rest
    BY <1>2
  <2>6. Cut[r \o u].out \in Seq(Seq(Chars)) /\ Cut[r \o u].rest \in Seq(Chars)
    BY <2>1, CutType DEF CutResult
  <2> DEFINE a == Cut[s \o u]
             b == Cut[r \o u]
             line == CleanLine(b.rest)
  <2>7. o \o Append(b.out, line) = Append(o \o b.out, line)
    <3> DEFINE bo == b.out
    <3>1. line \in Seq(Chars) /\ bo \in Seq(Seq(Chars))
      BY <2>6, CleanLineType
    <3> HIDE DEF line, bo
    <3>2. o \o Append(bo, line) = Append(o \o bo, line)
      <4> DEFINE L == Seq(Chars)
      <4>1. o \in Seq(L) /\ bo \in Seq(L) /\ line \in L
        BY <1>0, <3>1
      <4> HIDE DEF L
      <4> QED
        BY <4>1, CatAppend
    <3> QED BY <3>2 DEF bo
  <2>8. Longer(a, c).out = o \o Longer(b, c).out /\ Longer(a, c).rest = Longer(b, c).rest
    <3>1. a.out = o \o b.out /\ a.rest = b.rest
      BY <2>5
    <3> HIDE DEF a, b
    <3> QED BY <2>7, <3>1 DEF Longer
  <2>9. /\ Cut[s \o Append(u, c)].out = o \o Cut[r \o Append(u, c)].out
        /\ Cut[s \o Append(u, c)].rest = Cut[r \o Append(u, c)].rest
    BY <2>2, <2>22, <2>3, <2>4, <2>8
  <2> QED BY <2>1, <2>9
<1> HIDE DEF T
<1>3. \A u \in Seq(Chars) : u \in T
  BY <1>1, <1>2, SeqInduction
<1> QED BY <1>3 DEF T, r, o

----------------------------------------------------------------------------
(* Events *)

Event == [line : Seq(Chars), id : Nat]

LineOf == [e \in Event |-> e.line]

ById == {p \in Event \X Event : p[1].id < p[2].id}

\* What EventAdapter hands on of new lines: the events among them, in order, with
\* increasing numbers.
LEMMA DecodedFacts ==
  ASSUME NEW new \in Seq(Seq(Chars)), NEW from \in Nat
  PROVE  /\ Only(new, ParsedLines) \in Seq(Seq(Chars))
         /\ Decoded(new, from) \in Seq(Event)
         /\ Ordered(Decoded(new, from), ById)
         /\ Mapped(LineOf, Decoded(new, from)) = Only(new, EventLines)
         /\ \A i \in DOMAIN Decoded(new, from) :
              /\ from <= Decoded(new, from)[i].id
              /\ Decoded(new, from)[i].id < from + Len(Only(new, ParsedLines))
<1> DEFINE parsed == Only(new, ParsedLines)
           numbered == [i \in DOMAIN parsed |-> [line |-> parsed[i], id |-> from + i - 1]]
           D == Only(numbered, [line : EventLines, id : Nat])
<1>0. Decoded(new, from) = D
  BY DEF Decoded
<1>1. parsed \in Seq(Seq(Chars))
  BY OnlyInSeq
<1> HIDE DEF parsed
<1>2. ASSUME NEW i \in DOMAIN parsed
      PROVE  [line |-> parsed[i], id |-> from + i - 1] \in Event /\ i \in Nat /\ i >= 1 /\ i <= Len(parsed)
  <2>1. parsed[i] \in Seq(Chars) /\ i \in 1..Len(parsed)
    BY <1>1
  <2>2. from + i - 1 \in Nat
    BY <2>1
  <2> QED BY <2>1, <2>2 DEF Event
<1>3. numbered \in Seq(Event) /\ DOMAIN numbered = DOMAIN parsed /\ Len(numbered) = Len(parsed)
  <2>1. DOMAIN parsed = 1..Len(parsed) /\ Len(parsed) \in Nat
    BY <1>1
  <2>2. numbered \in [1..Len(parsed) -> Event]
    BY <1>2, <2>1
  <2> HIDE DEF numbered
  <2> QED BY <2>1, <2>2
<1>4. \A i \in DOMAIN parsed : numbered[i].line = parsed[i] /\ numbered[i].id = from + i - 1
  OBVIOUS
<1> HIDE DEF numbered
<1>5. Mapped(LineOf, numbered) = parsed
  <2>1. \A i \in DOMAIN parsed : numbered[i] \in Event /\ LineOf[numbered[i]] = parsed[i]
    BY <1>3, <1>4 DEF LineOf
  <2>2. parsed = [i \in DOMAIN parsed |-> parsed[i]]
    BY <1>1
  <2> QED BY <1>3, <2>1, <2>2 DEF Mapped
<1>6. Ordered(numbered, ById)
  <2>1. ASSUME NEW i \in DOMAIN numbered, NEW j \in DOMAIN numbered, i < j
        PROVE  <<numbered[i], numbered[j]>> \in ById
    <3>1. i \in Nat /\ j \in Nat /\ numbered[i] \in Event /\ numbered[j] \in Event
      BY <1>2, <1>3
    <3>2. numbered[i].id < numbered[j].id
      BY <1>3, <1>4, <2>1, <3>1
    <3> QED BY <3>1, <3>2 DEF ById
  <2> QED BY <2>1 DEF Ordered
<1>7. D \in Seq(Event)
  BY <1>3, OnlyInSeq
<1>8. Ordered(D, ById)
  BY <1>3, <1>6, OnlyOrdered
<1>9. Mapped(LineOf, D) = Only(new, EventLines)
  <2> DEFINE S == {y \in Event : LineOf[y] \in EventLines}
  <2>1. Event \cap [line : EventLines, id : Nat] = Event \cap S
    BY DEF Event, LineOf
  <2>2. LineOf \in [Event -> Seq(Chars)]
    BY DEF LineOf, Event
  <2>3. Mapped(LineOf, Only(numbered, S)) = Only(Mapped(LineOf, numbered), EventLines)
    <3>1. \A y \in Event : y \in S <=> LineOf[y] \in EventLines
      OBVIOUS
    <3> DEFINE X == Seq(Chars)
    <3>2. LineOf \in [Event -> X]
      BY <2>2
    <3> DEFINE L == EventLines
               f == LineOf
               Y == Event
    <3>4. \A y \in Y : y \in S <=> f[y] \in L
      BY <3>1
    <3>5. numbered \in Seq(Y)
      BY <1>3
    <3> HIDE DEF S, X, L, f, Y
    <3>6. \A q \in Seq(Y) : Mapped(f, Only(q, S)) = Only(Mapped(f, q), L)
      BY <3>4, OnlyMapped
    <3>3. Mapped(f, Only(numbered, S)) = Only(Mapped(f, numbered), L)
      BY <3>5, <3>6
    <3> QED BY <3>3 DEF f, L
  <2> DEFINE U == [line : EventLines, id : Nat]
  <2>4. D = Only(numbered, S)
    <3>1. Event \cap U = Event \cap S
      BY <2>1
    <3> HIDE DEF S, U
    <3>2. \A q \in Seq(Event) : Only(q, U) = Only(q, S)
      BY <3>1, OnlySame
    <3>3. Only(numbered, U) = Only(numbered, S)
      BY <1>3, <3>2
    <3> QED BY <3>3 DEF U
  <2> HIDE DEF S
  <2>5. Seq(Chars) \cap EventLines \subseteq ParsedLines
    BY DEF EventLines, ParsedLines, IsEvent
  <2>6. Only(parsed, EventLines) = Only(new, EventLines)
    BY <2>5, OnlyTwice DEF parsed
  <2> QED BY <1>5, <2>3, <2>4, <2>6
<1>10. ASSUME NEW i \in DOMAIN D PROVE from <= D[i].id /\ D[i].id < from + Len(parsed)
  <2>1. D[i] \in ToSet(D)
    BY DEF ToSet
  <2>2. ToSet(D) \subseteq ToSet(numbered)
    BY <1>3, OnlyRange
  <2>3. PICK j \in DOMAIN numbered : D[i] = numbered[j]
    BY <2>1, <2>2 DEF ToSet
  <2>4. D[i].id = from + j - 1 /\ j \in Nat /\ j >= 1 /\ j <= Len(parsed) /\ Len(parsed) \in Nat
    BY <1>1, <1>2, <1>3, <1>4, <2>3
  <2> QED BY <2>4
<1> HIDE DEF D
<1> QED BY <1>0, <1>1, <1>7, <1>8, <1>9, <1>10 DEF parsed

\* Two subsequences that meet are one.
LEMMA SubSeqCat ==
  ASSUME NEW X, NEW s \in Seq(X), NEW i \in Nat, NEW j \in Nat, i <= j, j <= Len(s)
  PROVE  SubSeq(s, 1, i) \o SubSeq(s, i + 1, j) = SubSeq(s, 1, j)
<1> DEFINE a == SubSeq(s, 1, i)
           b == SubSeq(s, i + 1, j)
           c == SubSeq(s, 1, j)
<1>1. a \in Seq(X) /\ Len(a) = i /\ \A m \in 1..i : a[m] = s[m]
  OBVIOUS
<1>2. b \in Seq(X) /\ Len(b) = j - i /\ \A m \in 1..(j - i) : b[m] = s[i + m]
  OBVIOUS
<1>3. c \in Seq(X) /\ Len(c) = j /\ \A m \in 1..j : c[m] = s[m]
  OBVIOUS
<1> HIDE DEF a, b, c
<1>7. a \in Seq(X) /\ b \in Seq(X)
  BY <1>1, <1>2
<1>8. /\ a \o b \in Seq(X)
      /\ Len(a \o b) = Len(a) + Len(b)
      /\ \A m \in 1..Len(a) : (a \o b)[m] = a[m]
      /\ \A m \in 1..Len(b) : (a \o b)[Len(a) + m] = b[m]
  BY <1>7, CatAt
<1> DEFINE d == a \o b
<1>9. /\ d \in Seq(X) /\ Len(d) = Len(a) + Len(b)
      /\ \A m \in 1..Len(a) : d[m] = a[m]
      /\ \A m \in 1..Len(b) : d[Len(a) + m] = b[m]
  BY <1>8, Zenon
<1> HIDE DEF d
<1>10. Len(a) = i /\ Len(b) = j - i
  BY <1>1, <1>2
<1>4. /\ d \in Seq(X) /\ Len(d) = j
      /\ \A m \in 1..i : d[m] = a[m]
      /\ \A m \in 1..(j - i) : d[i + m] = b[m]
  <2>1. Len(a) + Len(b) = j
    BY <1>10
  <2>2. Len(d) = j
    BY <1>9, <2>1
  <2>3. \A m \in 1..i : d[m] = a[m]
    BY <1>9, <1>10
  <2>4. \A m \in 1..(j - i) : d[i + m] = b[m]
    BY <1>9, <1>10
  <2> QED
    BY <1>9, <2>2, <2>3, <2>4
<1>5. ASSUME NEW m \in 1..j PROVE d[m] = c[m]
  <2>1. CASE m <= i
    BY <1>1, <1>3, <1>4, <2>1
  <2>2. CASE m > i
    <3>1. m - i \in 1..(j - i) /\ i + (m - i) = m
      BY <2>2
    <3>2. d[i + (m - i)] = b[m - i] /\ b[m - i] = s[i + (m - i)]
      BY <1>2, <1>4, <3>1
    <3> QED BY <1>3, <3>1, <3>2
  <2> QED BY <2>1, <2>2
<1>6. d = c
  BY <1>3, <1>4, <1>5, SeqEqual
<1> QED BY <1>6 DEF a, b, c, d

\* The number of complete words.
LEMMA WordCount ==
  ASSUME NEW b \in Seq(Chars)
  PROVE  /\ NumWords(b) \in Nat
         /\ NumWords(b) * WordSize <= Len(b)
         /\ Len(b) < NumWords(b) * WordSize + WordSize
BY DEF NumWords, WordSize

\* The words and the bytes that are kept are the bytes.
LEMMA WordsAndRest ==
  ASSUME NEW b \in Seq(Chars)
  PROVE  /\ WordsOf(b) \in Seq(Seq(Chars))
         /\ RestOf(b) \in Seq(Chars)
         /\ Len(RestOf(b)) < WordSize
         /\ FlattenSeq(WordsOf(b)) \o RestOf(b) = b
<1> DEFINE n == NumWords(b)
           w(i) == SubSeq(b, (i - 1) * WordSize + 1, i * WordSize)
           W(k) == [i \in 1..k |-> w(i)]
           T == {k \in Nat : k <= n => FlattenSeq(W(k)) = SubSeq(b, 1, k * WordSize)}
<1>1. n \in Nat /\ n * WordSize <= Len(b) /\ Len(b) < n * WordSize + WordSize /\ Len(b) \in Nat
  BY WordCount
<1> HIDE DEF n
<1>2. ASSUME NEW i \in 1..n PROVE w(i) \in Seq(Chars)
  <2>1. (i - 1) * WordSize + 1 \in 1..Len(b) /\ i * WordSize \in 1..Len(b)
    BY <1>1 DEF WordSize
  <2> DEFINE p == (i - 1) * WordSize + 1
             q == i * WordSize
  <2> HIDE DEF p, q
  <2>2. \A x, y \in 1..Len(b) : SubSeq(b, x, y) \in Seq(Chars)
    BY <1>1
  <2>3. SubSeq(b, p, q) \in Seq(Chars)
    BY <2>1, <2>2 DEF p, q
  <2> QED BY <2>3 DEF p, q
<1> HIDE DEF w
<1>3. ASSUME NEW k \in Nat, k <= n PROVE W(k) \in Seq(Seq(Chars)) /\ Len(W(k)) = k
  <2>1. 1..k \subseteq 1..n
    BY <1>1, <1>3
  <2>2. W(k) \in [1..k -> Seq(Chars)]
    BY <1>2, <2>1
  <2> HIDE DEF W
  <2> QED BY <2>2
<1>4. 0 \in T
  <2>1. W(0) = <<>>
    <3>1. W(0) \in Seq(Seq(Chars)) /\ Len(W(0)) = 0
      BY <1>1, <1>3
    <3> HIDE DEF W
    <3> QED BY <3>1, EmptySeq
  <2>2. SubSeq(b, 1, 0 * WordSize) = <<>>
    BY DEF WordSize
  <2> QED BY <2>1, <2>2, FlattenEmpty
<1>5. ASSUME NEW k \in Nat, k \in T PROVE k + 1 \in T
  <2> SUFFICES ASSUME k + 1 <= n
               PROVE  FlattenSeq(W(k + 1)) = SubSeq(b, 1, (k + 1) * WordSize)
    OBVIOUS
  <2>1. W(k + 1) = Append(W(k), w(k + 1))
    <3>1. W(k + 1) \in Seq(Seq(Chars)) /\ Len(W(k + 1)) = k + 1
          /\ W(k) \in Seq(Seq(Chars)) /\ Len(W(k)) = k
      BY <1>1, <1>3
    <3>9. w(k + 1) \in Seq(Chars)
      BY <1>1, <1>2
    <3>2. \A i \in 1..(k + 1) : W(k + 1)[i] = w(i)
      OBVIOUS
    <3>3. \A i \in 1..k : W(k)[i] = w(i)
      OBVIOUS
    <3> DEFINE A == Append(W(k), w(k + 1))
    <3> HIDE DEF W
    <3>4. A \in Seq(Seq(Chars)) /\ Len(A) = k + 1
      BY <3>1, <3>9
    <3>5. ASSUME NEW i \in 1..(k + 1) PROVE A[i] = w(i)
      <4>1. CASE i \in 1..k
        <5>1. A[i] = W(k)[i]
          BY <3>1, <4>1
        <5> QED BY <3>3, <4>1, <5>1
      <4>2. CASE i = k + 1
        <5>1. A[k + 1] = w(k + 1)
          BY <3>1, <3>9
        <5> HIDE DEF A
        <5> QED BY <4>2, <5>1
      <4>3. i \in 1..k \/ i = k + 1
        OBVIOUS
      <4> QED BY <4>1, <4>2, <4>3
    <3> HIDE DEF A
    <3>6. W(k + 1) = A
      BY <3>1, <3>2, <3>4, <3>5, SeqEqual
    <3> QED BY <3>6 DEF A
  <2>2. FlattenSeq(W(k)) = SubSeq(b, 1, k * WordSize)
    BY <1>1, <1>5
  <2>3. FlattenSeq(W(k + 1)) = FlattenSeq(W(k)) \o w(k + 1)
    <3>1. W(k) \in Seq(Seq(Chars)) /\ w(k + 1) \in Seq(Chars)
      BY <1>1, <1>2, <1>3
    <3> HIDE DEF W
    <3> QED BY <2>1, <3>1, FlattenAppend
  <2>4. w(k + 1) = SubSeq(b, k * WordSize + 1, (k + 1) * WordSize)
    <3>1. (k + 1) - 1 = k
      OBVIOUS
    <3> QED BY <3>1 DEF w
  <2>5. k * WordSize \in Nat /\ (k + 1) * WordSize \in Nat /\ k * WordSize <= (k + 1) * WordSize
        /\ (k + 1) * WordSize <= Len(b)
    BY <1>1 DEF WordSize
  <2>6. SubSeq(b, 1, k * WordSize) \o SubSeq(b, k * WordSize + 1, (k + 1) * WordSize)
          = SubSeq(b, 1, (k + 1) * WordSize)
    BY <2>5, SubSeqCat
  <2> HIDE DEF W
  <2> QED BY <2>2, <2>3, <2>4, <2>6
<1> HIDE DEF T, W
<1>6. n \in T
  BY <1>1, <1>4, <1>5, Induction
<1>7. FlattenSeq(W(n)) = SubSeq(b, 1, n * WordSize)
  BY <1>1, <1>6 DEF T
<1>8. WordsOf(b) = W(n)
  BY DEF WordsOf, W, n, w
<1>9. n * WordSize \in Nat
  BY <1>1 DEF WordSize
<1>10. RestOf(b) = SubSeq(b, n * WordSize + 1, Len(b))
  BY DEF RestOf, n
<1>11. RestOf(b) \in Seq(Chars) /\ Len(RestOf(b)) = Len(b) - n * WordSize
  BY <1>1, <1>9, <1>10
<1>12. SubSeq(b, 1, n * WordSize) \o SubSeq(b, n * WordSize + 1, Len(b)) = b
  <2>1. SubSeq(b, 1, Len(b)) = b
    OBVIOUS
  <2> DEFINE m == n * WordSize
  <2>2. m \in Nat /\ m <= Len(b)
    BY <1>1, <1>9
  <2> HIDE DEF m
  <2>3. \A j \in Nat : m <= j /\ j <= Len(b)
          => SubSeq(b, 1, m) \o SubSeq(b, m + 1, j) = SubSeq(b, 1, j)
    BY <2>2, SubSeqCat
  <2>4. SubSeq(b, 1, m) \o SubSeq(b, m + 1, Len(b)) = SubSeq(b, 1, Len(b))
    <3>1. Len(b) \in Nat /\ Len(b) <= Len(b)
      BY <1>1
    <3> QED BY <2>2, <2>3, <3>1, Zenon
  <2> QED BY <2>1, <2>4 DEF m
<1>13. WordSize \in Nat
  BY DEF WordSize
<1>14. Len(RestOf(b)) < WordSize
  BY <1>1, <1>9, <1>11, <1>13
<1>15. WordsOf(b) \in Seq(Seq(Chars))
  BY <1>1, <1>3, <1>8
<1>16. FlattenSeq(WordsOf(b)) \o RestOf(b) = b
  BY <1>7, <1>8, <1>10, <1>12
<1> QED BY <1>11, <1>14, <1>15, <1>16

----------------------------------------------------------------------------
(* The streams: LineInv is inductive, and gives CutsDoNotShow.             *)

\* The tokenizer keeps something of a text exactly if it does not end in a line feed.
LEMMA Unended ==
  ASSUME NEW s \in Seq(Chars)
  PROVE  (s # <<>> /\ Last(s) # LF) <=> Cut[s].rest # <<>>
<1>1. CASE s = <<>>
  <2>1. Cut[<<>>].rest = <<>>
    BY <1>1, CutIsParsed, ParsedEmpty
  <2> QED BY <1>1, <2>1
<1>2. CASE s # <<>>
  <2> DEFINE n == Len(s)
             front == SubSeq(s, 1, n - 1)
             c == s[n]
  <2>1. n \in Nat \ {0}
    BY <1>2, EmptySeq
  <2>2. front \in Seq(Chars) /\ c \in Chars /\ s = Append(front, c) /\ Last(s) = c
    BY <2>1 DEF Last
  <2> HIDE DEF front, c
  <2>3. Cut[Append(front, c)] = Longer(Cut[front], c)
    BY <2>2, CutByCharacter
  <2>4. Cut[front].rest \in Seq(Chars)
    BY <2>2, CutType DEF CutResult
  <2>5. Append(Cut[front].rest, c) # <<>>
    BY <2>2, <2>4
  <2> QED BY <1>2, <2>2, <2>3, <2>5 DEF Longer
<1> QED BY <1>1, <1>2

\* The line without a line feed is what the tokenizer keeps.
LEMMA CleanTail ==
  ASSUME NEW s \in Seq(Chars)
  PROVE  LineEndingAt(s, Len(s) + 1) = CleanLine(Cut[s].rest)
<1>1. Cut[s].rest = SubSeq(s, Start(s, Len(s) + 1), Len(s))
  <2>1. Cut[s] = Parsed(s)
    BY CutIsParsed
  <2>2. Parsed(s).rest = TailOf(s)
    BY DEF Parsed
  <2> QED BY <2>1, <2>2 DEF TailOf
<1>2. (Len(s) + 1) - 1 = Len(s)
  OBVIOUS
<1> QED BY <1>1, <1>2, LineEndingAtStart

Lines == 
  /\ body \in Seq(Chars) /\ flushed \in BOOLEAN
  /\ buffer = Cut[body].rest
  /\ linesOut = IF flushed /\ buffer # <<>> THEN Append(Cut[body].out, CleanLine(buffer))
                ELSE Cut[body].out

Numbers ==
  /\ idx \in Nat /\ eventsOut \in Seq(Event)
  /\ Ordered(eventsOut, ById)
  /\ \A i \in DOMAIN eventsOut : eventsOut[i].id < idx
  /\ Mapped(LineOf, eventsOut) = Only(linesOut, EventLines)

Words ==
  /\ wordsOut \in Seq(Seq(Chars)) /\ pending \in Seq(Chars)
  /\ Len(pending) < WordSize
  /\ FlattenSeq(wordsOut) \o pending = body

LineInv == Lines /\ Numbers /\ Words

\* The types that Lines gives.
LEMMA LinesType ==
  ASSUME Lines
  PROVE  /\ buffer \in Seq(Chars) /\ linesOut \in Seq(Seq(Chars))
<1>1. Cut[body].rest \in Seq(Chars) /\ Cut[body].out \in Seq(Seq(Chars))
  BY CutType DEF Lines, CutResult
<1>2. CleanLine(buffer) \in Seq(Chars)
  BY <1>1, CleanLineType DEF Lines
<1>3. Append(Cut[body].out, CleanLine(buffer)) \in Seq(Seq(Chars))
  BY <1>1, <1>2
<1> QED BY <1>1, <1>3 DEF Lines

\* Lines handed on get the next numbers.
LEMMA NumbersGrow ==
  ASSUME Numbers, linesOut \in Seq(Seq(Chars)), NEW new \in Seq(Seq(Chars)),
         linesOut' = linesOut \o new,
         eventsOut' = eventsOut \o Decoded(new, idx),
         idx' = idx + Len(Only(new, ParsedLines))
  PROVE  Numbers'
<1> DEFINE d == Decoded(new, idx)
           p == Len(Only(new, ParsedLines))
           e == eventsOut
           n == Len(e)
           t == e \o d
<1>0. e \in Seq(Event) /\ idx \in Nat /\ Ordered(e, ById) /\ Mapped(LineOf, e) = Only(linesOut, EventLines)
      /\ \A i \in DOMAIN e : e[i].id < idx
  BY DEF Numbers
<1>1. Only(new, ParsedLines) \in Seq(Seq(Chars)) /\ d \in Seq(Event) /\ Ordered(d, ById)
      /\ Mapped(LineOf, d) = Only(new, EventLines)
      /\ \A i \in DOMAIN d : idx <= d[i].id /\ d[i].id < idx + p
  BY <1>0, DecodedFacts
<1> HIDE DEF d, e
<1>2. p \in Nat /\ n \in Nat /\ Len(d) \in Nat /\ DOMAIN e = 1..n /\ DOMAIN d = 1..Len(d)
  BY <1>0, <1>1
<1> HIDE DEF p
<1>3. t \in Seq(Event) /\ Len(t) = n + Len(d)
      /\ (\A i \in 1..n : t[i] = e[i]) /\ \A i \in 1..Len(d) : t[n + i] = d[i]
  BY <1>0, <1>1, CatAt
<1> HIDE DEF t
<1>4. DOMAIN t = 1..(n + Len(d))
  BY <1>3
<1>5. ASSUME NEW i \in DOMAIN t, i \notin 1..n
      PROVE  i - n \in 1..Len(d) /\ t[i] = d[i - n]
  <2>1. i - n \in 1..Len(d) /\ n + (i - n) = i
    BY <1>2, <1>4, <1>5
  <2> QED BY <1>3, <2>1
<1>6. ASSUME NEW i \in 1..Len(d) PROVE d[i] \in Event /\ idx <= d[i].id /\ d[i].id < idx + p
  <2>1. d[i] \in Event
    BY <1>1
  <2> QED BY <1>1, <1>2, <2>1
<1>7. ASSUME NEW i \in 1..n PROVE e[i] \in Event /\ e[i].id < idx
  <2>1. e[i] \in Event
    BY <1>0
  <2> QED BY <1>0, <1>2, <2>1
<1>8. ASSUME NEW i \in DOMAIN t PROVE t[i].id < idx + p
  <2>1. CASE i \in 1..n
    <3>1. t[i].id < idx /\ t[i].id \in Nat
      BY <1>3, <1>7, <2>1 DEF Event
    <3> QED BY <1>0, <1>2, <3>1
  <2>2. CASE i \notin 1..n
    BY <1>5, <1>6, <2>2
  <2> QED BY <2>1, <2>2
<1>9. ASSUME NEW i \in DOMAIN t, NEW j \in DOMAIN t, i < j
      PROVE  <<t[i], t[j]>> \in ById
  <2>1. CASE j \in 1..n
    <3>1. i \in 1..n
      BY <1>2, <1>4, <1>9, <2>1
    <3>2. <<e[i], e[j]>> \in ById
      BY <1>0, <1>2, <1>9, <2>1, <3>1 DEF Ordered
    <3> QED BY <1>3, <2>1, <3>1, <3>2
  <2>2. CASE j \notin 1..n /\ i \in 1..n
    <3>1. t[i] = e[i] /\ t[j] = d[j - n] /\ j - n \in 1..Len(d)
      BY <1>3, <1>5, <2>2
    <3>2. t[i] \in Event /\ t[j] \in Event /\ t[i].id < idx /\ idx <= t[j].id
      BY <1>6, <1>7, <2>2, <3>1
    <3>3. t[i].id \in Nat /\ t[j].id \in Nat
      BY <3>2 DEF Event
    <3>4. t[i].id < t[j].id
      BY <1>0, <3>2, <3>3
    <3> QED BY <3>2, <3>4 DEF ById
  <2>3. CASE j \notin 1..n /\ i \notin 1..n
    <3>1. t[i] = d[i - n] /\ t[j] = d[j - n] /\ i - n \in DOMAIN d /\ j - n \in DOMAIN d
      BY <1>2, <1>5, <2>3
    <3>2. i - n < j - n
      BY <1>2, <1>4, <1>9
    <3> QED BY <1>1, <3>1, <3>2 DEF Ordered
  <2> QED BY <2>1, <2>2, <2>3
<1>10. Ordered(t, ById)
  BY <1>9 DEF Ordered
<1>11. Mapped(LineOf, t) = Mapped(LineOf, e) \o Mapped(LineOf, d)
  BY <1>0, <1>1, MappedCat DEF t
<1>12. Mapped(LineOf, t) = Only(linesOut \o new, EventLines)
  <2>1. Only(linesOut \o new, EventLines) = Only(linesOut, EventLines) \o Only(new, EventLines)
    BY OnlyCat
  <2> QED BY <1>0, <1>1, <1>11, <2>1
<1>13. eventsOut' = t /\ idx' = idx + p /\ linesOut' = linesOut \o new /\ idx' \in Nat
  BY <1>0, <1>2 DEF t, e, d, p
<1> QED BY <1>3, <1>8, <1>10, <1>12, <1>13 DEF Numbers

\* LineInit establishes LineInv.
LEMMA LineInvInit == LineInit => LineInv
<1> SUFFICES ASSUME LineInit PROVE LineInv
  OBVIOUS
<1>1. Cut[<<>>] = [out |-> <<>>, rest |-> <<>>]
  BY ParsedEmpty
<1>2. Lines
  <2>1. <<>> \in Seq(Chars)
    OBVIOUS
  <2>2. Cut[body].rest = <<>> /\ Cut[body].out = <<>>
    BY <1>1 DEF LineInit
  <2> QED BY <2>1, <2>2 DEF Lines, LineInit
<1>3. Numbers
  <2>1. <<>> \in Seq(Event) /\ 0 \in Nat
    OBVIOUS
  <2>2. Ordered(<<>>, ById) /\ Mapped(LineOf, <<>>) = <<>> /\ DOMAIN <<>> = {}
    BY DEF Ordered, Mapped
  <2> QED BY <2>1, <2>2, OnlyEmpty DEF Numbers, LineInit
<1>4. Words
  <2>1. <<>> \in Seq(Chars) /\ <<>> \in Seq(Seq(Chars)) /\ <<>> \o <<>> = <<>> /\ Len(<<>>) < WordSize
    BY DEF WordSize
  <2> QED BY <2>1, FlattenEmpty DEF Words, LineInit
<1> QED BY <1>2, <1>3, <1>4 DEF LineInv

\* A chunk, cut anywhere, keeps LineInv.
LEMMA ChunkKeepsLineInv ==
  ASSUME LineInv, NEW chunk \in Seq(Chars), ChunkArrives(chunk)
  PROVE  LineInv'
<1> DEFINE c == Cut[buffer \o chunk]
           b == pending \o chunk
<1>1. buffer \in Seq(Chars) /\ linesOut \in Seq(Seq(Chars))
  BY LinesType DEF LineInv
<1>2. buffer \o chunk \in Seq(Chars)
  BY <1>1
<1>3. c \in CutResult
  BY <1>2, CutType
<1> HIDE DEF c
<1>4. /\ ~flushed /\ flushed' = flushed
      /\ body' = body \o chunk /\ buffer' = c.rest
      /\ linesOut' = linesOut \o c.out
      /\ eventsOut' = eventsOut \o Decoded(c.out, idx)
      /\ idx' = idx + Len(Only(c.out, ParsedLines))
      /\ pending' = RestOf(b) /\ wordsOut' = wordsOut \o WordsOf(b)
  BY DEF ChunkArrives, Tokenize, c
<1>5. Lines'
  <2>1. body \in Seq(Chars) /\ buffer = Cut[body].rest /\ linesOut = Cut[body].out
    BY <1>4 DEF LineInv, Lines
  <2>2. Cut[body \o chunk].out = Cut[body].out \o c.out /\ Cut[body \o chunk].rest = c.rest
    BY <2>1, CutContinues DEF c
  <2>3. body \o chunk \in Seq(Chars)
    BY <2>1
  <2> QED BY <1>4, <2>1, <2>2, <2>3 DEF LineInv, Lines
<1>6. Numbers'
  <2>1. c.out \in Seq(Seq(Chars))
    BY <1>3 DEF CutResult
  <2> QED BY <1>1, <1>4, <2>1, NumbersGrow DEF LineInv
<1>7. Words'
  <2>1. wordsOut \in Seq(Seq(Chars)) /\ pending \in Seq(Chars) /\ body \in Seq(Chars)
        /\ FlattenSeq(wordsOut) \o pending = body
    BY DEF LineInv, Words, Lines
  <2>2. b \in Seq(Chars)
    BY <2>1
  <2> HIDE DEF b
  <2>3. /\ WordsOf(b) \in Seq(Seq(Chars)) /\ RestOf(b) \in Seq(Chars)
        /\ Len(RestOf(b)) < WordSize /\ FlattenSeq(WordsOf(b)) \o RestOf(b) = b
    BY <2>2, WordsAndRest
  <2> DEFINE W == WordsOf(b)
             R == RestOf(b)
             o == FlattenSeq(wordsOut)
             w == FlattenSeq(W)
  <2>4. FlattenSeq(wordsOut \o W) = o \o w /\ o \in Seq(Chars) /\ w \in Seq(Chars)
    BY <2>1, <2>3, FlattenCat, FlattenType
  <2>5. wordsOut \o W \in Seq(Seq(Chars))
    BY <2>1, <2>3
  <2>10. R \in Seq(Chars)
    BY <2>3
  <2> HIDE DEF o, w, R
  <2>6. (o \o w) \o R = o \o (w \o R)
    BY <2>4, <2>10, CatAssoc
  <2>7. w \o R = pending \o chunk
    BY <2>3 DEF w, R, b
  <2>8. o \o (pending \o chunk) = (o \o pending) \o chunk
    <3>1. o \in Seq(Chars) /\ pending \in Seq(Chars) /\ chunk \in Seq(Chars)
      BY <2>1, <2>4
    <3> QED BY <3>1, CatAssoc
  <2>9. FlattenSeq(wordsOut \o W) \o R = body \o chunk
    BY <2>1, <2>4, <2>6, <2>7, <2>8 DEF o
  <2> QED BY <1>4, <2>3, <2>5, <2>9 DEF Words, R
<1> QED BY <1>5, <1>6, <1>7 DEF LineInv

\* The end of the body keeps LineInv.
LEMMA FlushKeepsLineInv ==
  ASSUME LineInv, Flush
  PROVE  LineInv'
<1> DEFINE last == IF buffer = <<>> THEN <<>> ELSE <<CleanLine(buffer)>>
<1>1. buffer \in Seq(Chars) /\ linesOut \in Seq(Seq(Chars))
  BY LinesType DEF LineInv
<1>2. last \in Seq(Seq(Chars))
  <2>1. CleanLine(buffer) \in Seq(Chars)
    BY <1>1, CleanLineType
  <2>2. <<>> \in Seq(Seq(Chars)) /\ <<CleanLine(buffer)>> \in Seq(Seq(Chars))
    BY <2>1
  <2> QED BY <2>2
<1>3. linesOut \o last = IF buffer # <<>> THEN Append(linesOut, CleanLine(buffer)) ELSE linesOut
  <2>1. CleanLine(buffer) \in Seq(Chars)
    BY <1>1, CleanLineType
  <2>2. linesOut \o <<>> = linesOut /\ linesOut \o <<CleanLine(buffer)>> = Append(linesOut, CleanLine(buffer))
    BY <1>1, <2>1
  <2> QED BY <2>2
<1> HIDE DEF last
<1>4. /\ ~flushed /\ flushed' = TRUE
      /\ linesOut' = linesOut \o last
      /\ eventsOut' = eventsOut \o Decoded(last, idx)
      /\ idx' = idx + Len(Only(last, ParsedLines))
      /\ body' = body /\ buffer' = buffer /\ pending' = pending /\ wordsOut' = wordsOut
  BY DEF Flush, last
<1>5. Lines'
  BY <1>3, <1>4 DEF LineInv, Lines
<1>6. Numbers'
  BY <1>1, <1>2, <1>4, NumbersGrow DEF LineInv
<1>7. Words'
  BY <1>4 DEF LineInv, Words
<1> QED BY <1>5, <1>6, <1>7 DEF LineInv

\* LineInv is inductive.
LEMMA LineInvStep == LineInv /\ [LineNext]_lineVars => LineInv'
<1> SUFFICES ASSUME LineInv, [LineNext]_lineVars PROVE LineInv'
  OBVIOUS
<1>1. ASSUME NEW chunk \in Chunks, ChunkArrives(chunk) PROVE LineInv'
  <2>1. chunk \in Seq(Chars)
    <3>1. PICK n \in 1..3 : chunk \in [1..n -> Chars]
      BY DEF Chunks
    <3>2. n \in Nat
      BY <3>1
    <3> QED BY <3>1, <3>2
  <2> QED BY <1>1, <2>1, ChunkKeepsLineInv
<1>2. CASE Flush
  BY <1>2, FlushKeepsLineInv
<1>3. CASE UNCHANGED lineVars
  BY <1>3 DEF LineInv, Lines, Numbers, Words, lineVars
<1> QED BY <1>1, <1>2, <1>3 DEF LineNext

\* The property, from the invariant.
LEMMA LineInvMeans == LineInv => CutsDoNotShow
<1> SUFFICES ASSUME LineInv PROVE CutsDoNotShow
  OBVIOUS
<1>1. LinesAreThoseOfBody
  <2>1. body \in Seq(Chars) /\ buffer = Cut[body].rest
    BY DEF LineInv, Lines
  <2>2. Cut[body].out = LinesOf(body)
    <3>1. Cut[body] = Parsed(body)
      BY <2>1, CutIsParsed
    <3>2. Parsed(body).out = LinesOf(body)
      BY DEF Parsed
    <3> QED BY <3>1, <3>2
  <2>3. (body # <<>> /\ Last(body) # LF) <=> buffer # <<>>
    BY <2>1, Unended
  <2>4. LineEndingAt(body, Len(body) + 1) = CleanLine(buffer)
    BY <2>1, CleanTail
  <2> QED BY <2>2, <2>3, <2>4 DEF LineInv, Lines, LinesAreThoseOfBody, LinesOf
<1>2. EventNumbersDistinct
  <2>1. eventsOut \in Seq(Event) /\ Ordered(eventsOut, ById)
        /\ Mapped(LineOf, eventsOut) = Only(linesOut, EventLines)
    BY DEF LineInv, Numbers
  <2>2. ASSUME NEW i \in DOMAIN eventsOut, NEW j \in DOMAIN eventsOut, i < j
        PROVE  eventsOut[i].id < eventsOut[j].id
    <3>1. <<eventsOut[i], eventsOut[j]>> \in ById
      BY <2>1, <2>2 DEF Ordered
    <3> QED BY <3>1 DEF ById
  <2>3. \A i \in DOMAIN eventsOut : eventsOut[i].line = LineOf[eventsOut[i]]
    BY <2>1 DEF LineOf
  <2>4. [i \in DOMAIN eventsOut |-> eventsOut[i].line] = Mapped(LineOf, eventsOut)
    BY <2>3 DEF Mapped
  <2> QED BY <2>1, <2>2, <2>4 DEF EventNumbersDistinct
<1>3. WordsAreThoseOfBody
  BY DEF LineInv, Words, WordsAreThoseOfBody
<1> QED BY <1>1, <1>2, <1>3 DEF CutsDoNotShow

\* Wherever the network cuts a body of any length, with any characters, the lines of
\* LineTokenizer, the events of JSONLineDecoder and EventAdapter and the words of the
\* parser are those of the body as a whole.
THEOREM CutsNeverShow == LineSpec => []CutsDoNotShow
<1>1. LineInit => LineInv
  BY LineInvInit
<1>2. LineInv /\ [LineNext]_lineVars => LineInv'
  BY LineInvStep
<1>3. LineInv => CutsDoNotShow
  BY LineInvMeans
<1> QED BY <1>1, <1>2, <1>3, PTL DEF LineSpec

----------------------------------------------------------------------------
(* More about Only and Reverse.                                            *)

\* Only of Only keeps what is in both sets.
LEMMA OnlyBoth ==
  ASSUME NEW X, NEW S, NEW U
  PROVE  \A s \in Seq(X) : Only(Only(s, S), U) = Only(s, S \cap U)
<1> DEFINE V == S \cap U
           Y == X \cap S
<1>1. \A s \in Seq(X) : Only(s, S) \in Seq(Y)
  BY OnlyType
<1>2. Y \cap V = Y \cap U /\ X \cap V \subseteq S
  OBVIOUS
<1> HIDE DEF V, Y
<1>3. \A q \in Seq(Y) : Only(q, U) = Only(q, V)
  BY <1>2, OnlySame
<1>4. \A s \in Seq(X) : Only(Only(s, S), V) = Only(s, V)
  BY <1>2, OnlyTwice
<1>5. \A s \in Seq(X) : Only(Only(s, S), U) = Only(s, V)
  BY <1>1, <1>3, <1>4
<1> QED BY <1>5 DEF V

\* Only of a sequence of one element.
LEMMA OnlyOne ==
  ASSUME NEW S, NEW x
  PROVE  Only(<<x>>, S) = IF x \in S THEN <<x>> ELSE <<>>
<1>1. <<>> \in Seq({x}) /\ x \in {x} /\ Append(<<>>, x) = <<x>>
  OBVIOUS
<1>2. Only(Append(<<>>, x), S) = IF x \in S THEN Append(Only(<<>>, S), x) ELSE Only(<<>>, S)
  BY <1>1, OnlyAppend
<1> QED BY <1>1, <1>2, OnlyEmpty

\* Reverse.
LEMMA ReverseEmpty == Reverse(<<>>) = <<>>
BY DEF Reverse

\* The elements of a reversed sequence.
LEMMA ReverseFacts ==
  ASSUME NEW X, NEW s \in Seq(X)
  PROVE  /\ Reverse(s) \in Seq(X) /\ Len(Reverse(s)) = Len(s)
         /\ \A i \in 1..Len(s) : Reverse(s)[i] = s[Len(s) - i + 1]
BY DEF Reverse

\* Reverse of a sequence with one more element.
LEMMA ReverseAppend ==
  ASSUME NEW X, NEW s \in Seq(X), NEW x \in X
  PROVE  Reverse(Append(s, x)) = <<x>> \o Reverse(s)
<1> DEFINE n == Len(s)
           t == Append(s, x)
           a == Reverse(t)
           r == Reverse(s)
           b == <<x>> \o r
<1>1. t \in Seq(X) /\ Len(t) = n + 1 /\ t[n + 1] = x /\ n \in Nat /\ \A i \in 1..n : t[i] = s[i]
  OBVIOUS
<1>2. r \in Seq(X) /\ Len(r) = n /\ \A i \in 1..n : r[i] = s[n - i + 1]
  BY ReverseFacts
<1> HIDE DEF t, n, r
<1>3. a \in Seq(X) /\ Len(a) = n + 1 /\ \A i \in 1..(n + 1) : a[i] = t[(n + 1) - i + 1]
  BY <1>1, ReverseFacts
<1> HIDE DEF a
<1>4. b \in Seq(X) /\ Len(b) = n + 1 /\ b[1] = x /\ \A i \in 1..n : b[i + 1] = r[i]
  BY <1>1, <1>2
<1> HIDE DEF b
<1>5. ASSUME NEW i \in 1..(n + 1) PROVE a[i] = b[i]
  <2>1. CASE i = 1
    <3>1. (n + 1) - 1 + 1 = n + 1 /\ 1 \in 1..(n + 1)
      BY <1>1
    <3> QED BY <1>1, <1>3, <1>4, <2>1, <3>1
  <2>2. CASE i # 1
    <3>1. i - 1 \in 1..n /\ (i - 1) + 1 = i /\ (n + 1) - i + 1 = n - (i - 1) + 1
          /\ n - (i - 1) + 1 \in 1..n
      BY <1>1, <2>2
    <3>2. a[i] = s[n - (i - 1) + 1]
      BY <1>1, <1>3, <3>1
    <3>3. b[(i - 1) + 1] = s[n - (i - 1) + 1]
      BY <1>2, <1>4, <3>1
    <3> QED BY <3>1, <3>2, <3>3
  <2> QED BY <2>1, <2>2
<1>6. a = b
  BY <1>1, <1>3, <1>4, <1>5, SeqEqual
<1> QED BY <1>6 DEF a, b, t, r

\* Only of a reversed sequence.
LEMMA OnlyReverse ==
  ASSUME NEW X, NEW S
  PROVE  \A s \in Seq(X) : Only(Reverse(s), S) = Reverse(Only(s, S))
<1> DEFINE T == {s \in Seq(X) : Only(Reverse(s), S) = Reverse(Only(s, S))}
<1>1. <<>> \in T
  <2>1. <<>> \in Seq(X)
    OBVIOUS
  <2> QED BY <2>1, OnlyEmpty, ReverseEmpty
<1>2. ASSUME NEW s \in Seq(X), NEW x \in X, s \in T PROVE Append(s, x) \in T
  <2> DEFINE o == Only(s, S)
  <2>1. Only(Append(s, x), S) = IF x \in S THEN Append(o, x) ELSE o
    BY OnlyAppend
  <2>2. o \in Seq(X) /\ Reverse(o) \in Seq(X) /\ Reverse(s) \in Seq(X) /\ <<x>> \in Seq(X)
    BY OnlyInSeq, ReverseFacts
  <2>3. Only(Reverse(s), S) = Reverse(o)
    BY <1>2
  <2> HIDE DEF o
  <2>4. Only(<<x>> \o Reverse(s), S) = Only(<<x>>, S) \o Only(Reverse(s), S)
    BY <2>2, OnlyCat
  <2>5. Reverse(Append(s, x)) = <<x>> \o Reverse(s)
    BY ReverseAppend
  <2>6. Reverse(Append(o, x)) = <<x>> \o Reverse(o)
    BY <2>2, ReverseAppend
  <2>7. <<>> \o Reverse(o) = Reverse(o)
    BY <2>2
  <2>8. Only(Reverse(Append(s, x)), S) = Reverse(Only(Append(s, x), S))
    BY <2>1, <2>3, <2>4, <2>5, <2>6, <2>7, OnlyOne
  <2>9. Append(s, x) \in Seq(X)
    OBVIOUS
  <2> QED BY <2>8, <2>9
<1> HIDE DEF T
<1>3. \A s \in Seq(X) : s \in T
  BY <1>1, <1>2, SeqInduction
<1> QED BY <1>3 DEF T

\* The elements of a reversed sequence, and its last one.
LEMMA ReverseRange ==
  ASSUME NEW X, NEW s \in Seq(X)
  PROVE  ToSet(Reverse(s)) = ToSet(s)
<1> DEFINE r == Reverse(s)
           n == Len(s)
<1>1. r \in Seq(X) /\ Len(r) = n /\ \A i \in 1..n : r[i] = s[n - i + 1]
  BY ReverseFacts
<1>2. DOMAIN s = 1..n /\ n \in Nat
  OBVIOUS
<1> HIDE DEF r, n
<1>3. DOMAIN r = 1..n
  BY <1>1
<1>4. \A i \in 1..n : n - i + 1 \in 1..n /\ n - (n - i + 1) + 1 = i
  BY <1>2
<1>5. \A i \in 1..n : s[i] = r[n - i + 1]
  BY <1>1, <1>4
<1>6. ToSet(r) = {r[i] : i \in 1..n} /\ ToSet(s) = {s[i] : i \in 1..n}
  BY <1>2, <1>3 DEF ToSet
<1>7. \A i \in 1..n : r[i] \in ToSet(s)
  BY <1>1, <1>4, <1>6
<1>8. \A i \in 1..n : s[i] \in ToSet(r)
  BY <1>4, <1>5, <1>6
<1>9. ToSet(r) = ToSet(s)
  BY <1>6, <1>7, <1>8
<1> QED BY <1>9 DEF r

\* The last element of a reversed sequence.
LEMMA LastOfReverse ==
  ASSUME NEW X, NEW s \in Seq(X), s # <<>>
  PROVE  Reverse(s) # <<>> /\ Last(Reverse(s)) = s[1]
<1>1. Len(s) \in Nat \ {0}
  BY EmptySeq
<1>2. Len(Reverse(s)) = Len(s) /\ Reverse(s)[Len(s)] = s[Len(s) - Len(s) + 1] /\ Reverse(s) \in Seq(X)
  BY <1>1, ReverseFacts
<1> QED BY <1>1, <1>2 DEF Last

\* The elements of a sequence with one more.
LEMMA ToSetAppend ==
  ASSUME NEW X, NEW s \in Seq(X), NEW x \in X
  PROVE  ToSet(Append(s, x)) = ToSet(s) \cup {x}
<1>1. Append(s, x)[Len(s) + 1] = x /\ \A i \in 1..Len(s) : Append(s, x)[i] = s[i]
  OBVIOUS
<1>2. DOMAIN s = 1..Len(s) /\ DOMAIN Append(s, x) = 1..(Len(s) + 1) /\ Len(s) \in Nat
  OBVIOUS
<1>3. 1..(Len(s) + 1) = (1..Len(s)) \cup {Len(s) + 1}
  BY <1>2
<1> QED BY <1>1, <1>2, <1>3 DEF ToSet

\* A sequence stays in order with a last element behind all others.
LEMMA OrderedAppend ==
  ASSUME NEW X, NEW s \in Seq(X), NEW x \in X, NEW R, Ordered(s, R),
         \A y \in ToSet(s) : <<y, x>> \in R
  PROVE  Ordered(Append(s, x), R)
<1>1. DOMAIN s = 1..Len(s) /\ DOMAIN Append(s, x) = 1..(Len(s) + 1) /\ Len(s) \in Nat
      /\ Append(s, x)[Len(s) + 1] = x /\ \A i \in 1..Len(s) : Append(s, x)[i] = s[i]
  OBVIOUS
<1> DEFINE t == Append(s, x)
           n == Len(s)
<1> HIDE DEF t, n
<1>2. ASSUME NEW i \in DOMAIN t, NEW j \in DOMAIN t, i < j
      PROVE  <<t[i], t[j]>> \in R
  <2>0. DOMAIN s = 1..n /\ DOMAIN t = 1..(n + 1) /\ n \in Nat /\ t[n + 1] = x
        /\ \A k \in 1..n : t[k] = s[k]
    BY <1>1 DEF t, n
  <2>1. i \in 1..n /\ t[i] = s[i] /\ (j \in 1..n \/ j = n + 1)
    BY <1>2, <2>0
  <2>2. CASE j \in 1..n
    BY <1>2, <2>0, <2>1, <2>2 DEF Ordered
  <2>3. CASE j = n + 1
    BY <2>0, <2>1, <2>3 DEF ToSet
  <2> QED BY <2>1, <2>2, <2>3
<1> QED BY <1>2 DEF Ordered, t

\* The last element kept of sequences put together is that of the last of them
\* from which something is kept.
LEMMA LastOfFlatten ==
  ASSUME NEW X, NEW S
  PROVE  \A ss \in Seq(Seq(X)) :
           Only(FlattenSeq(ss), S) # <<>> =>
             \E k \in DOMAIN ss :
               /\ Only(ss[k], S) # <<>>
               /\ \A j \in DOMAIN ss : j > k => Only(ss[j], S) = <<>>
               /\ Last(Only(FlattenSeq(ss), S)) = Last(Only(ss[k], S))
<1> DEFINE Good(ss) ==
             Only(FlattenSeq(ss), S) # <<>> =>
               \E k \in DOMAIN ss :
                 /\ Only(ss[k], S) # <<>>
                 /\ \A j \in DOMAIN ss : j > k => Only(ss[j], S) = <<>>
                 /\ Last(Only(FlattenSeq(ss), S)) = Last(Only(ss[k], S))
           T == {ss \in Seq(Seq(X)) : Good(ss)}
<1>1. <<>> \in T
  <2>1. <<>> \in Seq(Seq(X)) /\ Only(FlattenSeq(<<>>), S) = <<>>
    BY FlattenEmpty, OnlyEmpty
  <2> QED BY <2>1
<1>2. ASSUME NEW ss \in Seq(Seq(X)), NEW w \in Seq(X), ss \in T PROVE Append(ss, w) \in T
  <2> DEFINE t == Append(ss, w)
             n == Len(ss)
             a == Only(FlattenSeq(ss), S)
             b == Only(w, S)
             c == Only(FlattenSeq(t), S)
  <2>1. t \in Seq(Seq(X)) /\ Len(t) = n + 1 /\ t[n + 1] = w /\ n \in Nat
        /\ DOMAIN t = 1..(n + 1) /\ DOMAIN ss = 1..n
        /\ \A i \in 1..n : t[i] = ss[i]
    OBVIOUS
  <2>2. FlattenSeq(t) = FlattenSeq(ss) \o w /\ FlattenSeq(ss) \in Seq(X)
    BY FlattenAppend, FlattenType
  <2>3. c = a \o b
    BY <2>2, OnlyCat
  <2>4. a \in Seq(X) /\ b \in Seq(X)
    BY <2>2, OnlyInSeq
  <2>5. Good(ss)
    BY <1>2
  <2> HIDE DEF t, n, b
  <2>6. CASE b # <<>>
    <3>1. Last(a \o b) = Last(b)
      <4> HIDE DEF a
      <4>1. Len(b) \in Nat \ {0}
        BY <2>4, <2>6, EmptySeq
      <4>2. Len(a \o b) = Len(a) + Len(b) /\ Len(a) \in Nat
            /\ \A m \in 1..Len(b) : (a \o b)[Len(a) + m] = b[m]
        BY <2>4
      <4> QED BY <4>1, <4>2 DEF Last
    <3>2. n + 1 \in DOMAIN t /\ Only(t[n + 1], S) = b
          /\ \A j \in DOMAIN t : ~(j > n + 1)
      BY <2>1 DEF b
    <3>3. Good(t)
      BY <2>3, <2>6, <3>1, <3>2
    <3> QED BY <2>1, <3>3 DEF t
  <2>7. CASE b = <<>>
    <3>1. c = a
      <4> HIDE DEF a, c
      <4> QED BY <2>3, <2>4, <2>7
    <3>2. ASSUME c # <<>> PROVE \E k \in DOMAIN t :
                 /\ Only(t[k], S) # <<>>
                 /\ \A j \in DOMAIN t : j > k => Only(t[j], S) = <<>>
                 /\ Last(c) = Last(Only(t[k], S))
      <4>1. PICK k \in DOMAIN ss :
              /\ Only(ss[k], S) # <<>>
              /\ \A j \in DOMAIN ss : j > k => Only(ss[j], S) = <<>>
              /\ Last(a) = Last(Only(ss[k], S))
        BY <2>5, <3>1, <3>2
      <4>2. k \in DOMAIN t /\ t[k] = ss[k]
        BY <2>1
      <4>3. ASSUME NEW j \in DOMAIN t, j > k PROVE Only(t[j], S) = <<>>
        <5>1. j \in 1..n \/ j = n + 1
          BY <2>1
        <5>2. CASE j \in 1..n
          BY <2>1, <4>1, <4>3, <5>2
        <5>3. CASE j = n + 1
          BY <2>1, <2>7, <5>3 DEF b
        <5> QED BY <5>1, <5>2, <5>3
      <4> QED BY <3>1, <4>1, <4>2, <4>3
    <3>3. Good(t)
      BY <3>2
    <3> QED BY <2>1, <3>3 DEF t
  <2> QED BY <2>6, <2>7
<1> HIDE DEF T
<1>3. \A ss \in Seq(Seq(X)) : ss \in T
  BY <1>1, <1>2, SeqInduction
<1> QED BY <1>3 DEF T

----------------------------------------------------------------------------
(* The markers that a fold over the samples places (getExtraMarkers).      *)

MarkersOf(h, n, f) ==
  f = [i \in 0..n |-> IF i = 0 THEN <<>> ELSE UpdateMarkers(f[i - 1], h[i])]

\* The fold of getExtraMarkers computes its result along the samples.
LEMMA MarkersExist ==
  ASSUME NEW h
  PROVE  \A n \in Nat : \E f : MarkersOf(h, n, f)
<1> DEFINE T == {n \in Nat : \E f : MarkersOf(h, n, f)}
<1>1. 0 \in T
  <2>1. MarkersOf(h, 0, [i \in 0..0 |-> <<>>])
    BY DEF MarkersOf
  <2> QED BY <2>1
<1>2. ASSUME NEW n \in Nat, n \in T PROVE n + 1 \in T
  <2>1. PICK f : MarkersOf(h, n, f)
    BY <1>2
  <2> DEFINE last == UpdateMarkers(f[n], h[n + 1])
             g == [i \in 0..(n + 1) |-> IF i = n + 1 THEN last ELSE f[i]]
  <2>2. \A i \in 0..n : f[i] = IF i = 0 THEN <<>> ELSE UpdateMarkers(f[i - 1], h[i])
    BY <2>1 DEF MarkersOf
  <2>3. ASSUME NEW i \in 0..(n + 1)
        PROVE  g[i] = IF i = 0 THEN <<>> ELSE UpdateMarkers(g[i - 1], h[i])
    <3>1. CASE i = n + 1
      <4>1. g[i - 1] = f[n] /\ g[i] = last /\ i # 0
        BY <3>1
      <4> QED BY <4>1, <3>1
    <3>2. CASE i # n + 1
      <4>1. i \in 0..n /\ g[i] = f[i]
        BY <3>2
      <4>2. i # 0 => g[i - 1] = f[i - 1]
        BY <3>2
      <4> QED BY <4>1, <4>2, <2>2
    <3> QED BY <3>1, <3>2
  <2>4. MarkersOf(h, n + 1, g)
    BY <2>3 DEF MarkersOf
  <2> QED BY <2>4
<1> HIDE DEF T
<1>3. \A n \in Nat : n \in T
  BY <1>1, <1>2, Induction
<1> QED BY <1>3 DEF T

\* MarkersAfter is the last of its partial results.
LEMMA MarkersAfterStep ==
  ASSUME NEW h, NEW n \in Nat
  PROVE  /\ \E f : MarkersOf(h, n, f) /\ MarkersAfter(h, n) = f[n]
         /\ MarkersAfter(h, 0) = <<>>
<1>1. ASSUME NEW m \in Nat
      PROVE  \E f : MarkersOf(h, m, f) /\ MarkersAfter(h, m) = f[m]
  <2> DEFINE f == CHOOSE g : MarkersOf(h, m, g)
  <2>1. MarkersOf(h, m, f)
    BY MarkersExist
  <2>2. MarkersAfter(h, m) = f[m]
    BY DEF MarkersAfter, MarkersOf
  <2> QED BY <2>1, <2>2
<1>2. PICK f : MarkersOf(h, 0, f) /\ MarkersAfter(h, 0) = f[0]
  BY <1>1
<1>3. f[0] = <<>>
  BY <1>2 DEF MarkersOf
<1>4. \E g : MarkersOf(h, n, g) /\ MarkersAfter(h, n) = g[n]
  BY <1>1
<1> QED BY <1>2, <1>3, <1>4

\* The markers after one more sample.
LEMMA MarkersAfterAppend ==
  ASSUME NEW X, NEW h \in Seq(X), NEW x \in X
  PROVE  MarkersAfter(Append(h, x), Len(h) + 1) = UpdateMarkers(MarkersAfter(h, Len(h)), x)
<1> DEFINE t == Append(h, x)
           n == Len(h)
<1>1. n \in Nat /\ n + 1 \in Nat /\ t[n + 1] = x /\ \A i \in 1..n : t[i] = h[i]
  OBVIOUS
<1> HIDE DEF t, n
<1>3. PICK f : MarkersOf(h, n, f) /\ MarkersAfter(h, n) = f[n]
  BY <1>1, MarkersAfterStep
<1>4. PICK g : MarkersOf(t, n + 1, g) /\ MarkersAfter(t, n + 1) = g[n + 1]
  BY <1>1, MarkersAfterStep
<1>5. \A i \in 0..n : f[i] = IF i = 0 THEN <<>> ELSE UpdateMarkers(f[i - 1], h[i])
  BY <1>3 DEF MarkersOf
<1>6. \A i \in 0..(n + 1) : g[i] = IF i = 0 THEN <<>> ELSE UpdateMarkers(g[i - 1], t[i])
  BY <1>4 DEF MarkersOf
<1> DEFINE T == {i \in Nat : i <= n => f[i] = g[i]}
<1>7. 0 \in T
  BY <1>1, <1>5, <1>6
<1>8. ASSUME NEW i \in Nat, i \in T PROVE i + 1 \in T
  <2>1. SUFFICES ASSUME i + 1 <= n PROVE f[i + 1] = g[i + 1]
    OBVIOUS
  <2>2. f[i] = g[i] /\ i + 1 \in 0..n /\ i + 1 \in 0..(n + 1) /\ t[i + 1] = h[i + 1]
        /\ i + 1 # 0 /\ (i + 1) - 1 = i
    BY <1>1, <1>8, <2>1
  <2>3. f[i + 1] = UpdateMarkers(f[i], h[i + 1])
    BY <1>5, <2>2
  <2>4. g[i + 1] = UpdateMarkers(g[i], t[i + 1])
    BY <1>6, <2>2
  <2> QED BY <2>2, <2>3, <2>4
<1> HIDE DEF T
<1>9. n \in T
  BY <1>1, <1>7, <1>8, Induction
<1>10. f[n] = g[n]
  BY <1>1, <1>9 DEF T
<1>11. g[n + 1] = UpdateMarkers(g[n], t[n + 1])
  <2>1. n + 1 \in 0..(n + 1) /\ n + 1 # 0 /\ (n + 1) - 1 = n
    BY <1>1
  <2> QED BY <1>6, <2>1
<1> QED BY <1>1, <1>3, <1>4, <1>10, <1>11 DEF t, n

MarkerOf(x) == [index |-> IndexOf(x), latency |-> x.latency]

Markers == {MarkerOf(x) : x \in Samples}

Apart == {p \in Markers \X Markers : p[1].index # p[2].index}

WithIndex(ix) == {x \in PlacedSamples : IndexOf(x) = ix}

IsNewest(h, m) ==
  /\ Only(h, WithIndex(m.index)) # <<>>
  /\ m.latency = Last(Only(h, WithIndex(m.index))).latency

\* The markers have distinct places in the list, and each has the latency of the
\* last sample that gave its place.
LEMMA MarkersFollow ==
  \A h \in Seq(Samples) :
    /\ MarkersAfter(h, Len(h)) \in Seq(Markers)
    /\ Ordered(MarkersAfter(h, Len(h)), Apart)
    /\ \A m \in ToSet(MarkersAfter(h, Len(h))) : IsNewest(h, m)
<1> DEFINE Good(h) == /\ MarkersAfter(h, Len(h)) \in Seq(Markers)
                      /\ Ordered(MarkersAfter(h, Len(h)), Apart)
                      /\ \A m \in ToSet(MarkersAfter(h, Len(h))) : IsNewest(h, m)
           T == {h \in Seq(Samples) : Good(h)}
<1>1. <<>> \in T
  <2>1. <<>> \in Seq(Samples) /\ <<>> \in Seq(Markers) /\ Len(<<>>) = 0 /\ DOMAIN <<>> = {}
    OBVIOUS
  <2>2. MarkersAfter(<<>>, 0) = <<>>
    BY MarkersAfterStep
  <2>3. Good(<<>>)
    BY <2>1, <2>2 DEF Ordered, ToSet
  <2> QED BY <2>1, <2>3
<1>2. ASSUME NEW h \in Seq(Samples), NEW x \in Samples, h \in T PROVE Append(h, x) \in T
  <2> DEFINE t == Append(h, x)
             a == MarkersAfter(h, Len(h))
             c == MarkersAfter(t, Len(t))
             others == {m \in ToSet(a) : m.index # IndexOf(x)}
             rest == Only(a, others)
  <2>1. t \in Seq(Samples) /\ Len(t) = Len(h) + 1
    OBVIOUS
  <2>2. c = UpdateMarkers(a, x)
    <3>1. MarkersAfter(Append(h, x), Len(h) + 1) = UpdateMarkers(MarkersAfter(h, Len(h)), x)
      BY MarkersAfterAppend
    <3> QED BY <2>1, <3>1
  <2>3. a \in Seq(Markers) /\ Ordered(a, Apart) /\ \A m \in ToSet(a) : IsNewest(h, m)
    BY <1>2
  <2>4. \A S : Only(t, S) = IF x \in S THEN Append(Only(h, S), x) ELSE Only(h, S)
    BY OnlyAppend
  <2> HIDE DEF a, c, t
  <2>5. CASE x \notin PlacedSamples
    <3>1. c = a
      BY <2>2, <2>5 DEF UpdateMarkers, PlacedSamples
    <3>2. ASSUME NEW m \in ToSet(a) PROVE IsNewest(t, m)
      <4>1. x \notin WithIndex(m.index)
        BY <2>5 DEF WithIndex
      <4>2. Only(t, WithIndex(m.index)) = Only(h, WithIndex(m.index))
        BY <2>4, <4>1
      <4> QED BY <2>3, <4>2 DEF IsNewest
    <3>3. Good(t)
      BY <2>3, <3>1, <3>2 DEF c
    <3> QED BY <2>1, <3>3 DEF t
  <2>6. CASE x \in PlacedSamples
    <3>1. c = Append(rest, MarkerOf(x))
      BY <2>2, <2>6 DEF UpdateMarkers, PlacedSamples, MarkerOf
    <3>2. rest \in Seq(Markers) /\ ToSet(rest) = ToSet(a) \cap others /\ Ordered(rest, Apart)
      BY <2>3, OnlyInSeq, OnlyRange, OnlyOrdered
    <3>3. MarkerOf(x) \in Markers /\ MarkerOf(x).index = IndexOf(x) /\ MarkerOf(x).latency = x.latency
      BY DEF Markers, MarkerOf
    <3> HIDE DEF rest
    <3>4. c \in Seq(Markers) /\ ToSet(c) = ToSet(rest) \cup {MarkerOf(x)}
      BY <3>1, <3>2, <3>3, ToSetAppend
    <3>5. Ordered(c, Apart)
      <4>1. ASSUME NEW m \in ToSet(rest) PROVE <<m, MarkerOf(x)>> \in Apart
        <5>1. m \in Markers
          BY <3>2 DEF ToSet
        <5>2. m.index # IndexOf(x)
          BY <3>2
        <5> QED BY <3>3, <5>1, <5>2 DEF Apart
      <4> DEFINE y == MarkerOf(x)
      <4>2. y \in Markers /\ \A m \in ToSet(rest) : <<m, y>> \in Apart
        BY <3>3, <4>1
      <4> HIDE DEF y
      <4>3. Ordered(Append(rest, y), Apart)
        BY <3>2, <4>2, OrderedAppend
      <4> QED BY <3>1, <4>3 DEF y
    <3>6. ASSUME NEW m \in ToSet(rest) PROVE IsNewest(t, m)
      <4>1. m \in ToSet(a) /\ m.index # IndexOf(x)
        BY <3>2
      <4>2. x \notin WithIndex(m.index)
        BY <4>1 DEF WithIndex
      <4>3. Only(t, WithIndex(m.index)) = Only(h, WithIndex(m.index))
        BY <2>4, <4>2
      <4> QED BY <2>3, <4>1, <4>3 DEF IsNewest
    <3>7. IsNewest(t, MarkerOf(x))
      <4> DEFINE S == WithIndex(IndexOf(x))
                 o == Only(h, S)
      <4>1. x \in S
        BY <2>6 DEF WithIndex
      <4>2. Only(t, S) = Append(o, x)
        BY <2>4, <4>1
      <4>3. o \in Seq(Samples)
        BY OnlyInSeq
      <4> HIDE DEF o, S
      <4>4. Append(o, x) # <<>> /\ Last(Append(o, x)) = x
        BY <4>3 DEF Last
      <4> QED BY <3>3, <4>2, <4>4 DEF IsNewest, S
    <3>8. Good(t)
      BY <3>4, <3>5, <3>6, <3>7 DEF c
    <3> QED BY <2>1, <3>8 DEF t
  <2> QED BY <2>5, <2>6
<1> HIDE DEF T
<1>3. \A h \in Seq(Samples) : h \in T
  BY <1>1, <1>2, SeqInduction
<1> QED BY <1>3 DEF T

----------------------------------------------------------------------------
(* The table: TableInv is inductive, and gives PanelShowsSamples.          *)

LatestOf(mine) == mine[Len(mine)]

IsCellOf(p, mine) ==
  /\ p \in DOMAIN cells <=> mine # <<>>
  /\ mine # <<>> => cells[p] = [latency |-> LatestOf(mine).latency,
                                latestSample |-> LatestOf(mine), samples |-> Reverse(mine)]

TableInv ==
  /\ pinged \in Seq(Samples)
  /\ \A t, s : IsCellOf(<<t, s>>, Pinged(t, s))

\* A sample that timed out has the latency 0.
LEMMA SampleFacts ==
  \A x \in Samples : x.isTimeout => x.latency = 0
<1> SUFFICES ASSUME NEW x \in Samples, x.isTimeout PROVE x.latency = 0
  OBVIOUS
<1>1. PICK line \in PingLines : x \in SampleOf(line)
  BY DEF Samples
<1>2. CASE line.tcp
  <2>1. x = [from |-> line.from, target |-> line.target, isTimeout |-> ~line.replied,
             latency |-> IF line.replied THEN line.rtt ELSE 0,
             ttl |-> line.ttl, seq |-> line.seq, peer |-> IF line.replied THEN line.peer ELSE "",
             place |-> IF line.replied THEN line.place ELSE ""]
    BY <1>1, <1>2, Zenon DEF SampleOf, SampleFromTCPEvent
  <2>2. x.isTimeout = (~line.replied)
    BY <2>1, Zenon
  <2>3. x.latency = IF line.replied THEN line.rtt ELSE 0
    BY <2>1, Zenon
  <2>4. ~line.replied
    BY <2>2, Zenon
  <2> QED BY <2>3, <2>4, Zenon
<1>3. CASE ~line.tcp
  <2>1. x = [from |-> line.from, target |-> line.target, isTimeout |-> ~line.replied,
             latency |-> line.rtt, ttl |-> line.ttl, seq |-> line.seq, peer |-> line.peer,
             place |-> line.place]
    BY <1>1, <1>3, Zenon DEF SampleOf, SampleFromEvent
  <2>2. x.isTimeout = (~line.replied)
    BY <2>1, Zenon
  <2>3. x.latency = line.rtt
    BY <2>1, Zenon
  <2>4. ~line.replied
    BY <2>2, Zenon
  <2> QED BY <2>3, <2>4, RepliesHaveRTTs, Zenon
<1> QED BY <1>2, <1>3

\* The samples of a pair are samples.
LEMMA PingedType ==
  ASSUME pinged \in Seq(Samples), NEW t, NEW s
  PROVE  Pinged(t, s) \in Seq(Samples)
BY OnlyInSeq DEF Pinged

\* PingTableInit establishes TableInv.
LEMMA TableInvInit == PingTableInit => TableInv
<1> SUFFICES ASSUME PingTableInit PROVE TableInv
  OBVIOUS
<1>1. pinged = <<>> /\ cells = <<>> /\ <<>> \in Seq(Samples) /\ DOMAIN <<>> = {}
  BY DEF PingTableInit
<1>2. \A t, s : Pinged(t, s) = <<>>
  BY <1>1, OnlyEmpty DEF Pinged
<1>3. \A t, s : IsCellOf(<<t, s>>, Pinged(t, s))
  BY <1>1, <1>2 DEF IsCellOf
<1> QED BY <1>1, <1>3 DEF TableInv

\* TableInv is inductive: a sample goes to the cell of its pair.
LEMMA TableInvStep == TableInv /\ [PingTableNext]_pingTableVars => TableInv'
<1> SUFFICES ASSUME TableInv, [PingTableNext]_pingTableVars PROVE TableInv'
  OBVIOUS
<1>1. ASSUME NEW line \in PingLines, NEW x \in SampleOf(line),
             cells' = UpdateCells(cells, x), pinged' = Append(pinged, x)
      PROVE  TableInv'
  <2>1. x \in Samples /\ pinged \in Seq(Samples)
    BY DEF Samples, TableInv
  <2>2. pinged' \in Seq(Samples)
    BY <1>1, <2>1
  <2>3. ASSUME NEW t, NEW s PROVE IsCellOf(<<t, s>>, Pinged(t, s))'
    <3> DEFINE mine == Pinged(t, s)
               p == <<t, s>>
               pair == <<x.target, x.from>>
               new == Only(Append(pinged, x), SamplesOfPair(t, s))
    <3>1. Pinged(t, s)' = new
      BY <1>1 DEF Pinged, Samples, SamplesOfPair
    <3>2. new = IF x \in SamplesOfPair(t, s) THEN Append(mine, x) ELSE mine
      BY <2>1, OnlyAppend DEF Pinged
    <3>3. x \in SamplesOfPair(t, s) <=> pair = p
      BY <2>1 DEF SamplesOfPair
    <3>4. mine \in Seq(Samples)
      BY <2>1, PingedType
    <3>5. IsCellOf(p, mine)
      BY DEF TableInv
    <3> DEFINE C == UpdateCells(cells, x)
    <3>6. DOMAIN C = DOMAIN cells \cup {pair}
      BY DEF UpdateCells
    <3> HIDE DEF mine, new
    <3>7. CASE pair # p
      <4>1. p \in DOMAIN C <=> p \in DOMAIN cells
        BY <3>6, <3>7
      <4>2. p \in DOMAIN cells => C[p] = cells[p]
        BY <3>7 DEF UpdateCells
      <4>3. cells' = C /\ Pinged(t, s)' = mine
        BY <1>1, <3>1, <3>2, <3>3, <3>7
      <4> HIDE DEF C, p, pair
      <4>4. (p \in DOMAIN cells' <=> mine # <<>>)
            /\ (mine # <<>> => cells'[p] = [latency |-> LatestOf(mine).latency,
                                latestSample |-> LatestOf(mine), samples |-> Reverse(mine)])
        BY <3>5, <4>1, <4>2, <4>3 DEF IsCellOf
      <4> QED BY <4>3, <4>4 DEF IsCellOf, p
    <3>8. CASE pair = p
      <4> DEFINE longer == Append(mine, x)
      <4>1. longer \in Seq(Samples) /\ longer # <<>> /\ LatestOf(longer) = x
        BY <2>1, <3>4 DEF LatestOf
      <4>2. Reverse(longer) = <<x>> \o Reverse(mine)
        BY <2>1, <3>4, ReverseAppend
      <4>3. cells' = C /\ Pinged(t, s)' = longer
        BY <1>1, <3>1, <3>2, <3>3, <3>8
      <4>4. p \in DOMAIN C
        BY <3>6, <3>8
      <4>5. CASE mine = <<>>
        <5>1. p \notin DOMAIN cells
          BY <3>5, <4>5 DEF IsCellOf
        <5>2. C[p] = NewCell(x)
          BY <3>8, <5>1 DEF UpdateCells
        <5>3. <<x>> \o Reverse(mine) = <<x>>
          <6>1. <<x>> \in Seq(Samples) /\ <<x>> \o <<>> = <<x>>
            BY <2>1
          <6>2. Reverse(mine) = <<>>
            BY <4>5, ReverseEmpty
          <6> QED BY <6>1, <6>2
        <5> HIDE DEF longer, C, p, pair
        <5> QED BY <4>1, <4>2, <4>3, <4>4, <5>2, <5>3 DEF IsCellOf, NewCell, p
      <4>6. CASE mine # <<>>
        <5>1. p \in DOMAIN cells /\ cells[p].samples = Reverse(mine)
          BY <3>5, <4>6 DEF IsCellOf
        <5>2. C[p] = [latency |-> x.latency, latestSample |-> x,
                      samples |-> <<x>> \o cells[p].samples]
          BY <3>8, <5>1 DEF UpdateCells
        <5> HIDE DEF longer, C, p, pair
        <5> QED BY <4>1, <4>2, <4>3, <4>4, <5>1, <5>2 DEF IsCellOf, p
      <4> QED BY <4>5, <4>6
    <3> QED BY <3>7, <3>8
  <2> QED BY <2>2, <2>3 DEF TableInv
<1>2. ASSUME UNCHANGED <<cells, pinged>> PROVE TableInv'
  <2>1. \A t, s : Pinged(t, s)' = Pinged(t, s)
    BY <1>2 DEF Pinged, Samples, SamplesOfPair
  <2> QED BY <1>2, <2>1 DEF TableInv, IsCellOf, Samples
<1>3. CASE SampleArrives
  BY <1>1, <1>3 DEF SampleArrives
<1>4. CASE RotateOrientation
  BY <1>2, <1>4 DEF RotateOrientation
<1>5. CASE UNCHANGED pingTableVars
  BY <1>2, <1>5 DEF pingTableVars
<1> QED BY <1>3, <1>4, <1>5 DEF PingTableNext

\* The cell of a pair, read back.
LEMMA CellsShow ==
  ASSUME TableInv, NEW t, NEW s
  PROVE  LET mine == Pinged(t, s)
         IN /\ mine \in Seq(Samples)
            /\ History(t, s) = Reverse(mine)
            /\ Latency(t, s) = IF mine = <<>> THEN 0 ELSE LatestOf(mine).latency
            /\ mine # <<>> => cells[<<t, s>>].latestSample = LatestOf(mine)
            /\ <<t, s>> \in DOMAIN cells <=> mine # <<>>
            /\ <<t, s>> \in DOMAIN cells => cells[<<t, s>>].latency = LatestOf(mine).latency
<1> DEFINE mine == Pinged(t, s)
<1>1. mine \in Seq(Samples) /\ IsCellOf(<<t, s>>, mine)
  BY PingedType DEF TableInv
<1> HIDE DEF mine
<1>2. (<<t, s>> \in DOMAIN cells <=> mine # <<>>)
      /\ (mine # <<>> => cells[<<t, s>>] = [latency |-> LatestOf(mine).latency,
                                latestSample |-> LatestOf(mine), samples |-> Reverse(mine)])
  BY <1>1 DEF IsCellOf
<1>3. mine = <<>> => Reverse(mine) = <<>>
  BY ReverseEmpty
<1> QED BY <1>1, <1>2, <1>3 DEF History, Latency, mine

\* The tooltip lists the samples of a pair, oldest first.
LEMMA TooltipIsHistory ==
  ASSUME TableInv, NEW t, NEW s
  PROVE  Tooltip(t, s) = [i \in DOMAIN Pinged(t, s) |-> SampleText(Pinged(t, s)[i])]
<1> DEFINE mine == Pinged(t, s)
           h == Reverse(mine)
           n == Len(mine)
           u == [i \in DOMAIN h |-> SampleText(h[i])]
           r == Reverse(u)
           v == [i \in DOMAIN mine |-> SampleText(mine[i])]
           X == {SampleText(x) : x \in Samples}
<1>1. mine \in Seq(Samples) /\ History(t, s) = h
  BY CellsShow
<1> HIDE DEF mine
<1>2. h \in Seq(Samples) /\ Len(h) = n /\ \A i \in 1..n : h[i] = mine[n - i + 1]
  BY <1>1, ReverseFacts
<1>3. n \in Nat /\ DOMAIN mine = 1..n
  BY <1>1
<1> HIDE DEF h
<1>4. u \in Seq(X) /\ Len(u) = n /\ \A i \in 1..n : u[i] = SampleText(h[i])
  BY <1>2, <1>3
<1>5. v \in Seq(X) /\ Len(v) = n /\ \A i \in 1..n : v[i] = SampleText(mine[i])
  BY <1>1, <1>3
<1> HIDE DEF n, u, v, X
<1>6. r \in Seq(X) /\ Len(r) = n /\ \A i \in 1..n : r[i] = u[n - i + 1]
  BY <1>4, ReverseFacts
<1> HIDE DEF r
<1>7. ASSUME NEW i \in 1..n PROVE r[i] = v[i]
  <2>1. n - i + 1 \in 1..n /\ n - (n - i + 1) + 1 = i
    BY <1>3
  <2>2. r[i] = SampleText(h[n - i + 1])
    BY <1>4, <1>6, <2>1
  <2>3. h[n - i + 1] = mine[i]
    BY <1>2, <2>1
  <2> QED BY <1>5, <2>2, <2>3
<1>8. r = v
  BY <1>4, <1>5, <1>6, <1>7, SeqEqual
<1> QED BY <1>1, <1>8 DEF Tooltip, r, u, v, h, mine

\* The table, the tooltips and the report, from the invariant.
LEMMA ScreenAgrees == TableInv => ScreenAndReportAgree
<1> SUFFICES ASSUME TableInv, NEW t \in DOMAIN PingTargets, NEW s \in DOMAIN PingSources
             PROVE  LET pair == <<PingTargets[t], PingSources[s]>>
                        mine == Pinged(pair[1], pair[2])
                        last == mine[Len(mine)]
                        shown == IF reversed THEN TableView[s][t] ELSE TableView[t][s]
                    IN /\ Tooltip(pair[1], pair[2]) = [i \in DOMAIN mine |-> SampleText(mine[i])]
                       /\ pair \in DOMAIN ReportRTTs <=> mine # <<>> /\ ~last.isTimeout /\ last.latency # 0
                       /\ shown = IF pair \in DOMAIN ReportRTTs THEN ReportRTTs[pair] ELSE 0
  BY DEF ScreenAndReportAgree
<1> DEFINE T == PingTargets[t]
           S == PingSources[s]
           mine == Pinged(T, S)
           last == LatestOf(mine)
           shown == IF reversed THEN TableView[s][t] ELSE TableView[t][s]
<1>1. shown = CellText(T, S)
  <2>1. CASE reversed
    BY <2>1 DEF TableView, PerSrcRow
  <2>2. CASE ~reversed
    BY <2>2 DEF TableView, PerTGTRow
  <2> QED BY <2>1, <2>2
<1>2. /\ mine \in Seq(Samples)
      /\ History(T, S) = Reverse(mine)
      /\ Latency(T, S) = IF mine = <<>> THEN 0 ELSE last.latency
      /\ mine # <<>> => cells[<<T, S>>].latestSample = last
      /\ <<T, S>> \in DOMAIN cells <=> mine # <<>>
      /\ <<T, S>> \in DOMAIN cells => cells[<<T, S>>].latency = last.latency
  BY CellsShow
<1>3. Tooltip(T, S) = [i \in DOMAIN mine |-> SampleText(mine[i])]
  BY TooltipIsHistory
<1> HIDE DEF T, S, mine, shown
<1>4. mine # <<>> => last \in Samples
  <2>1. mine # <<>> => Len(mine) \in 1..Len(mine)
    BY <1>2, EmptySeq
  <2> QED BY <1>2, <2>1 DEF LatestOf
<1>5. mine # <<>> /\ last.isTimeout => last.latency = 0
  BY <1>4, SampleFacts
<1>6. History(T, S) # <<>> <=> mine # <<>>
  <2>1. mine = <<>> => Reverse(mine) = <<>>
    BY ReverseEmpty
  <2>2. mine # <<>> => Reverse(mine) # <<>>
    BY <1>2, LastOfReverse
  <2> QED BY <1>2, <2>1, <2>2
<1> HIDE DEF last
<1>7. <<T, S>> \in DOMAIN ReportRTTs <=> mine # <<>> /\ last.latency # 0
  BY <1>2 DEF ReportRTTs
<1>8. <<T, S>> \in DOMAIN ReportRTTs => ReportRTTs[<<T, S>>] = last.latency
  BY <1>2 DEF ReportRTTs
<1>9. <<T, S>> \in DOMAIN ReportRTTs <=> mine # <<>> /\ ~last.isTimeout /\ last.latency # 0
  BY <1>5, <1>7, Zenon
<1>10. shown = IF <<T, S>> \in DOMAIN ReportRTTs THEN ReportRTTs[<<T, S>>] ELSE 0
  <2>1. CASE mine = <<>>
    BY <1>1, <1>2, <1>6, <1>7, <2>1 DEF CellText
  <2>2. CASE mine # <<>> /\ last.isTimeout
    <3>1. CellText(T, S) = 0
      BY <1>2, <1>6, <2>2 DEF CellText
    <3> QED BY <1>1, <1>9, <2>2, <3>1
  <2>3. CASE mine # <<>> /\ ~last.isTimeout
    <3>1. CellText(T, S) = Latency(T, S)
      BY <1>2, <1>6, <2>3 DEF CellText
    <3> QED BY <1>1, <1>2, <1>7, <1>8, <2>3, <3>1
  <2> QED BY <2>1, <2>2, <2>3
<1> QED BY <1>3, <1>9, <1>10 DEF T, S, mine, last, shown, LatestOf

\* The markers of the map, from the invariant: the best latency of a place.
LEMMA GroupsShow == TableInv => GroupsShowLatest
<1> SUFFICES ASSUME TableInv, NEW target \in ToSet(PingTargets)
             PROVE  LET groups == GroupMarkers(target)
                        mine == {c \in ToSet(PingConns) : c.name \in ToSet(PingSources) /\ c.place # ""}
                        lastOf(c) == LET l == Pinged(target, c.name) IN IF l = <<>> THEN 0 ELSE Last(l).latency
                        answers(place) == {lastOf(c) : c \in {d \in mine : d.place = place}} \ {0}
                    IN /\ {c.place : c \in mine} \subseteq DOMAIN groups
                       /\ \A place \in DOMAIN groups :
                            groups[place] = IF answers(place) = {} THEN 0 ELSE Min(answers(place))
  BY DEF GroupsShowLatest
<1> DEFINE groups == GroupMarkers(target)
           Sources == ToSet(PingSources)
           mine == {c \in ToSet(PingConns) : c.name \in Sources /\ c.place # ""}
           lastOf(c) == LET l == Pinged(target, c.name) IN IF l = <<>> THEN 0 ELSE Last(l).latency
           answers(place) == {lastOf(c) : c \in {d \in mine : d.place = place}} \ {0}
           chosen == {c \in ToSet(PingConns) : c.place # "" /\ (c.name = "" \/ c.name \in Sources)}
           nodes(place) == {c.name : c \in {d \in chosen : d.place = place}}
           latencies(place) == {Latency(target, n) : n \in nodes(place) \ {""}} \ {0}
<1>1. DOMAIN groups = {c.place : c \in chosen}
      /\ \A place \in DOMAIN groups :
           groups[place] = IF latencies(place) = {} THEN 0 ELSE Min(latencies(place))
  BY DEF GroupMarkers, NodeGroups, GroupLatency
<1>2. ASSUME NEW c PROVE lastOf(c) = Latency(target, c.name)
  <2>1. Latency(target, c.name) = IF Pinged(target, c.name) = <<>> THEN 0
                                  ELSE LatestOf(Pinged(target, c.name)).latency
    BY CellsShow
  <2> QED BY <2>1 DEF LatestOf, Last
<1> HIDE DEF lastOf
<1>3. "" \notin Sources
  BY SourcesAreNamed
<1>4. mine = {c \in chosen : c.name # ""}
  BY <1>3
<1>5. {c.place : c \in mine} \subseteq DOMAIN groups
  BY <1>1, <1>4
<1>6. ASSUME NEW place \in DOMAIN groups PROVE answers(place) = latencies(place)
  <2>1. answers(place) = {Latency(target, c.name) : c \in {d \in mine : d.place = place}} \ {0}
    BY <1>2
  <2> HIDE DEF chosen, mine
  <2> QED BY <1>4, <2>1
<1> HIDE DEF groups, answers, latencies
<1>7. \A place \in DOMAIN groups :
        groups[place] = IF answers(place) = {} THEN 0 ELSE Min(answers(place))
  BY <1>1, <1>6
<1> QED BY <1>5, <1>7 DEF groups, mine, answers, lastOf

\* The extra markers, from the invariant.
LEMMA MarkersShow == TableInv => MarkersAreOfFirstSamples
<1> SUFFICES ASSUME TableInv, NEW target \in ToSet(PingTargets)
             PROVE  LET placed(source) == Only(Pinged(target, source), PlacedSamples)
                        saw(index) == {s \in DOMAIN PingSources :
                                         \E i \in DOMAIN placed(PingSources[s]) :
                                           IndexOf(placed(PingSources[s])[i]) = index}
                        markers == ExtraMarkers(target)
                    IN /\ Len(markers) <= MaxExtraMarkers
                       /\ \A i, j \in DOMAIN markers : markers[i].index = markers[j].index => i = j
                       /\ \A i \in DOMAIN markers :
                            LET mine == Only(placed(PingSources[Max(saw(markers[i].index))]),
                                             {x \in Samples : IndexOf(x) = markers[i].index})
                            IN markers[i].latency = mine[1].latency
  BY DEF MarkersAreOfFirstSamples
<1> DEFINE n == Len(PingSources)
           P(s) == Pinged(target, PingSources[s])
           ss == [s \in DOMAIN PingSources |-> History(target, PingSources[s])]
           h == FlattenSeq(ss)
           all == MarkersAfter(h, Len(h))
           markers == ExtraMarkers(target)
           placed(source) == Only(Pinged(target, source), PlacedSamples)
           saw(index) == {s \in DOMAIN PingSources :
                            \E i \in DOMAIN placed(PingSources[s]) :
                              IndexOf(placed(PingSources[s])[i]) = index}
           mine(i) == Only(placed(PingSources[Max(saw(markers[i].index))]),
                           {x \in Samples : IndexOf(x) = markers[i].index})
<1>1. DOMAIN PingSources = 1..n /\ n \in Nat
  <2> DEFINE X == ToSet(PingSources)
  <2>1. PingSources \in Seq(X)
    BY SourcesAreNamed
  <2> HIDE DEF X
  <2> QED BY <2>1
<1>2. ASSUME NEW s \in 1..n PROVE P(s) \in Seq(Samples) /\ ss[s] = Reverse(P(s)) /\ ss[s] \in Seq(Samples)
  <2>1. P(s) \in Seq(Samples) /\ History(target, PingSources[s]) = Reverse(P(s))
    BY CellsShow
  <2>2. Reverse(P(s)) \in Seq(Samples)
    BY <2>1, ReverseFacts
  <2> QED BY <1>1, <2>1, <2>2
<1>3. ss \in Seq(Seq(Samples)) /\ DOMAIN ss = 1..n
  <2>1. ss \in [1..n -> Seq(Samples)]
    BY <1>1, <1>2
  <2> HIDE DEF ss
  <2> QED BY <1>1, <2>1
<1> HIDE DEF ss, n
<1>4. h \in Seq(Samples)
  BY <1>3, FlattenType
<1>5. all \in Seq(Markers) /\ Ordered(all, Apart) /\ \A m \in ToSet(all) : IsNewest(h, m)
  BY <1>4, MarkersFollow
<1>6. markers = IF Len(all) > MaxExtraMarkers THEN SubSeq(all, 1, MaxExtraMarkers) ELSE all
  BY DEF ExtraMarkers, ss
<1> HIDE DEF h, all, markers
<1>7. /\ markers \in Seq(Markers) /\ Len(markers) <= MaxExtraMarkers /\ Len(markers) <= Len(all)
      /\ \A i \in 1..Len(markers) : markers[i] = all[i]
  BY <1>5, <1>6, MaxExtraMarkersIsNat
<1>8. DOMAIN all = 1..Len(all) /\ DOMAIN markers = 1..Len(markers) /\ Len(all) \in Nat /\ Len(markers) \in Nat
  BY <1>5, <1>7
<1>9. ASSUME NEW i \in DOMAIN markers, NEW j \in DOMAIN markers, markers[i].index = markers[j].index
      PROVE  i = j
  <2>1. i \in DOMAIN all /\ j \in DOMAIN all /\ markers[i] = all[i] /\ markers[j] = all[j]
    BY <1>7, <1>8
  <2>2. \A a, b \in DOMAIN all : a < b => all[a].index # all[b].index
    BY <1>5 DEF Ordered, Apart
  <2>3. ~(i < j) /\ ~(j < i)
    BY <1>9, <2>1, <2>2
  <2> QED BY <1>8, <2>3
<1>10. ASSUME NEW i \in DOMAIN markers PROVE markers[i].latency = mine(i)[1].latency
  <2> DEFINE m == markers[i]
             ix == m.index
             W == WithIndex(ix)
  <2>1. IsNewest(h, m)
    <3>1. m = all[i] /\ i \in DOMAIN all
      BY <1>7, <1>8
    <3>2. all[i] \in ToSet(all)
      BY <3>1 DEF ToSet
    <3> QED BY <1>5, <3>1, <3>2
  <2>2. Only(h, W) # <<>> /\ m.latency = Last(Only(h, W)).latency
    BY <2>1 DEF IsNewest
  <2>3. \A tt \in Seq(Seq(Samples)) :
          Only(FlattenSeq(tt), W) # <<>> =>
             \E k \in DOMAIN tt :
               /\ Only(tt[k], W) # <<>>
               /\ \A j \in DOMAIN tt : j > k => Only(tt[j], W) = <<>>
               /\ Last(Only(FlattenSeq(tt), W)) = Last(Only(tt[k], W))
    BY LastOfFlatten
  <2>4. PICK k \in 1..n :
               /\ Only(ss[k], W) # <<>>
               /\ \A j \in 1..n : j > k => Only(ss[j], W) = <<>>
               /\ Last(Only(h, W)) = Last(Only(ss[k], W))
    BY <1>3, <2>2, <2>3 DEF h
  <2> HIDE DEF W
  <2>5. ASSUME NEW s \in 1..n PROVE s \in saw(ix) <=> Only(ss[s], W) # <<>>
    <3> DEFINE q == P(s)
               o == Only(q, PlacedSamples)
    <3>1. q \in Seq(Samples) /\ ss[s] = Reverse(q)
      BY <1>2
    <3> HIDE DEF q
    <3>2. ToSet(o) = ToSet(q) \cap PlacedSamples /\ o \in Seq(Samples)
      BY <3>1, OnlyRange, OnlyInSeq
    <3>3. ToSet(Only(q, W)) = ToSet(q) \cap W /\ Only(q, W) \in Seq(Samples)
      BY <3>1, OnlyRange, OnlyInSeq
    <3>4. Only(ss[s], W) = Reverse(Only(q, W))
      BY <3>1, OnlyReverse
    <3>5. s \in saw(ix) <=> \E i_1 \in DOMAIN o : IndexOf(o[i_1]) = ix
      BY <1>1 DEF q
    <3> HIDE DEF o
    <3>6. (\E i_1 \in DOMAIN o : IndexOf(o[i_1]) = ix) <=> \E x \in ToSet(o) : IndexOf(x) = ix
      BY DEF ToSet
    <3>7. (\E x \in ToSet(o) : IndexOf(x) = ix) <=> ToSet(Only(q, W)) # {}
      BY <3>2, <3>3 DEF W, WithIndex
    <3> DEFINE r == Only(q, W)
    <3>8. r \in Seq(Samples)
      BY <3>3
    <3> HIDE DEF r
    <3>9. ToSet(r) # {} <=> r # <<>>
      <4>1. r # <<>> => 1 \in DOMAIN r
        BY <3>8
      <4>2. r = <<>> => DOMAIN r = {}
        OBVIOUS
      <4> QED BY <4>1, <4>2 DEF ToSet
    <3>10. r # <<>> <=> Reverse(r) # <<>>
      BY <3>8, LastOfReverse, ReverseEmpty
    <3> QED BY <3>4, <3>5, <3>6, <3>7, <3>9, <3>10 DEF r
  <2>6. Max(saw(ix)) = k
    <3> DEFINE S == saw(ix)
    <3>1. S \subseteq 1..n
      BY <1>1
    <3> HIDE DEF S
    <3>2. k \in S
      BY <2>4, <2>5 DEF S
    <3>3. \A j \in S : k >= j
      <4>1. ASSUME NEW j \in S PROVE ~(j > k)
        BY <2>4, <2>5, <3>1, <4>1 DEF S
      <4> QED BY <1>1, <3>1, <4>1
    <3>4. \A j \in S : (\A y \in S : j >= y) => j = k
      BY <1>1, <3>1, <3>2, <3>3
    <3>5. Max(S) = k
      BY <3>2, <3>3, <3>4 DEF Max
    <3> QED BY <3>5 DEF S
  <2>7. mine(i) = Only(P(k), W)
    <3> DEFINE U == {x \in Samples : IndexOf(x) = ix}
               q == P(k)
    <3>1. q \in Seq(Samples)
      BY <1>2
    <3>2. PlacedSamples \cap U = W
      BY DEF W, WithIndex, PlacedSamples
    <3> HIDE DEF U, q
    <3>3. Only(Only(q, PlacedSamples), U) = Only(q, PlacedSamples \cap U)
      BY <3>1, OnlyBoth
    <3> QED BY <2>6, <3>2, <3>3 DEF U, q
  <2>8. Last(Only(ss[k], W)) = Only(P(k), W)[1]
    <3> DEFINE q == P(k)
               r == Only(q, W)
    <3>1. q \in Seq(Samples) /\ ss[k] = Reverse(q)
      BY <1>2
    <3> HIDE DEF q
    <3>2. Only(ss[k], W) = Reverse(r) /\ r \in Seq(Samples)
      BY <3>1, OnlyReverse, OnlyInSeq
    <3> HIDE DEF r
    <3>3. r # <<>>
      BY <2>4, <3>2, ReverseEmpty
    <3>4. Last(Reverse(r)) = r[1]
      BY <3>2, <3>3, LastOfReverse
    <3> QED BY <3>2, <3>4 DEF r, q
  <2> QED BY <2>2, <2>4, <2>7, <2>8
<1> HIDE DEF placed, saw
<1> QED BY <1>7, <1>9, <1>10 DEF markers, placed, saw

\* For any sources, targets and samples, in any number and order, the table, its
\* tooltips, the report and the markers of the map show the samples of the run.
THEOREM PanelAlwaysShowsSamples == PingTableSpec => []PanelShowsSamples
<1>1. PingTableInit => TableInv
  BY TableInvInit
<1>2. TableInv /\ [PingTableNext]_pingTableVars => TableInv'
  BY TableInvStep
<1>3. TableInv => PanelShowsSamples
  BY ScreenAgrees, GroupsShow, MarkersShow DEF PanelShowsSamples
<1> QED BY <1>1, <1>2, <1>3, PTL DEF PingTableSpec

----------------------------------------------------------------------------
(* Sorts by insertion, ranks in an order, and lists of lists.              *)

\* A set of the first positions has as many elements as its greatest says.
LEMMA PrefixSize ==
  ASSUME NEW n \in Nat, NEW D, D \subseteq 1..n,
         \A i \in D, j \in 1..n : j < i => j \in D
  PROVE  Cardinality(D) \in 0..n /\ D = 1..Cardinality(D)
<1> DEFINE E == D \cup {0}
<1>1. E \subseteq 0..n /\ E # {}
  OBVIOUS
<1>2. PICK m \in E : \A i \in E : i <= m
  BY <1>1, GreatestElement
<1>3. m \in 0..n
  BY <1>1, <1>2
<1>4. D = 1..m
  <2>1. ASSUME NEW i \in D PROVE i \in 1..m
    BY <1>2, <1>3, <2>1
  <2>2. ASSUME NEW i \in 1..m PROVE i \in D
    <3>1. m \in D /\ i \in 1..n
      BY <1>2, <1>3, <2>2
    <3>2. CASE i = m
      BY <3>1, <3>2
    <3>3. CASE i < m
      BY <3>1, <3>3
    <3> QED BY <1>3, <2>2, <3>2, <3>3
  <2> QED BY <2>1, <2>2
<1>5. Cardinality(1..m) = m
  <2>1. Cardinality(1..m) = IF 1 > m THEN 0 ELSE m - 1 + 1
    BY <1>3, FS_Interval
  <2> QED BY <1>3, <2>1
<1> QED BY <1>3, <1>4, <1>5

\* t is s with x behind its first m elements.
IsInserted(t, s, m, x) ==
  /\ Len(t) = Len(s) + 1
  /\ \A i \in 1..m : t[i] = s[i]
  /\ t[m + 1] = x
  /\ \A i \in (m + 1)..Len(s) : t[i + 1] = s[i]

\* InsertAt: the elements before the place, the new one, and those behind it.
LEMMA InsertAtFacts ==
  ASSUME NEW X, NEW s \in Seq(X), NEW x \in X, NEW m \in 0..Len(s)
  PROVE  /\ InsertAt(s, m + 1, x) \in Seq(X)
         /\ IsInserted(InsertAt(s, m + 1, x), s, m, x)
<1> DEFINE n == Len(s)
           a == SubSeq(s, 1, m)
           b == SubSeq(s, m + 1, n)
           c == a \o <<x>>
           d == c \o b
<1>0. n \in Nat /\ m \in Nat /\ m <= n
  OBVIOUS
<1>1. a \in Seq(X) /\ Len(a) = m /\ \A i \in 1..m : a[i] = s[i]
  BY <1>0
<1>2. b \in Seq(X) /\ Len(b) = n - m /\ \A i \in 1..(n - m) : b[i] = s[m + i]
  BY <1>0
<1>3. InsertAt(s, m + 1, x) = d
  <2>1. (m + 1) - 1 = m
    BY <1>0
  <2> QED BY <2>1 DEF InsertAt
<1> HIDE DEF a, b
<1>4. c \in Seq(X) /\ Len(c) = m + 1 /\ c[m + 1] = x /\ \A i \in 1..m : c[i] = a[i]
  BY <1>1
<1> HIDE DEF c
<1>5. d \in Seq(X) /\ Len(d) = n + 1
  <2>1. b \in Seq(X) /\ c \in Seq(X)
    BY <1>2, <1>4
  <2>2. d \in Seq(X) /\ Len(d) = Len(c) + Len(b)
    BY <2>1, CatAt
  <2> QED BY <1>0, <1>2, <1>4, <2>2
<1>6. \A i \in 1..(m + 1) : d[i] = c[i]
  BY <1>0, <1>2, <1>4
<1>7. \A i \in 1..(n - m) : d[(m + 1) + i] = b[i]
  BY <1>0, <1>2, <1>4
<1> HIDE DEF d
<1>8. ASSUME NEW i \in (m + 1)..n PROVE d[i + 1] = s[i]
  <2>1. i - m \in 1..(n - m) /\ (m + 1) + (i - m) = i + 1 /\ m + (i - m) = i
    BY <1>0
  <2> QED BY <1>2, <1>7, <2>1
<1>9. \A i \in 1..m : d[i] = s[i]
  BY <1>0, <1>1, <1>4, <1>6
<1>10. d[m + 1] = x
  BY <1>0, <1>4, <1>6
<1> QED BY <1>3, <1>5, <1>8, <1>9, <1>10 DEF n, IsInserted

\* Inserting where the order allows keeps the order.
LEMMA InsertAtOrdered ==
  ASSUME NEW X, NEW s \in Seq(X), NEW x \in X, NEW m \in 0..Len(s), NEW R,
         Ordered(s, R),
         \A i \in 1..m : <<s[i], x>> \in R,
         \A i \in (m + 1)..Len(s) : <<x, s[i]>> \in R
  PROVE  /\ Ordered(InsertAt(s, m + 1, x), R)
         /\ ToSet(InsertAt(s, m + 1, x)) = ToSet(s) \cup {x}
<1> DEFINE t == InsertAt(s, m + 1, x)
           n == Len(s)
<1>1. /\ t \in Seq(X) /\ Len(t) = n + 1
      /\ \A i \in 1..m : t[i] = s[i]
      /\ t[m + 1] = x
      /\ \A i \in (m + 1)..n : t[i + 1] = s[i]
  <2>1. InsertAt(s, m + 1, x) \in Seq(X) /\ IsInserted(InsertAt(s, m + 1, x), s, m, x)
    BY InsertAtFacts
  <2> HIDE DEF t
  <2>2. t \in Seq(X) /\ IsInserted(t, s, m, x)
    BY <2>1 DEF t
  <2> QED BY <2>2, Zenon DEF IsInserted
<1>2. n \in Nat /\ m \in Nat /\ m <= n /\ DOMAIN s = 1..n
  OBVIOUS
<1> HIDE DEF t
<1>3. DOMAIN t = 1..(n + 1)
  BY <1>1
<1>9. \A i \in 1..m : <<s[i], x>> \in R
  OBVIOUS
<1>10. \A i \in (m + 1)..n : <<x, s[i]>> \in R
  OBVIOUS
<1>11. \A i, j \in 1..n : i < j => <<s[i], s[j]>> \in R
  BY <1>2 DEF Ordered
<1> HIDE DEF n
<1>4. ASSUME NEW i \in (m + 2)..(n + 1) PROVE t[i] = s[i - 1] /\ i - 1 \in (m + 1)..n /\ i - 1 \in 1..n
  <2>1. i - 1 \in (m + 1)..n /\ (i - 1) + 1 = i /\ i - 1 \in 1..n
    BY <1>2
  <2> QED BY <1>1, <2>1
<1>5. ASSUME NEW i \in 1..(n + 1), NEW j \in 1..(n + 1), i < j
      PROVE  <<t[i], t[j]>> \in R
  <2>1. CASE i \in 1..m /\ j \in 1..m
    <3>1. i \in 1..n /\ j \in 1..n
      BY <1>2, <2>1
    <3> QED BY <1>1, <1>5, <1>11, <2>1, <3>1
  <2>2. CASE i \in 1..m /\ j = m + 1
    BY <1>1, <1>9, <2>2
  <2>3. CASE i \in 1..m /\ j \in (m + 2)..(n + 1)
    <3>1. i \in 1..n /\ i < j - 1
      BY <1>2, <2>3
    <3> QED BY <1>1, <1>4, <1>11, <2>3, <3>1
  <2>4. CASE i = m + 1 /\ j \in (m + 2)..(n + 1)
    BY <1>1, <1>4, <1>10, <2>4
  <2>5. CASE i \in (m + 2)..(n + 1) /\ j \in (m + 2)..(n + 1)
    <3>1. i - 1 < j - 1
      BY <1>5
    <3> QED BY <1>4, <1>11, <2>5, <3>1
  <2>6. (i \in 1..m \/ i = m + 1 \/ i \in (m + 2)..(n + 1))
        /\ (j \in 1..m \/ j = m + 1 \/ j \in (m + 2)..(n + 1))
    BY <1>2
  <2> QED BY <1>2, <1>5, <2>1, <2>2, <2>3, <2>4, <2>5, <2>6
<1>6. Ordered(t, R)
  BY <1>3, <1>5 DEF Ordered
<1>7. ToSet(t) = ToSet(s) \cup {x}
  <2>1. ASSUME NEW i \in 1..(n + 1) PROVE t[i] \in ToSet(s) \cup {x}
    <3>1. CASE i \in 1..m
      <4>1. i \in 1..n /\ t[i] = s[i]
        BY <1>1, <1>2, <3>1
      <4> QED BY <1>2, <4>1 DEF ToSet
    <3>2. CASE i = m + 1
      BY <1>1, <3>2
    <3>3. CASE i \in (m + 2)..(n + 1)
      BY <1>2, <1>4, <3>3 DEF ToSet
    <3> QED BY <1>2, <3>1, <3>2, <3>3
  <2>2. ASSUME NEW i \in 1..n PROVE s[i] \in ToSet(t)
    <3>1. CASE i \in 1..m
      <4>1. i \in 1..(n + 1) /\ t[i] = s[i]
        BY <1>1, <1>2, <3>1
      <4> QED BY <1>3, <4>1 DEF ToSet
    <3>2. CASE i \in (m + 1)..n
      <4>1. i + 1 \in 1..(n + 1) /\ t[i + 1] = s[i]
        BY <1>1, <1>2, <3>2
      <4> QED BY <1>3, <4>1 DEF ToSet
    <3> QED BY <1>2, <3>1, <3>2
  <2>3. x \in ToSet(t)
    <3>1. m + 1 \in 1..(n + 1)
      BY <1>2
    <3> QED BY <1>1, <1>3, <3>1 DEF ToSet
  <2> QED BY <1>2, <1>3, <2>1, <2>2, <2>3 DEF ToSet
<1> QED BY <1>6, <1>7 DEF t

\* The ranks of n things in a strict total order are 1 to n.
LEMMA Ranks ==
  ASSUME NEW n \in Nat, NEW B \in SUBSET ((1..n) \X (1..n)),
         \A i \in 1..n : <<i, i>> \notin B,
         \A i, j \in 1..n : i # j => <<i, j>> \in B \/ <<j, i>> \in B,
         \A i, j, k \in 1..n : <<i, j>> \in B /\ <<j, k>> \in B => <<i, k>> \in B
  PROVE  \A r \in 1..n :
           \E j \in 1..n : /\ Cardinality({i \in 1..n : <<i, j>> \in B}) = r - 1
                           /\ \A k \in 1..n : Cardinality({i \in 1..n : <<i, k>> \in B}) = r - 1 => k = j
<1> DEFINE N == 1..n
           D(j) == {i \in N : <<i, j>> \in B}
           rank == [j \in N |-> Cardinality(D(j)) + 1]
<1>1. IsFiniteSet(N) /\ Cardinality(N) = n
  BY FS_Interval
<1>2. ASSUME NEW j \in N PROVE IsFiniteSet(D(j)) /\ Cardinality(D(j)) \in 0..(n - 1)
  <2>1. D(j) \subseteq N \ {j}
    OBVIOUS
  <2>2. IsFiniteSet(N \ {j}) /\ Cardinality(N \ {j}) = n - 1
    BY <1>1, FS_RemoveElement
  <2> HIDE DEF D, N
  <2>3. IsFiniteSet(D(j)) /\ Cardinality(D(j)) <= Cardinality(N \ {j})
    BY <2>1, <2>2, FS_Subset
  <2>4. Cardinality(D(j)) \in Nat
    BY <2>3, FS_CardinalityType
  <2> QED BY <2>2, <2>3, <2>4
<1>3. rank \in [N -> N]
  <2>1. ASSUME NEW j \in N PROVE Cardinality(D(j)) + 1 \in N
    <3>1. Cardinality(D(j)) \in 0..(n - 1)
      BY <1>2
    <3> HIDE DEF D
    <3> QED BY <3>1
  <2> HIDE DEF D, N
  <2> QED BY <2>1
<1>4. ASSUME NEW i \in N, NEW j \in N, <<i, j>> \in B
      PROVE  Cardinality(D(i)) < Cardinality(D(j))
  <2>1. D(i) \subseteq D(j) /\ i \in D(j) /\ i \notin D(i)
    BY <1>4
  <2>2. Cardinality(D(i)) <= Cardinality(D(j)) /\ (Cardinality(D(i)) = Cardinality(D(j)) => D(i) = D(j))
    BY <1>2, <2>1, FS_Subset
  <2> HIDE DEF D
  <2> QED BY <1>2, <2>1, <2>2
<1>5. ASSUME NEW i \in N, NEW j \in N, Cardinality(D(i)) = Cardinality(D(j)) PROVE i = j
  <2> SUFFICES ASSUME i # j PROVE FALSE
    OBVIOUS
  <2>1. <<i, j>> \in B \/ <<j, i>> \in B
    OBVIOUS
  <2> HIDE DEF D
  <2> QED BY <1>2, <1>4, <1>5, <2>1
<1>6. rank \in Injection(N, N)
  <2>1. \A i, j \in N : rank[i] = rank[j] => i = j
    <3> HIDE DEF D
    <3> QED BY <1>2, <1>5
  <2> HIDE DEF rank
  <2> QED BY <1>3, <2>1, Fun_IsInj
<1>7. rank \in Surjection(N, N)
  <2> HIDE DEF rank, N
  <2> QED BY <1>1, <1>6, FS_Injection
<1>8. ASSUME NEW r \in N PROVE \E j \in N : rank[j] = r
  <2> HIDE DEF rank, N
  <2> QED BY <1>7 DEF Surjection
<1>9. ASSUME NEW r \in N
      PROVE  \E j \in N : Cardinality(D(j)) = r - 1 /\ \A k \in N : Cardinality(D(k)) = r - 1 => k = j
  <2>1. PICK j \in N : rank[j] = r
    BY <1>8
  <2>2. Cardinality(D(j)) = r - 1
    <3> HIDE DEF D
    <3> QED BY <1>2, <2>1
  <2>3. \A k \in N : Cardinality(D(k)) = r - 1 => k = j
    <3> HIDE DEF D
    <3> QED BY <1>5, <2>2
  <2> QED BY <2>2, <2>3
<1> QED BY <1>9

\* t has the elements of s in the order at of their places, which is one of v.
IsSortOf(t, s, v, at) ==
  /\ at \in [1..Len(s) -> 1..Len(s)]
  /\ t = [r \in 1..Len(s) |-> s[at[r]]]
  /\ \A r, u \in 1..Len(s) : at[r] = at[u] => r = u
  /\ \A j \in 1..Len(s) : \E r \in 1..Len(s) : at[r] = j
  /\ \A r, u \in 1..Len(s) : r < u => v[at[r]] <= v[at[u]]

\* Each place of a sorted sequence is that of one element.
LEMMA SortedByOrder ==
  ASSUME NEW X, NEW s \in Seq(X), NEW v, \A i \in 1..Len(s) : v[i] \in Int
  PROVE  \E at : IsSortOf(SortedBy(s, v), s, v, at)
<1> DEFINE n == Len(s)
           N == 1..n
           B == {w \in N \X N : v[w[1]] < v[w[2]] \/ (v[w[1]] = v[w[2]] /\ w[1] < w[2])}
           First(i, j) == v[i] < v[j] \/ (v[i] = v[j] /\ i < j)
           D(j) == {i \in N : <<i, j>> \in B}
           Size(j) == Cardinality(D(j))
           at == [r \in N |-> CHOOSE j \in N : Size(j) = r - 1]
<1>1. n \in Nat /\ DOMAIN s = N
  OBVIOUS
<1>2. \A i \in N : v[i] \in Int
  OBVIOUS
<1>3. B \in SUBSET (N \X N)
  OBVIOUS
<1>4. \A i, j \in N : <<i, j>> \in B <=> First(i, j)
  OBVIOUS
<1>5. \A j \in N : D(j) = {i \in N : First(i, j)}
  BY <1>4
<1>6. SortedBy(s, v)
        = [r \in N |-> s[CHOOSE j \in N : Cardinality({i \in N : First(i, j)}) = r - 1]]
  BY <1>1 DEF SortedBy
<1>7. ASSUME NEW r \in N
      PROVE  (CHOOSE j \in N : Cardinality({i \in N : First(i, j)}) = r - 1) = at[r]
  <2>1. \A j \in N : Cardinality({i \in N : First(i, j)}) = r - 1 <=> Size(j) = r - 1
    BY <1>5
  <2>2. (CHOOSE j \in N : Cardinality({i \in N : First(i, j)}) = r - 1)
          = (CHOOSE j \in N : Size(j) = r - 1)
    <3> DEFINE U(j) == Cardinality({i \in N : First(i, j)}) = r - 1
               W(j) == Size(j) = r - 1
    <3>1. \A j \in N : U(j) <=> W(j)
      BY <2>1
    <3> HIDE DEF U, W
    <3>2. (CHOOSE j \in N : U(j)) = (CHOOSE j \in N : W(j))
      BY <3>1
    <3> QED
      BY <3>2 DEF U, W
  <2>3. at[r] = CHOOSE j \in N : Size(j) = r - 1
    BY Zenon
  <2> QED
    BY <2>2, <2>3, Zenon
<1>8. SortedBy(s, v) = [r \in N |-> s[at[r]]]
  BY <1>6, <1>7, Zenon
<1>9. \A i \in N : <<i, i>> \notin B
  BY <1>1, <1>2, <1>4
<1>10. \A i, j \in N : i # j => <<i, j>> \in B \/ <<j, i>> \in B
  BY <1>1, <1>2, <1>4
<1>11. \A i, j, k \in N : <<i, j>> \in B /\ <<j, k>> \in B => <<i, k>> \in B
  <2> SUFFICES ASSUME NEW i \in N, NEW j \in N, NEW k \in N, <<i, j>> \in B, <<j, k>> \in B
               PROVE  <<i, k>> \in B
    OBVIOUS
  <2>1. v[i] \in Int /\ v[j] \in Int /\ v[k] \in Int /\ i \in Int /\ j \in Int /\ k \in Int
    BY <1>2
  <2>2. First(i, j) /\ First(j, k)
    BY <1>4
  <2>3. First(i, k)
    <3> HIDE DEF B, N
    <3> QED
      BY <2>1, <2>2
  <2> QED
    BY <1>4, <2>3
<1>12. \A r \in N : \E j \in N : Size(j) = r - 1
  <2> HIDE DEF B
  <2>1. \A r \in N : \E j \in N : /\ Size(j) = r - 1
                                 /\ \A k \in N : Size(k) = r - 1 => k = j
    BY <1>1, <1>3, <1>9, <1>10, <1>11, Ranks
  <2> HIDE DEF Size, N
  <2> QED
    BY <2>1
<1>13. \A r \in N : at[r] \in N /\ Size(at[r]) = r - 1
  <2> HIDE DEF B
  <2> SUFFICES ASSUME NEW r \in N
               PROVE  at[r] \in N /\ Size(at[r]) = r - 1
    OBVIOUS
  <2>1. \E j \in N : Size(j) = r - 1
    BY <1>12
  <2>2. at[r] = CHOOSE j \in N : Size(j) = r - 1
    BY Zenon
  <2> HIDE DEF at, Size
  <2> QED
    BY <2>1, <2>2
<1>14. \A r, u \in N : at[r] = at[u] => r = u
  <2> SUFFICES ASSUME NEW r \in N, NEW u \in N, at[r] = at[u]
               PROVE  r = u
    OBVIOUS
  <2>1. Size(at[r]) = r - 1 /\ Size(at[u]) = u - 1
    BY <1>13, Zenon
  <2>2. r - 1 = u - 1
    <3> HIDE DEF at, Size
    <3> QED
      BY <2>1
  <2> HIDE DEF at
  <2> QED
    BY <2>2
<1>15. \A j \in N : \E r \in N : at[r] = j
  <2>1. at \in [N -> N]
    BY <1>13
  <2> HIDE DEF at
  <2>2. IsFiniteSet(N)
    BY <1>1, FS_Interval
  <2>3. at \in Injection(N, N)
    BY <2>1, <1>14 DEF Injection, IsInjective
  <2>4. at \in Surjection(N, N)
    BY <2>2, <2>3, FS_Injection
  <2> QED
    BY <2>4 DEF Surjection
<1>16. \A r, u \in N : r < u => v[at[r]] <= v[at[u]]
  <2> SUFFICES ASSUME NEW r \in N, NEW u \in N, r < u, ~(v[at[r]] <= v[at[u]])
               PROVE  FALSE
    OBVIOUS
  <2> HIDE DEF B
  <2> DEFINE i == at[r]
             j == at[u]
  <2>1. i \in N /\ j \in N /\ Size(i) = r - 1 /\ Size(j) = u - 1
    BY <1>13, Zenon
  <2>2. ~(v[i] <= v[j])
    BY Zenon
  <2> HIDE DEF at, i, j, Size
  <2>3. First(j, i)
    BY <1>2, <2>1, <2>2
  <2>4. <<j, i>> \in B
    BY <1>4, <2>1, <2>3
  <2>5. D(j) \subseteq D(i)
    BY <1>11, <2>1, <2>4
  <2>6. IsFiniteSet(D(i))
    <3>1. IsFiniteSet(N) /\ D(i) \subseteq N
      BY <1>1, FS_Interval
    <3> QED
      BY <3>1, FS_Subset
  <2>7. Cardinality(D(j)) <= Cardinality(D(i))
    <3> HIDE DEF D
    <3> QED
      BY <2>5, <2>6, FS_Subset
  <2>8. u - 1 <= r - 1
    BY <2>1, <2>7, Zenon DEF Size
  <2> QED
    BY <1>1, <2>8
<1> DEFINE t == SortedBy(s, v)
<1>17. at \in [N -> N]
  BY <1>13
<1> HIDE DEF at, t, N
<1>18. IsSortOf(t, s, v, at)
  BY <1>8, <1>14, <1>15, <1>16, <1>17, Zenon DEF IsSortOf, N, n, t
<1> QED
  BY <1>18 DEF t

\* A sorted sequence has the elements it had, each as often as before.
LEMMA SortedByPermutes ==
  ASSUME NEW X, NEW s \in Seq(X), NEW v, \A i \in 1..Len(s) : v[i] \in Int
  PROVE  /\ SortedBy(s, v) \in Seq(X) /\ Len(SortedBy(s, v)) = Len(s)
         /\ ToSet(SortedBy(s, v)) = ToSet(s)
         /\ (\A i, j \in 1..Len(s) : s[i] = s[j] => i = j)
              => \A i, j \in 1..Len(s) : SortedBy(s, v)[i] = SortedBy(s, v)[j] => i = j
<1> DEFINE n == Len(s)
           N == 1..n
           t == SortedBy(s, v)
<1>1. PICK at : IsSortOf(t, s, v, at)
  BY SortedByOrder
<1> HIDE DEF t
<1>2. /\ at \in [N -> N] /\ t = [r \in N |-> s[at[r]]]
      /\ \A r, u \in N : at[r] = at[u] => r = u
      /\ \A j \in N : \E r \in N : at[r] = j
  BY <1>1 DEF IsSortOf
<1>3. n \in Nat /\ DOMAIN s = N /\ \A i \in N : s[i] \in X
  OBVIOUS
<1> HIDE DEF N
<1>4. \A r \in N : at[r] \in N
  BY <1>2
<1>5. DOMAIN t = N /\ \A r \in N : t[r] = s[at[r]]
  BY <1>2
<1>6. t \in [N -> X]
  BY <1>2, <1>3, <1>4
<1>7. t \in Seq(X) /\ Len(t) = n
  <2> HIDE DEF n
  <2> QED
    BY <1>3, <1>6 DEF N
<1>8. ToSet(t) = ToSet(s)
  <2>1. ToSet(t) \subseteq ToSet(s)
    BY <1>3, <1>4, <1>5 DEF ToSet
  <2>2. ASSUME NEW x \in ToSet(s)
        PROVE  x \in ToSet(t)
    <3>1. PICK j \in N : s[j] = x
      BY <1>3 DEF ToSet
    <3>2. PICK r \in N : at[r] = j
      BY <1>2
    <3> QED
      BY <1>5, <3>1, <3>2 DEF ToSet
  <2> QED
    BY <2>1, <2>2
<1>9. ASSUME \A i, j \in N : s[i] = s[j] => i = j
      PROVE  \A i, j \in N : t[i] = t[j] => i = j
  BY <1>2, <1>4, <1>5, <1>9
<1> QED
  BY <1>7, <1>8, <1>9 DEF t, N

\* A sequence without repetitions is as long as the set of its elements is large.
LEMMA LenIsCardinality ==
  ASSUME NEW X, NEW s \in Seq(X), \A i, j \in 1..Len(s) : s[i] = s[j] => i = j
  PROVE  IsFiniteSet(ToSet(s)) /\ Cardinality(ToSet(s)) = Len(s)
<1> DEFINE n == Len(s)
           E == ToSet(s)
<1>1. n \in Nat /\ DOMAIN s = 1..n
  OBVIOUS
<1>2. s \in [1..n -> E] /\ \A e \in E : \E i \in 1..n : s[i] = e
  BY <1>1 DEF ToSet
<1>3. \A i, j \in 1..n : s[i] = s[j] => i = j
  OBVIOUS
<1> HIDE DEF n, E
<1>4. s \in Injection(1..n, E) /\ s \in Surjection(1..n, E)
  BY <1>2, <1>3, Fun_IsInj, Fun_IsSurj
<1>5. IsFiniteSet(1..n) /\ Cardinality(1..n) = n
  <2>1. Cardinality(1..n) = IF 1 > n THEN 0 ELSE n - 1 + 1
    BY <1>1, FS_Interval
  <2> QED BY <1>1, <2>1, FS_Interval
<1>6. IsFiniteSet(E) /\ Cardinality(E) = Cardinality(1..n)
  BY <1>4, <1>5, FS_Surjection
<1> QED BY <1>5, <1>6 DEF n, E

\* Two ordered sequences one behind the other.
LEMMA CatOrdered ==
  ASSUME NEW X, NEW a \in Seq(X), NEW b \in Seq(X), NEW R, Ordered(a, R), Ordered(b, R),
         \A x \in ToSet(a), y \in ToSet(b) : <<x, y>> \in R
  PROVE  Ordered(a \o b, R)
<1> DEFINE c == a \o b
           n == Len(a)
           m == Len(b)
<1>1. c \in Seq(X) /\ Len(c) = n + m /\ n \in Nat /\ m \in Nat
  BY CatAt
<1>2. (\A i \in 1..n : c[i] = a[i]) /\ (\A i \in 1..m : c[n + i] = b[i])
  BY CatAt
<1>3. DOMAIN a = 1..n /\ DOMAIN b = 1..m
  OBVIOUS
<1>4. \A i \in 1..n, j \in 1..m : <<a[i], b[j]>> \in R
  BY <1>3 DEF ToSet
<1>5. \A i, j \in 1..n : i < j => <<a[i], a[j]>> \in R
  BY <1>3 DEF Ordered
<1>6. \A i, j \in 1..m : i < j => <<b[i], b[j]>> \in R
  BY <1>3 DEF Ordered
<1> HIDE DEF c, n, m
<1>7. ASSUME NEW i \in (n + 1)..(n + m) PROVE i - n \in 1..m /\ c[i] = b[i - n]
  <2>1. i - n \in 1..m /\ n + (i - n) = i
    BY <1>1
  <2> QED BY <1>2, <2>1
<1>8. ASSUME NEW i \in 1..(n + m), NEW j \in 1..(n + m), i < j PROVE <<c[i], c[j]>> \in R
  <2>1. CASE i \in 1..n /\ j \in 1..n
    BY <1>2, <1>5, <1>8, <2>1
  <2>2. CASE i \in 1..n /\ j \in (n + 1)..(n + m)
    BY <1>2, <1>4, <1>7, <2>2
  <2>3. CASE i \in (n + 1)..(n + m) /\ j \in (n + 1)..(n + m)
    <3>1. i - n < j - n
      BY <1>1, <1>8
    <3> QED BY <1>6, <1>7, <2>3, <3>1
  <2> QED BY <1>1, <1>8, <2>1, <2>2, <2>3
<1>9. DOMAIN c = 1..(n + m)
  BY <1>1
<1> QED BY <1>8, <1>9 DEF Ordered, c

\* The elements of a concatenation, as a set.
LEMMA CatRange ==
  ASSUME NEW X, NEW a \in Seq(X), NEW b \in Seq(X)
  PROVE  ToSet(a \o b) = ToSet(a) \cup ToSet(b)
<1> DEFINE c == a \o b
           n == Len(a)
           m == Len(b)
<1>1. c \in Seq(X) /\ Len(c) = n + m /\ n \in Nat /\ m \in Nat
  BY CatAt
<1>2. (\A i \in 1..n : c[i] = a[i]) /\ (\A i \in 1..m : c[n + i] = b[i])
  BY CatAt
<1>3. DOMAIN a = 1..n /\ DOMAIN b = 1..m
  OBVIOUS
<1>4. ToSet(a) = {a[i] : i \in 1..n} /\ ToSet(b) = {b[i] : i \in 1..m}
  BY <1>3 DEF ToSet
<1> HIDE DEF c, n, m
<1>5. DOMAIN c = 1..(n + m)
  BY <1>1
<1>6. ToSet(c) = {c[i] : i \in 1..(n + m)}
  BY <1>5 DEF ToSet
<1>7. ASSUME NEW i \in 1..(n + m) PROVE c[i] \in ToSet(a) \cup ToSet(b)
  <2>1. CASE i \in 1..n
    BY <1>2, <1>4, <2>1
  <2>2. CASE ~(i \in 1..n)
    <3>1. i - n \in 1..m /\ n + (i - n) = i
      BY <1>1, <2>2
    <3>2. c[i] = b[i - n]
      BY <1>2, <3>1
    <3> QED BY <1>4, <3>1, <3>2
  <2> QED BY <2>1, <2>2
<1>8. ASSUME NEW i \in 1..n PROVE a[i] \in ToSet(c)
  <2>1. i \in 1..(n + m) /\ c[i] = a[i]
    BY <1>1, <1>2
  <2> QED BY <1>6, <2>1
<1>9. ASSUME NEW i \in 1..m PROVE b[i] \in ToSet(c)
  <2>1. n + i \in 1..(n + m) /\ c[n + i] = b[i]
    BY <1>1, <1>2
  <2> QED BY <1>6, <2>1
<1>10. ToSet(c) = ToSet(a) \cup ToSet(b)
  BY <1>4, <1>6, <1>7, <1>8, <1>9
<1> QED BY <1>10 DEF c

\* A list for each element of Y.
ListsOf(Y, X) == [Y -> Seq(X)]

\* One more list in a list of lists.
LEMMA FlattenMappedAppend ==
  ASSUME NEW X, NEW Y, NEW g \in ListsOf(Y, X), NEW o \in Seq(Y), NEW t \in Y
  PROVE  /\ Mapped(g, o) \in Seq(Seq(X))
         /\ FlattenSeq(Mapped(g, o)) \in Seq(X)
         /\ FlattenSeq(Mapped(g, Append(o, t))) = FlattenSeq(Mapped(g, o)) \o g[t]
<1>1. Mapped(g, o) \in Seq(Seq(X))
  BY DEF Mapped, ListsOf
<1>2. Mapped(g, Append(o, t)) = Append(Mapped(g, o), g[t])
  BY MappedAppend
<1>3. g[t] \in Seq(X)
  BY DEF ListsOf
<1>4. FlattenSeq(Append(Mapped(g, o), g[t])) = FlattenSeq(Mapped(g, o)) \o g[t]
  BY <1>1, <1>3, FlattenAppend
<1>5. FlattenSeq(Mapped(g, o)) \in Seq(X)
  BY <1>1, FlattenType
<1> QED BY <1>1, <1>2, <1>4, <1>5

\* No list in a list of lists.
LEMMA FlattenMappedEmpty ==
  ASSUME NEW g
  PROVE  FlattenSeq(Mapped(g, <<>>)) = <<>>
<1>1. Mapped(g, <<>>) = <<>>
  BY DEF Mapped
<1> QED BY <1>1, FlattenEmpty

\* The elements of ordered lists that are put one behind the other in the order of
\* their numbers.
LEMMA FlattenOrdered ==
  ASSUME NEW X, NEW R, NEW Y, Y \subseteq Nat, NEW g \in ListsOf(Y, X),
         \A t \in Y : Ordered(g[t], R),
         \A t, u \in Y : t < u => \A x \in ToSet(g[t]), y \in ToSet(g[u]) : <<x, y>> \in R
  PROVE  \A o \in Seq(Y) :
           /\ FlattenSeq(Mapped(g, o)) \in Seq(X)
           /\ ToSet(FlattenSeq(Mapped(g, o))) = UNION {ToSet(g[t]) : t \in ToSet(o)}
           /\ Ordered(o, Before) => Ordered(FlattenSeq(Mapped(g, o)), R)
<1> DEFINE F(o) == FlattenSeq(Mapped(g, o))
           All(o) == UNION {ToSet(g[t]) : t \in ToSet(o)}
           T == {o \in Seq(Y) : /\ F(o) \in Seq(X)
                                /\ ToSet(F(o)) = All(o)
                                /\ Ordered(o, Before) => Ordered(F(o), R)}
<1>1. <<>> \in T
  <2>1. F(<<>>) = <<>>
    BY FlattenMappedEmpty
  <2>2. <<>> \in Seq(X) /\ <<>> \in Seq(Y)
    OBVIOUS
  <2>3. ToSet(<<>>) = {}
    BY DEF ToSet
  <2>4. All(<<>>) = {}
    BY <2>3
  <2>5. Ordered(<<>>, R)
    BY DEF Ordered
  <2> HIDE DEF F, All
  <2> QED BY <2>1, <2>2, <2>3, <2>4, <2>5
<1>2. ASSUME NEW o \in Seq(Y), NEW t \in Y, o \in T PROVE Append(o, t) \in T
  <2> DEFINE p == Append(o, t)
  <2>1. /\ F(o) \in Seq(X)
        /\ ToSet(F(o)) = All(o)
        /\ Ordered(o, Before) => Ordered(F(o), R)
    BY <1>2
  <2>2. F(p) = F(o) \o g[t]
    BY FlattenMappedAppend
  <2>3. g[t] \in Seq(X) /\ Ordered(g[t], R)
    BY DEF ListsOf
  <2>4. ToSet(p) = ToSet(o) \cup {t}
    BY ToSetAppend
  <2>5. p \in Seq(Y)
    OBVIOUS
  <2>6. All(p) = All(o) \cup ToSet(g[t])
    BY <2>4
  <2>7. ASSUME Ordered(p, Before)
        PROVE  Ordered(o, Before) /\ \A u \in ToSet(o) : u \in Y /\ u < t
    <3>1. /\ Len(p) = Len(o) + 1 /\ p[Len(o) + 1] = t /\ DOMAIN p = 1..(Len(o) + 1)
          /\ DOMAIN o = 1..Len(o) /\ Len(o) \in Nat
          /\ \A i \in 1..Len(o) : p[i] = o[i] /\ o[i] \in Y
      OBVIOUS
    <3> HIDE DEF p
    <3>2. \A i, j \in 1..(Len(o) + 1) : i < j => <<p[i], p[j]>> \in Before
      BY <2>7, <3>1 DEF Ordered
    <3>3. ASSUME NEW i \in 1..Len(o), NEW j \in 1..Len(o), i < j PROVE <<o[i], o[j]>> \in Before
      <4>1. i \in 1..(Len(o) + 1) /\ j \in 1..(Len(o) + 1)
        BY <3>1
      <4> QED BY <3>1, <3>2, <3>3, <4>1
    <3>4. Ordered(o, Before)
      BY <3>1, <3>3 DEF Ordered
    <3>5. ASSUME NEW i \in 1..Len(o) PROVE o[i] \in Y /\ o[i] < t
      <4>1. i \in 1..(Len(o) + 1) /\ Len(o) + 1 \in 1..(Len(o) + 1) /\ i < Len(o) + 1
        BY <3>1
      <4>2. <<o[i], t>> \in Before
        BY <3>1, <3>2, <4>1
      <4> QED BY <3>1, <4>2 DEF Before
    <3> QED BY <3>1, <3>4, <3>5 DEF ToSet
  <2> HIDE DEF p, F
  <2>8. F(p) \in Seq(X) /\ ToSet(F(p)) = ToSet(F(o)) \cup ToSet(g[t])
    BY <2>1, <2>2, <2>3, CatRange
  <2>9. ASSUME Ordered(p, Before) PROVE Ordered(F(p), R)
    <3>1. ASSUME NEW x \in ToSet(F(o)), NEW y \in ToSet(g[t]) PROVE <<x, y>> \in R
      <4>1. PICK u \in ToSet(o) : x \in ToSet(g[u])
        BY <2>1, <3>1
      <4>2. u \in Y /\ u < t
        BY <2>7, <2>9
      <4> QED BY <4>1, <4>2
    <3>2. Ordered(F(o), R)
      BY <2>1, <2>7, <2>9
    <3> QED BY <2>1, <2>2, <2>3, <3>1, <3>2, CatOrdered
  <2> HIDE DEF All
  <2>10. p \in T
    BY <2>1, <2>5, <2>6, <2>8, <2>9
  <2> QED BY <2>10 DEF p
<1> HIDE DEF T
<1>3. \A o \in Seq(Y) : o \in T
  BY <1>1, <1>2, SeqInduction
<1> QED BY <1>3 DEF T

SameLengths(Y, g, h) == \A t \in Y : Len(g[t]) = Len(h[t])

\* Lists of the same lengths give lists of the same length.
LEMMA FlattenLength ==
  ASSUME NEW X, NEW V, NEW Y, NEW g \in ListsOf(Y, X), NEW h \in ListsOf(Y, V),
         SameLengths(Y, g, h)
  PROVE  \A o \in Seq(Y) : Len(FlattenSeq(Mapped(g, o))) = Len(FlattenSeq(Mapped(h, o)))
<1> DEFINE F(o) == FlattenSeq(Mapped(g, o))
           H(o) == FlattenSeq(Mapped(h, o))
           T == {o \in Seq(Y) : Len(F(o)) = Len(H(o))}
<1>1. <<>> \in T
  BY FlattenMappedEmpty
<1>2. ASSUME NEW o \in Seq(Y), NEW t \in Y, o \in T PROVE Append(o, t) \in T
  <2>1. F(o) \in Seq(X) /\ F(Append(o, t)) = F(o) \o g[t]
    BY FlattenMappedAppend
  <2>2. H(o) \in Seq(V) /\ H(Append(o, t)) = H(o) \o h[t]
    BY FlattenMappedAppend
  <2>3. Len(F(o)) = Len(H(o)) /\ g[t] \in Seq(X) /\ h[t] \in Seq(V) /\ Len(g[t]) = Len(h[t])
    BY <1>2 DEF ListsOf, SameLengths
  <2>4. Append(o, t) \in Seq(Y)
    OBVIOUS
  <2> HIDE DEF F, H
  <2>5. Len(F(Append(o, t))) = Len(F(o)) + Len(g[t])
    <3>1. Len(F(o) \o g[t]) = Len(F(o)) + Len(g[t])
      <4>1. F(o) \in Seq(X) /\ g[t] \in Seq(X)
        BY <2>1, <2>3
      <4> QED BY <4>1, CatAt
    <3> QED BY <2>1, <3>1
  <2>6. Len(H(Append(o, t))) = Len(H(o)) + Len(h[t])
    <3>1. Len(H(o) \o h[t]) = Len(H(o)) + Len(h[t])
      <4>1. H(o) \in Seq(V) /\ h[t] \in Seq(V)
        BY <2>2, <2>3
      <4> QED BY <4>1, CatAt
    <3> QED BY <2>2, <3>1
  <2> QED BY <2>3, <2>4, <2>5, <2>6
<1> HIDE DEF T
<1>3. \A o \in Seq(Y) : o \in T
  BY <1>1, <1>2, SeqInduction
<1> QED BY <1>3 DEF T

\* When one element of each list is kept, one is kept for each list.
LEMMA FlattenOnly ==
  ASSUME NEW X, NEW Y, NEW g \in ListsOf(Y, X), NEW S, NEW f,
         \A t \in Y : \E x \in X : Only(g[t], S) = <<x>> /\ f[x] = t
  PROVE  \A o \in Seq(Y) : Mapped(f, Only(FlattenSeq(Mapped(g, o)), S)) = o
<1> DEFINE F(o) == FlattenSeq(Mapped(g, o))
           T == {o \in Seq(Y) : Mapped(f, Only(F(o), S)) = o}
<1>1. <<>> \in T
  <2>1. F(<<>>) = <<>>
    BY FlattenMappedEmpty
  <2>2. Only(<<>>, S) = <<>> /\ Mapped(f, <<>>) = <<>>
    BY OnlyEmpty DEF Mapped
  <2> HIDE DEF F
  <2>3. <<>> \in Seq(Y)
    OBVIOUS
  <2> QED BY <2>1, <2>2, <2>3
<1>2. ASSUME NEW o \in Seq(Y), NEW t \in Y, o \in T PROVE Append(o, t) \in T
  <2>1. F(o) \in Seq(X) /\ F(Append(o, t)) = F(o) \o g[t]
    BY FlattenMappedAppend
  <2>2. PICK x \in X : Only(g[t], S) = <<x>> /\ f[x] = t
    OBVIOUS
  <2>3. Mapped(f, Only(F(o), S)) = o /\ g[t] \in Seq(X)
    BY <1>2 DEF ListsOf
  <2>4. Append(o, t) \in Seq(Y)
    OBVIOUS
  <2> HIDE DEF F
  <2>5. Only(F(o) \o g[t], S) = Only(F(o), S) \o Only(g[t], S)
    BY <2>1, <2>3, OnlyCat
  <2>6. Only(F(o), S) \in Seq(X)
    BY <2>1, OnlyInSeq
  <2>7. Only(F(o), S) \o <<x>> = Append(Only(F(o), S), x)
    BY <2>6
  <2>8. Mapped(f, Append(Only(F(o), S), x)) = Append(Mapped(f, Only(F(o), S)), f[x])
    BY <2>6, MappedAppend
  <2>9. Mapped(f, Only(F(Append(o, t)), S)) = Append(o, t)
    BY <2>1, <2>2, <2>3, <2>5, <2>7, <2>8
  <2> QED BY <2>4, <2>9
<1> HIDE DEF T
<1>3. \A o \in Seq(Y) : o \in T
  BY <1>1, <1>2, SeqInduction
<1> QED BY <1>3 DEF T

\* When only the first element of a list is in a set.
LEMMA OnlyFirst ==
  ASSUME NEW X, NEW s \in Seq(X), NEW S, Len(s) # 0, s[1] \in S,
         \A i \in 2..Len(s) : s[i] \notin S
  PROVE  Only(s, S) = <<s[1]>>
<1> DEFINE T == {w \in Seq(X) : Len(w) # 0 /\ w[1] \in S /\ (\A i \in 2..Len(w) : w[i] \notin S)
                                => Only(w, S) = <<w[1]>>}
<1>1. <<>> \in T
  OBVIOUS
<1>2. ASSUME NEW w \in Seq(X), NEW x \in X, w \in T PROVE Append(w, x) \in T
  <2> DEFINE v == Append(w, x)
  <2>1. /\ v \in Seq(X) /\ Len(v) = Len(w) + 1 /\ v[Len(w) + 1] = x
        /\ (\A i \in 1..Len(w) : v[i] = w[i]) /\ Len(w) \in Nat
    OBVIOUS
  <2>2. Only(v, S) = IF x \in S THEN Append(Only(w, S), x) ELSE Only(w, S)
    BY OnlyAppend
  <2> HIDE DEF v
  <2> SUFFICES ASSUME v[1] \in S, \A i \in 2..Len(v) : v[i] \notin S
               PROVE  Only(v, S) = <<v[1]>>
    BY <2>1 DEF v
  <2>3. CASE Len(w) = 0
    <3>1. w = <<>> /\ v[1] = x
      BY <2>1, <2>3, EmptySeq
    <3>2. Only(v, S) = Append(<<>>, x)
      BY <2>2, <3>1, OnlyEmpty
    <3>3. Append(<<>>, x) = <<x>>
      OBVIOUS
    <3> QED BY <3>1, <3>2, <3>3
  <2>4. CASE Len(w) # 0
    <3>1. x \notin S
      <4>1. Len(w) + 1 \in 2..Len(v)
        BY <2>1, <2>4
      <4> QED BY <2>1, <4>1
    <3>2. w[1] = v[1]
      BY <2>1, <2>4
    <3>3. ASSUME NEW i \in 2..Len(w) PROVE w[i] \notin S
      <4>1. i \in 2..Len(v) /\ v[i] = w[i]
        BY <2>1
      <4> QED BY <4>1
    <3>4. Only(w, S) = <<w[1]>>
      BY <1>2, <2>4, <3>2, <3>3
    <3> QED BY <2>2, <3>1, <3>2, <3>4
  <2> QED BY <2>3, <2>4
<1> HIDE DEF T
<1>3. \A w \in Seq(X) : w \in T
  BY <1>1, <1>2, SeqInduction
<1> QED BY <1>3 DEF T

----------------------------------------------------------------------------
(* A traceroute: the events that count for a hop and a peer, and the sum of*)
(* their round-trip times.                                                 *)

SumOf(A, S, n, f) ==
  f = [i \in 0..n |-> IF i = 0 THEN 0 ELSE f[i - 1] + (IF i \in S THEN A[i].RTTMs ELSE 0)]

\* The sum of the RTTs of some of the events of A.
SumIn(A, S) ==
  LET upTo[i \in 0..Len(A)] ==
        IF i = 0 THEN 0 ELSE upTo[i - 1] + (IF i \in S THEN A[i].RTTMs ELSE 0)
  IN upTo[Len(A)]

\* The sum of round-trip times computes its result along the events.
LEMMA SumsExist ==
  ASSUME NEW A, NEW S
  PROVE  \A n \in Nat : \E f : SumOf(A, S, n, f)
<1> DEFINE T == {n \in Nat : \E f : SumOf(A, S, n, f)}
<1>1. 0 \in T
  <2>1. SumOf(A, S, 0, [i \in 0..0 |-> 0])
    BY DEF SumOf
  <2> QED BY <2>1
<1>2. ASSUME NEW n \in Nat, n \in T PROVE n + 1 \in T
  <2>1. PICK f : SumOf(A, S, n, f)
    BY <1>2
  <2> DEFINE last == f[n] + (IF n + 1 \in S THEN A[n + 1].RTTMs ELSE 0)
             g == [i \in 0..(n + 1) |-> IF i = n + 1 THEN last ELSE f[i]]
  <2>2. \A i \in 0..n : f[i] = IF i = 0 THEN 0
                                 ELSE f[i - 1] + (IF i \in S THEN A[i].RTTMs ELSE 0)
    BY <2>1 DEF SumOf
  <2>3. ASSUME NEW i \in 0..(n + 1)
        PROVE  g[i] = IF i = 0 THEN 0 ELSE g[i - 1] + (IF i \in S THEN A[i].RTTMs ELSE 0)
    <3>1. CASE i = n + 1
      <4>1. g[i - 1] = f[n] /\ g[i] = last /\ i # 0
        BY <3>1
      <4> QED BY <4>1, <3>1
    <3>2. CASE i # n + 1
      <4>1. i \in 0..n /\ g[i] = f[i]
        BY <3>2
      <4>2. i # 0 => g[i - 1] = f[i - 1]
        BY <3>2
      <4> QED BY <4>1, <4>2, <2>2
    <3> QED BY <3>1, <3>2
  <2>4. SumOf(A, S, n + 1, g)
    BY <2>3 DEF SumOf
  <2> QED BY <2>4
<1> HIDE DEF T
<1>3. \A n \in Nat : n \in T
  BY <1>1, <1>2, Induction
<1> QED BY <1>3 DEF T

\* SumIn is the last of its partial sums.
LEMMA SumIsLast ==
  ASSUME NEW X, NEW A \in Seq(X), NEW S
  PROVE  \E f : SumOf(A, S, Len(A), f) /\ SumIn(A, S) = f[Len(A)]
<1> DEFINE f == CHOOSE g : SumOf(A, S, Len(A), g)
<1>1. SumOf(A, S, Len(A), f)
  BY SumsExist
<1>2. SumIn(A, S) = f[Len(A)]
  BY DEF SumIn, SumOf
<1> QED BY <1>1, <1>2

\* A partial sum is a number, and only looks at the events it adds.
LEMMA SumsAgree ==
  ASSUME NEW A, NEW B, NEW S, NEW U, NEW n \in Nat, NEW m \in Nat, n <= m, NEW f, NEW g,
         SumOf(A, S, n, f), SumOf(B, U, m, g),
         \A i \in 1..n : A[i] = B[i] /\ (i \in S <=> i \in U),
         \A i \in 1..n : i \in S => A[i].RTTMs \in Int
  PROVE  f[n] = g[n] /\ f[n] \in Int
<1>1. \A i \in 0..n : f[i] = IF i = 0 THEN 0 ELSE f[i - 1] + (IF i \in S THEN A[i].RTTMs ELSE 0)
  BY DEF SumOf
<1>2. \A i \in 0..m : g[i] = IF i = 0 THEN 0 ELSE g[i - 1] + (IF i \in U THEN B[i].RTTMs ELSE 0)
  BY DEF SumOf
<1> DEFINE T == {i \in Nat : i <= n => f[i] = g[i] /\ f[i] \in Int}
<1>3. 0 \in T
  <2>1. 0 \in 0..n /\ 0 \in 0..m
    OBVIOUS
  <2>2. f[0] = 0 /\ g[0] = 0
    BY <1>1, <1>2, <2>1
  <2> QED BY <2>2
<1>4. ASSUME NEW i \in Nat, i \in T PROVE i + 1 \in T
  <2>1. SUFFICES ASSUME i + 1 <= n PROVE f[i + 1] = g[i + 1] /\ f[i + 1] \in Int
    OBVIOUS
  <2>2. f[i] = g[i] /\ f[i] \in Int /\ i + 1 \in 0..n /\ i + 1 \in 0..m /\ i + 1 \in 1..n
        /\ (i + 1) - 1 = i
    BY <1>4, <2>1
  <2>3. f[i + 1] = f[i] + (IF i + 1 \in S THEN A[i + 1].RTTMs ELSE 0)
    BY <1>1, <2>2
  <2>4. g[i + 1] = g[i] + (IF i + 1 \in U THEN B[i + 1].RTTMs ELSE 0)
    BY <1>2, <2>2
  <2>5. A[i + 1] = B[i + 1] /\ (i + 1 \in S <=> i + 1 \in U)
        /\ (i + 1 \in S => A[i + 1].RTTMs \in Int)
    BY <2>2
  <2> QED BY <2>2, <2>3, <2>4, <2>5
<1> HIDE DEF T
<1>5. n \in T
  BY <1>3, <1>4, Induction
<1> QED BY <1>5 DEF T

\* What the positions of a list of events know about the list.
TypedTrace(A) ==
  /\ A \in Seq(TraceEvents)
  /\ \A i \in 1..Len(A) : A[i].RTTMs \in Nat /\ A[i].Seq \in Int

\* What EventsAreTracked says of the events that arrived.
LEMMA TraceTyped ==
  ASSUME NEW A \in Seq(TraceEvents)
  PROVE  TypedTrace(A)
<1>1. ASSUME NEW i \in 1..Len(A) PROVE A[i].RTTMs \in Nat /\ A[i].Seq \in Int
  <2>1. A[i] \in TraceEvents
    OBVIOUS
  <2> QED BY <2>1, EventsAreTracked
<1> QED BY <1>1 DEF TypedTrace

\* The sum of the RTTs of no event, and of events with one more.
LEMMA SumOfNone ==
  ASSUME NEW A \in Seq(TraceEvents)
  PROVE  SumIn(A, {}) = 0
<1>1. PICK f : SumOf(A, {}, Len(A), f) /\ SumIn(A, {}) = f[Len(A)]
  BY SumIsLast
<1>2. \A i \in 0..Len(A) : f[i] = IF i = 0 THEN 0 ELSE f[i - 1] + 0
  <2>1. \A i \in 0..Len(A) :
           f[i] = IF i = 0 THEN 0 ELSE f[i - 1] + (IF i \in {} THEN A[i].RTTMs ELSE 0)
    BY <1>1 DEF SumOf
  <2> QED BY <2>1
<1> DEFINE T == {i \in Nat : i <= Len(A) => f[i] = 0}
<1>3. 0 \in T
  BY <1>2
<1>4. ASSUME NEW i \in Nat, i \in T PROVE i + 1 \in T
  <2>1. SUFFICES ASSUME i + 1 <= Len(A) PROVE f[i + 1] = 0
    OBVIOUS
  <2>2. f[i] = 0 /\ i + 1 \in 0..Len(A) /\ (i + 1) - 1 = i
    BY <1>4, <2>1
  <2> QED BY <1>2, <2>2
<1> HIDE DEF T
<1>5. Len(A) \in T
  BY <1>3, <1>4, Induction
<1> QED BY <1>1, <1>5 DEF T

\* One more event, which is added or not.
LEMMA SumAppend ==
  ASSUME NEW A \in Seq(TraceEvents), NEW ev \in TraceEvents, NEW S \in SUBSET (1..Len(A))
  PROVE  /\ SumIn(A, S) \in Int
         /\ SumIn(Append(A, ev), S) = SumIn(A, S)
         /\ SumIn(Append(A, ev), S \cup {Len(A) + 1}) = SumIn(A, S) + ev.RTTMs
<1> DEFINE B == Append(A, ev)
           n == Len(A)
           U == S \cup {n + 1}
<1>1. /\ B \in Seq(TraceEvents) /\ Len(B) = n + 1 /\ B[n + 1] = ev /\ n \in Nat
      /\ \A i \in 1..n : B[i] = A[i]
  OBVIOUS
<1>2. \A i \in 1..n : i \in S => A[i].RTTMs \in Int
  BY TraceTyped DEF TypedTrace
<1>3. ev.RTTMs \in Int
  BY EventsAreTracked
<1>4. PICK f : SumOf(A, S, n, f) /\ SumIn(A, S) = f[n]
  BY SumIsLast
<1>5. PICK g : SumOf(B, S, n + 1, g) /\ SumIn(B, S) = g[n + 1]
  BY <1>1, SumIsLast
<1>6. PICK h : SumOf(B, U, n + 1, h) /\ SumIn(B, U) = h[n + 1]
  BY <1>1, SumIsLast
<1>7. S \subseteq 1..n /\ n + 1 \notin S
  BY <1>1
<1> HIDE DEF B
<1>8. f[n] = g[n] /\ f[n] \in Int
  BY <1>1, <1>2, <1>4, <1>5, SumsAgree
<1>9. f[n] = h[n]
  <2>1. \A i \in 1..n : A[i] = B[i] /\ (i \in S <=> i \in U)
    BY <1>1
  <2>2. n + 1 \in Nat /\ n <= n + 1
    BY <1>1
  <2> HIDE DEF U, n
  <2> QED BY <1>1, <1>2, <1>4, <1>6, <2>1, <2>2, SumsAgree
<1>10. g[n + 1] = g[n] + 0
  <2>1. g[n + 1] = IF n + 1 = 0 THEN 0
                   ELSE g[(n + 1) - 1] + (IF n + 1 \in S THEN B[n + 1].RTTMs ELSE 0)
    BY <1>1, <1>5 DEF SumOf
  <2> QED BY <1>1, <1>7, <2>1
<1>11. h[n + 1] = h[n] + ev.RTTMs
  <2>1. h[n + 1] = IF n + 1 = 0 THEN 0
                   ELSE h[(n + 1) - 1] + (IF n + 1 \in U THEN B[n + 1].RTTMs ELSE 0)
    BY <1>1, <1>6 DEF SumOf
  <2> QED BY <1>1, <2>1
<1>12. g[n + 1] = f[n] /\ h[n + 1] = f[n] + ev.RTTMs
  <2> HIDE DEF U, n
  <2>1. g[n] \in Int /\ g[n] = f[n] /\ h[n] = f[n]
    BY <1>8, <1>9
  <2>2. g[n] + 0 = g[n]
    BY <2>1
  <2> QED BY <1>10, <1>11, <2>1, <2>2
<1>13. SumIn(A, S) \in Int /\ SumIn(B, S) = SumIn(A, S) /\ SumIn(B, U) = SumIn(A, S) + ev.RTTMs
  <2> HIDE DEF U, n
  <2> QED BY <1>4, <1>5, <1>6, <1>8, <1>12
<1> QED BY <1>13 DEF B

----------------------------------------------------------------------------
\* Counted and CountedFor, for a list of events.
CountedIn(A, t) ==
  {i \in DOMAIN A :
     /\ HopTTL(A[i]) = t
     /\ \A j \in (i + 1)..Len(A) : A[j].LastHop => t <= HopTTL(A[j])}

PeerIn(A, t, k) == {i \in CountedIn(A, t) : PeerKey(A[i]) = k}

\* A hop has a positive number.
LEMMA HopTTLType == \A ev \in TraceEvents : HopTTL(ev) \in Nat \ {0}
BY EventsAreTracked DEF HopTTL

\* One more event counts for its hop, and, from a last hop, makes those behind it
\* count no more.
LEMMA CountedAppend ==
  ASSUME NEW A \in Seq(TraceEvents), NEW ev \in TraceEvents, NEW t \in Nat
  PROVE  /\ CountedIn(A, t) \subseteq 1..Len(A)
         /\ CountedIn(Append(A, ev), t)
              = (IF ev.LastHop /\ ~(t <= HopTTL(ev)) THEN {} ELSE CountedIn(A, t))
                \cup (IF HopTTL(ev) = t THEN {Len(A) + 1} ELSE {})
<1> DEFINE B == Append(A, ev)
           n == Len(A)
<1>1. /\ B \in Seq(TraceEvents) /\ Len(B) = n + 1 /\ B[n + 1] = ev /\ n \in Nat
      /\ DOMAIN A = 1..n /\ DOMAIN B = 1..(n + 1)
      /\ \A i \in 1..n : B[i] = A[i]
  OBVIOUS
<1> HIDE DEF B, n
<1>2. CountedIn(A, t) \subseteq 1..n
  BY <1>1 DEF CountedIn
<1>3. n + 1 \in CountedIn(B, t) <=> HopTTL(ev) = t
  <2>1. n + 1 \in 1..(n + 1) /\ (n + 1 + 1)..(n + 1) = {}
    BY <1>1
  <2>2. n + 1 \in CountedIn(B, t) <=>
          /\ n + 1 \in DOMAIN B /\ HopTTL(B[n + 1]) = t
          /\ \A j \in (n + 1 + 1)..Len(B) : B[j].LastHop => t <= HopTTL(B[j])
    BY DEF CountedIn
  <2> QED BY <1>1, <2>1, <2>2
<1>4. ASSUME NEW i \in 1..n
      PROVE  i \in CountedIn(B, t) <=> i \in CountedIn(A, t) /\ (ev.LastHop => t <= HopTTL(ev))
  <2>1. i \in CountedIn(B, t) <=>
          /\ i \in DOMAIN B /\ HopTTL(B[i]) = t
          /\ \A j \in (i + 1)..Len(B) : B[j].LastHop => t <= HopTTL(B[j])
    BY DEF CountedIn
  <2>2. i \in CountedIn(A, t) <=>
          /\ i \in DOMAIN A /\ HopTTL(A[i]) = t
          /\ \A j \in (i + 1)..Len(A) : A[j].LastHop => t <= HopTTL(A[j])
    BY DEF CountedIn
  <2>3. i \in DOMAIN A /\ i \in DOMAIN B /\ A[i] = B[i]
    BY <1>1
  <2>4. (\A j \in (i + 1)..(n + 1) : B[j].LastHop => t <= HopTTL(B[j]))
        <=> (\A j \in (i + 1)..n : A[j].LastHop => t <= HopTTL(A[j]))
            /\ (ev.LastHop => t <= HopTTL(ev))
    <3>1. \A j \in (i + 1)..n : B[j] = A[j] /\ j \in (i + 1)..(n + 1)
      BY <1>1
    <3>2. n + 1 \in (i + 1)..(n + 1) /\ B[n + 1] = ev
      BY <1>1
    <3>3. \A j \in (i + 1)..(n + 1) : j = n + 1 \/ j \in (i + 1)..n
      BY <1>1
    <3> QED BY <3>1, <3>2, <3>3, Zenon
  <2>5. Len(A) = n /\ Len(B) = n + 1
    BY <1>1 DEF n
  <2> QED BY <2>1, <2>2, <2>3, <2>4, <2>5
<1>5. CountedIn(B, t) \subseteq 1..(n + 1)
  BY <1>1 DEF CountedIn
<1>6. \A i \in 1..(n + 1) : i = n + 1 \/ i \in 1..n
  BY <1>1
<1>7. n + 1 \notin 1..n
  BY <1>1
<1>8. CountedIn(B, t) = (IF ev.LastHop /\ ~(t <= HopTTL(ev)) THEN {} ELSE CountedIn(A, t))
                        \cup (IF HopTTL(ev) = t THEN {n + 1} ELSE {})
  <2>1. CASE ev.LastHop /\ ~(t <= HopTTL(ev))
    BY <1>3, <1>4, <1>5, <1>6, <2>1
  <2>2. CASE ~(ev.LastHop /\ ~(t <= HopTTL(ev)))
    BY <1>2, <1>3, <1>4, <1>5, <1>6, <1>7, <2>2
  <2> QED BY <2>1, <2>2
<1> QED BY <1>2, <1>8 DEF B, n

----------------------------------------------------------------------------
(* The statistics of one peer fit the events at a set of positions: PeerFits*)
(* holds of no event, and of one more.                                     *)

PeerFields ==
  {"Peer", "PeerRDNS", "Events", "ReceivedCount", "LossCount", "MinRTT", "MaxRTT",
   "TotalRTT", "PMTU"}

IsPeer(p) == p = [x \in PeerFields |-> p[x]]

\* By Seq, and then in the order of arrival.
SeqBefore(A) ==
  {w \in Nat \X Nat : \/ A[w[1]].Seq < A[w[2]].Seq
                      \/ A[w[1]].Seq = A[w[2]].Seq /\ w[1] < w[2]}

GotOf(A, S) == {i \in S : ~A[i].Timeout}

CountsFit(p, S, G) ==
  p.ReceivedCount = Cardinality(G) /\ p.LossCount = Cardinality(S) - Cardinality(G)

RTTsFit(A, p, G) ==
  /\ G = {} => p.MinRTT = -1 /\ p.MaxRTT = -1
  /\ G # {} => \E i \in G : p.MinRTT = A[i].RTTMs /\ \A j \in G : p.MinRTT <= A[j].RTTMs
  /\ G # {} => \E i \in G : p.MaxRTT = A[i].RTTMs /\ \A j \in G : p.MaxRTT >= A[j].RTTMs
  /\ p.TotalRTT = SumIn(A, G)

EventsFit(A, p, S) ==
  \E q \in Seq(S) : ToSet(q) = S /\ Ordered(q, SeqBefore(A)) /\ p.Events = Mapped(A, q)

NameFits(p, k, S) ==
  /\ p.Peer = IF S = {} \/ k = Star THEN NoPeer ELSE k
  /\ p.PeerRDNS # "[TIMEOUT]"

\* The statistics p are those of the events at the positions S.
PeerFits(A, p, k, S) ==
  /\ IsPeer(p)
  /\ CountsFit(p, S, GotOf(A, S))
  /\ RTTsFit(A, p, GotOf(A, S))
  /\ EventsFit(A, p, S)
  /\ NameFits(p, k, S)

\* Statistics of no event.
LEMMA NewPeerFits ==
  ASSUME NEW A \in Seq(TraceEvents), NEW k
  PROVE  PeerFits(A, NewPeer, k, {})
<1>1. IsPeer(NewPeer)
  BY DEF IsPeer, NewPeer, PeerFields
<1>2. GotOf(A, {}) = {}
  BY DEF GotOf
<1>3. Cardinality({}) = 0
  BY FS_EmptySet
<1>4. CountsFit(NewPeer, {}, {})
  BY <1>3 DEF CountsFit, NewPeer
<1>5. RTTsFit(A, NewPeer, {})
  BY SumOfNone DEF RTTsFit, NewPeer
<1>6. EventsFit(A, NewPeer, {})
  <2>1. <<>> \in Seq({}) /\ ToSet(<<>>) = {} /\ Ordered(<<>>, SeqBefore(A))
    BY DEF ToSet, Ordered
  <2>2. NewPeer.Events = Mapped(A, <<>>)
    BY DEF NewPeer, Mapped
  <2> QED BY <2>1, <2>2 DEF EventsFit
<1>7. NameFits(NewPeer, k, {})
  BY DEF NameFits, NewPeer, NoPeer
<1> QED BY <1>1, <1>2, <1>4, <1>5, <1>6, <1>7 DEF PeerFits

\* An event of another hop or peer changes nothing.
LEMMA PeerStays ==
  ASSUME NEW A \in Seq(TraceEvents), NEW ev \in TraceEvents, NEW S \in SUBSET (1..Len(A)),
         NEW p, NEW k, PeerFits(A, p, k, S)
  PROVE  PeerFits(Append(A, ev), p, k, S)
<1> DEFINE B == Append(A, ev)
           G == GotOf(A, S)
<1>1. B \in Seq(TraceEvents) /\ \A i \in S : B[i] = A[i]
  OBVIOUS
<1>2. G \in SUBSET (1..Len(A))
  BY DEF GotOf
<1>3. SumIn(B, G) = SumIn(A, G)
  BY <1>2, SumAppend
<1> HIDE DEF B
<1>4. GotOf(B, S) = G
  BY <1>1 DEF GotOf
<1>5. G \subseteq S
  BY DEF GotOf
<1> HIDE DEF G
<1>6. RTTsFit(A, p, G)
  BY DEF PeerFits, G
<1>7. RTTsFit(B, p, G)
  <2>1. \A i \in G : B[i] = A[i]
    BY <1>1, <1>5
  <2> QED BY <1>3, <1>6, <2>1 DEF RTTsFit
<1>8. EventsFit(B, p, S)
  <2>1. PICK q \in Seq(S) : ToSet(q) = S /\ Ordered(q, SeqBefore(A)) /\ p.Events = Mapped(A, q)
    BY DEF PeerFits, EventsFit
  <2>2. \A i \in DOMAIN q : q[i] \in S /\ B[q[i]] = A[q[i]] /\ q[i] \in Nat
    <3>1. \A i \in DOMAIN q : q[i] \in S
      OBVIOUS
    <3>2. \A i \in S : i \in Nat
      OBVIOUS
    <3> QED BY <1>1, <3>1, <3>2
  <2>3. Ordered(q, SeqBefore(B))
    <3>1. ASSUME NEW i \in DOMAIN q, NEW j \in DOMAIN q, i < j PROVE <<q[i], q[j]>> \in SeqBefore(B)
      <4>1. <<q[i], q[j]>> \in SeqBefore(A)
        BY <2>1, <3>1 DEF Ordered
      <4> QED BY <2>2, <4>1 DEF SeqBefore
    <3> QED BY <3>1 DEF Ordered
  <2>4. Mapped(B, q) = Mapped(A, q)
    BY <2>2 DEF Mapped
  <2> QED BY <2>1, <2>3, <2>4 DEF EventsFit
<1>9. PeerFits(B, p, k, S)
  BY <1>4, <1>7, <1>8 DEF PeerFits, G
<1> QED BY <1>9 DEF B

\* w is what PeerStats.WriteEvent makes of p.
IsWritten(p, ev, w) ==
  /\ IsPeer(w)
  /\ w.Peer = Or(p.Peer, ev.Peer, NoPeer)
  /\ w.Events = InsertBySeq(p.Events, ev)
  /\ ev.Timeout => /\ w.LossCount = p.LossCount + 1
                   /\ w.ReceivedCount = p.ReceivedCount
                   /\ w.PeerRDNS = p.PeerRDNS /\ w.MinRTT = p.MinRTT
                   /\ w.MaxRTT = p.MaxRTT /\ w.TotalRTT = p.TotalRTT
  /\ ~ev.Timeout => /\ w.ReceivedCount = p.ReceivedCount + 1
                    /\ w.LossCount = p.LossCount
                    /\ w.PeerRDNS = Or(ev.PeerRDNS, p.PeerRDNS, "")
                    /\ w.MinRTT = IF p.MinRTT = -1 \/ ev.RTTMs < p.MinRTT
                                    THEN ev.RTTMs ELSE p.MinRTT
                    /\ w.MaxRTT = IF p.MaxRTT = -1 \/ ev.RTTMs > p.MaxRTT
                                    THEN ev.RTTMs ELSE p.MaxRTT
                    /\ w.TotalRTT = p.TotalRTT + ev.RTTMs

\* What PeerStats.WriteEvent writes.
LEMMA Written ==
  ASSUME NEW p, IsPeer(p), NEW ev
  PROVE  IsWritten(p, ev, PeerWriteEvent(p, ev))
<1>1. DOMAIN p = PeerFields /\ p = [x \in PeerFields |-> p[x]]
  BY DEF IsPeer
<1>2. CASE ev.Timeout
  BY <1>1, <1>2 DEF PeerWriteEvent, IsWritten, IsPeer, PeerFields
<1>3. CASE ~ev.Timeout
  BY <1>1, <1>3 DEF PeerWriteEvent, IsWritten, IsPeer, PeerFields
<1> QED BY <1>2, <1>3

\* The list of events, sorted by Seq.
LEMMA EventsInsert ==
  ASSUME NEW A \in Seq(TraceEvents), NEW ev \in TraceEvents, NEW S \in SUBSET (1..Len(A)),
         NEW p, NEW w, EventsFit(A, p, S), w.Events = InsertBySeq(p.Events, ev)
  PROVE  EventsFit(Append(A, ev), w, S \cup {Len(A) + 1})
<1> DEFINE B == Append(A, ev)
           n == Len(A)
           U == S \cup {n + 1}
<1>1. /\ B \in Seq(TraceEvents) /\ B[n + 1] = ev /\ n \in Nat
      /\ \A i \in 1..n : B[i] = A[i] /\ A[i] \in TraceEvents
  OBVIOUS
<1>2. \A i \in 1..n : A[i].Seq \in Int
  BY TraceTyped DEF TypedTrace
<1>3. ev.Seq \in Int
  BY EventsAreTracked
<1>0. \A i \in S : i \in 1..n
  OBVIOUS
<1> HIDE DEF B, n
<1>4. PICK q \in Seq(S) : ToSet(q) = S /\ Ordered(q, SeqBefore(A)) /\ p.Events = Mapped(A, q)
  BY DEF EventsFit
<1> DEFINE E == Mapped(A, q)
           l == Len(q)
           D == {i \in DOMAIN E : E[i].Seq <= ev.Seq}
           m == Cardinality(D)
<1>5. l \in Nat /\ DOMAIN q = 1..l /\ \A i \in 1..l : q[i] \in 1..n /\ q[i] \in S
  <2>1. l \in Nat /\ DOMAIN q = 1..l /\ \A i \in 1..l : q[i] \in S
    OBVIOUS
  <2> QED BY <1>0, <2>1
<1>6. q \in Seq(U) /\ n + 1 \in U
  OBVIOUS
<1>7. E \in Seq(TraceEvents) /\ Len(E) = l /\ DOMAIN E = 1..l /\ \A i \in 1..l : E[i] = A[q[i]]
  <2>1. DOMAIN E = 1..l /\ \A i \in 1..l : E[i] = A[q[i]] /\ E[i] \in TraceEvents
    BY <1>1, <1>5 DEF Mapped
  <2> HIDE DEF l
  <2>2. E = [i \in 1..l |-> E[i]]
    BY <1>5 DEF Mapped
  <2>3. l \in Nat
    BY <1>5
  <2> HIDE DEF E
  <2>5. E \in [1..l -> TraceEvents]
    BY <2>1, <2>2
  <2>4. E \in Seq(TraceEvents) /\ Len(E) = l
    BY <2>3, <2>5
  <2> QED BY <2>1, <2>4, Zenon
<1> HIDE DEF E, l
<1>8. \A i, j \in 1..l : i < j => <<q[i], q[j]>> \in SeqBefore(A)
  BY <1>4, <1>5 DEF Ordered
<1>9. m \in 0..l /\ D = 1..m
  <2>1. D \subseteq 1..l
    BY <1>7
  <2>2. ASSUME NEW i \in D, NEW j \in 1..l, j < i PROVE j \in D
    <3>1. i \in 1..l /\ A[q[i]].Seq <= ev.Seq
      BY <1>7, <2>2
    <3>2. <<q[j], q[i]>> \in SeqBefore(A)
      BY <1>8, <2>2, <3>1
    <3>3. A[q[j]].Seq < A[q[i]].Seq \/ A[q[j]].Seq = A[q[i]].Seq
      BY <3>2 DEF SeqBefore
    <3>4. A[q[j]].Seq \in Int /\ A[q[i]].Seq \in Int
      BY <1>2, <1>5, <3>1
    <3>5. A[q[j]].Seq <= ev.Seq
      BY <1>3, <3>1, <3>3, <3>4
    <3> QED BY <1>7, <3>5
  <2> HIDE DEF D
  <2> QED BY <1>5, <2>1, <2>2, PrefixSize
<1>10. InsertBySeq(E, ev) = InsertAt(E, m + 1, ev)
  BY DEF InsertBySeq
<1> HIDE DEF D, m
<1>11. ASSUME NEW i \in 1..l PROVE i \in 1..m <=> A[q[i]].Seq <= ev.Seq
  BY <1>7, <1>9 DEF D
<1> DEFINE r == InsertAt(q, m + 1, n + 1)
<1>12. /\ r \in Seq(U) /\ Len(r) = l + 1
       /\ \A i \in 1..m : r[i] = q[i]
       /\ r[m + 1] = n + 1
       /\ \A i \in (m + 1)..l : r[i + 1] = q[i]
  <2>1. m \in 0..Len(q)
    BY <1>9 DEF l
  <2> HIDE DEF U, r
  <2>2. /\ InsertAt(q, m + 1, n + 1) \in Seq(U)
        /\ IsInserted(InsertAt(q, m + 1, n + 1), q, m, n + 1)
    BY <1>6, <2>1, InsertAtFacts
  <2> QED BY <2>2, Zenon DEF l, r, IsInserted
<1>13. /\ InsertAt(E, m + 1, ev) \in Seq(TraceEvents) /\ Len(InsertAt(E, m + 1, ev)) = l + 1
       /\ \A i \in 1..m : InsertAt(E, m + 1, ev)[i] = E[i]
       /\ InsertAt(E, m + 1, ev)[m + 1] = ev
       /\ \A i \in (m + 1)..l : InsertAt(E, m + 1, ev)[i + 1] = E[i]
  <2>1. m \in 0..Len(E) /\ E \in Seq(TraceEvents) /\ Len(E) = l
    BY <1>7, <1>9
  <2>2. /\ InsertAt(E, m + 1, ev) \in Seq(TraceEvents)
        /\ IsInserted(InsertAt(E, m + 1, ev), E, m, ev)
    BY <2>1, InsertAtFacts
  <2> QED BY <2>1, <2>2, Zenon DEF IsInserted
<1>14. Ordered(r, SeqBefore(B)) /\ ToSet(r) = U
  <2>1. Ordered(q, SeqBefore(B))
    <3>1. ASSUME NEW i \in 1..l, NEW j \in 1..l, i < j PROVE <<q[i], q[j]>> \in SeqBefore(B)
      <4>1. <<q[i], q[j]>> \in SeqBefore(A)
        BY <1>8, <3>1
      <4>2. B[q[i]] = A[q[i]] /\ B[q[j]] = A[q[j]]
        BY <1>1, <1>5
      <4> QED BY <4>1, <4>2 DEF SeqBefore
    <3> QED BY <1>5, <3>1 DEF Ordered
  <2>2. ASSUME NEW i \in 1..m PROVE <<q[i], n + 1>> \in SeqBefore(B)
    <3>1. i \in 1..l
      BY <1>5, <1>9
    <3>2. A[q[i]].Seq <= ev.Seq
      BY <1>11, <3>1
    <3>3. q[i] \in 1..n /\ q[i] < n + 1 /\ q[i] \in Nat /\ n + 1 \in Nat
      BY <1>1, <1>5, <3>1
    <3>4. B[q[i]] = A[q[i]] /\ A[q[i]].Seq \in Int
      BY <1>1, <1>2, <3>3
    <3>5. B[q[i]].Seq <= B[n + 1].Seq /\ B[q[i]].Seq \in Int /\ B[n + 1].Seq \in Int
      BY <1>1, <1>3, <3>2, <3>4
    <3>6. B[q[i]].Seq < B[n + 1].Seq \/ B[q[i]].Seq = B[n + 1].Seq
      BY <3>5
    <3> QED BY <3>3, <3>6 DEF SeqBefore
  <2>3. ASSUME NEW i \in (m + 1)..l PROVE <<n + 1, q[i]>> \in SeqBefore(B)
    <3>1. i \in 1..l /\ i \notin 1..m
      BY <1>5, <1>9
    <3>2. ~(A[q[i]].Seq <= ev.Seq)
      BY <1>11, <3>1
    <3>3. q[i] \in 1..n /\ q[i] \in Nat /\ n + 1 \in Nat
      BY <1>1, <1>5, <3>1
    <3>4. B[q[i]] = A[q[i]] /\ A[q[i]].Seq \in Int
      BY <1>1, <1>2, <3>3
    <3>5. B[n + 1].Seq < B[q[i]].Seq
      <4>1. B[n + 1].Seq = ev.Seq /\ B[q[i]].Seq = A[q[i]].Seq
        BY <1>1, <3>4
      <4> QED BY <1>3, <3>2, <3>4, <4>1
    <3> QED BY <3>3, <3>5 DEF SeqBefore
  <2>4. m \in 0..Len(q)
    BY <1>9 DEF l
  <2>5. \A i \in (m + 1)..Len(q) : <<n + 1, q[i]>> \in SeqBefore(B)
    BY <2>3 DEF l
  <2> HIDE DEF U
  <2>6. Ordered(InsertAt(q, m + 1, n + 1), SeqBefore(B))
        /\ ToSet(InsertAt(q, m + 1, n + 1)) = ToSet(q) \cup {n + 1}
    <3> DEFINE R == SeqBefore(B)
               x == n + 1
    <3>1. /\ q \in Seq(U) /\ x \in U /\ m \in 0..Len(q) /\ Ordered(q, R)
          /\ \A i \in 1..m : <<q[i], x>> \in R
          /\ \A i \in (m + 1)..Len(q) : <<x, q[i]>> \in R
      BY <1>6, <2>1, <2>2, <2>4, <2>5, Zenon
    <3> HIDE DEF R, x, m, n, B
    <3>2. Ordered(InsertAt(q, m + 1, x), R)
          /\ ToSet(InsertAt(q, m + 1, x)) = ToSet(q) \cup {x}
      BY <3>1, InsertAtOrdered
    <3> QED BY <3>2, Zenon DEF R, x
  <2> QED BY <1>4, <2>6 DEF U
<1> HIDE DEF r
<1>15. Mapped(B, r) = InsertAt(E, m + 1, ev)
  <2> DEFINE F == InsertAt(E, m + 1, ev)
             H == Mapped(B, r)
  <2>1. DOMAIN r = 1..(l + 1)
    BY <1>5, <1>12
  <2>2. \A i \in 1..(l + 1) : H[i] = B[r[i]]
    BY <2>1 DEF Mapped
  <2>3. DOMAIN H = 1..(l + 1) /\ H = [i \in 1..(l + 1) |-> H[i]]
    BY <2>1 DEF Mapped
  <2>4. F = [i \in 1..(l + 1) |-> F[i]]
    <3>1. F \in Seq(TraceEvents) /\ Len(F) = l + 1
      BY <1>13
    <3> HIDE DEF F
    <3> QED BY <3>1
  <2> HIDE DEF F, H
  <2>5. ASSUME NEW i \in 1..(l + 1) PROVE H[i] = F[i]
    <3>1. CASE i \in 1..m
      <4>1. i \in 1..l /\ q[i] \in 1..n
        BY <1>5, <1>9, <3>1
      <4>2. H[i] = B[q[i]] /\ F[i] = E[i]
        BY <1>12, <1>13, <2>2, <3>1 DEF F
      <4> QED BY <1>1, <1>7, <4>1, <4>2
    <3>2. CASE i = m + 1
      BY <1>1, <1>12, <1>13, <2>2, <3>2 DEF F
    <3>3. CASE i \in (m + 2)..(l + 1)
      <4>1. i - 1 \in (m + 1)..l /\ i - 1 \in 1..l /\ (i - 1) + 1 = i
        BY <1>5, <1>9, <3>3
      <4>2. q[i - 1] \in 1..n
        BY <1>5, <4>1
      <4>3. r[i] = q[i - 1] /\ F[i] = E[i - 1]
        BY <1>12, <1>13, <4>1 DEF F
      <4> QED BY <1>1, <1>7, <2>2, <4>1, <4>2, <4>3
    <3> QED BY <1>5, <1>9, <3>1, <3>2, <3>3
  <2>6. H = F
    BY <2>3, <2>4, <2>5
  <2> QED BY <2>6 DEF F, H
<1>16. w.Events = Mapped(B, r)
  BY <1>4, <1>10, <1>15 DEF E
<1>17. EventsFit(B, w, U)
  BY <1>12, <1>14, <1>16 DEF EventsFit
<1> QED BY <1>17 DEF B, n

\* Positions of events, and one more.
LEMMA PositionsFinite ==
  ASSUME NEW n \in Nat, NEW S \in SUBSET (1..n)
  PROVE  /\ IsFiniteSet(S) /\ Cardinality(S) \in Nat
         /\ IsFiniteSet(S \cup {n + 1}) /\ Cardinality(S \cup {n + 1}) = Cardinality(S) + 1
<1>1. IsFiniteSet(1..n)
  BY FS_Interval
<1>2. S \subseteq 1..n
  OBVIOUS
<1>3. IsFiniteSet(S)
  BY <1>1, <1>2, FS_Subset
<1>4. n + 1 \notin S
  OBVIOUS
<1> QED BY <1>3, <1>4, FS_AddElement, FS_CardinalityType

\* The extremes of the RTTs of the events so far and one more.
LEMMA RTTsAppend ==
  ASSUME NEW A \in Seq(TraceEvents), NEW ev \in TraceEvents, NEW G \in SUBSET (1..Len(A)),
         NEW p, NEW w, RTTsFit(A, p, G),
         w.MinRTT = IF p.MinRTT = -1 \/ ev.RTTMs < p.MinRTT THEN ev.RTTMs ELSE p.MinRTT,
         w.MaxRTT = IF p.MaxRTT = -1 \/ ev.RTTMs > p.MaxRTT THEN ev.RTTMs ELSE p.MaxRTT,
         w.TotalRTT = p.TotalRTT + ev.RTTMs
  PROVE  RTTsFit(Append(A, ev), w, G \cup {Len(A) + 1})
<1> DEFINE B == Append(A, ev)
           n == Len(A)
           U == G \cup {n + 1}
<1>1. B[n + 1] = ev /\ \A i \in G : B[i] = A[i]
  OBVIOUS
<1>2. \A i \in G : A[i].RTTMs \in Nat
  BY TraceTyped DEF TypedTrace
<1>3. ev.RTTMs \in Nat
  BY EventsAreTracked
<1>4. SumIn(B, U) = SumIn(A, G) + ev.RTTMs
  BY SumAppend
<1> HIDE DEF B, n
<1>5. w.TotalRTT = SumIn(B, U)
  BY <1>4 DEF RTTsFit
<1>6. U # {} /\ n + 1 \in U /\ G \subseteq U /\ \A j \in U : j \in G \/ j = n + 1
  OBVIOUS
<1> HIDE DEF U
<1>7. \E i \in U : w.MinRTT = B[i].RTTMs /\ \A j \in U : w.MinRTT <= B[j].RTTMs
  <2>1. CASE G = {}
    <3>1. p.MinRTT = -1
      BY <2>1 DEF RTTsFit
    <3>2. w.MinRTT = B[n + 1].RTTMs
      BY <1>1, <3>1
    <3>3. \A j \in U : j = n + 1
      BY <1>6, <2>1
    <3>4. B[n + 1].RTTMs <= B[n + 1].RTTMs
      BY <1>1, <1>3
    <3> QED BY <1>6, <3>2, <3>3, <3>4
  <2>2. CASE G # {}
    <3>1. PICK i \in G : p.MinRTT = A[i].RTTMs /\ \A j \in G : p.MinRTT <= A[j].RTTMs
      BY <2>2 DEF RTTsFit
    <3>2. p.MinRTT \in Nat /\ p.MinRTT # -1
      BY <1>2, <3>1
    <3>3. CASE ev.RTTMs < p.MinRTT
      <4>1. w.MinRTT = ev.RTTMs
        BY <3>3
      <4>2. \A j \in G : ev.RTTMs <= B[j].RTTMs
        BY <1>1, <1>2, <1>3, <3>1, <3>2, <3>3
      <4>3. ev.RTTMs <= B[n + 1].RTTMs
        BY <1>1, <1>3
      <4> QED BY <1>1, <1>6, <4>1, <4>2, <4>3
    <3>4. CASE ~(ev.RTTMs < p.MinRTT)
      <4>1. w.MinRTT = p.MinRTT
        BY <3>2, <3>4
      <4>2. p.MinRTT <= B[n + 1].RTTMs
        BY <1>1, <1>3, <3>2, <3>4
      <4>3. \A j \in G : p.MinRTT <= B[j].RTTMs
        BY <1>1, <3>1
      <4>4. i \in U /\ p.MinRTT = B[i].RTTMs
        BY <1>1, <1>6, <3>1
      <4> QED BY <1>6, <4>1, <4>2, <4>3, <4>4
    <3> QED BY <3>3, <3>4
  <2> QED BY <2>1, <2>2
<1>8. \E i \in U : w.MaxRTT = B[i].RTTMs /\ \A j \in U : w.MaxRTT >= B[j].RTTMs
  <2>1. CASE G = {}
    <3>1. p.MaxRTT = -1
      BY <2>1 DEF RTTsFit
    <3>2. w.MaxRTT = B[n + 1].RTTMs
      BY <1>1, <3>1
    <3>3. \A j \in U : j = n + 1
      BY <1>6, <2>1
    <3>4. B[n + 1].RTTMs >= B[n + 1].RTTMs
      BY <1>1, <1>3
    <3> QED BY <1>6, <3>2, <3>3, <3>4
  <2>2. CASE G # {}
    <3>1. PICK i \in G : p.MaxRTT = A[i].RTTMs /\ \A j \in G : p.MaxRTT >= A[j].RTTMs
      BY <2>2 DEF RTTsFit
    <3>2. p.MaxRTT \in Nat /\ p.MaxRTT # -1
      BY <1>2, <3>1
    <3>3. CASE ev.RTTMs > p.MaxRTT
      <4>1. w.MaxRTT = ev.RTTMs
        BY <3>3
      <4>2. \A j \in G : ev.RTTMs >= B[j].RTTMs
        BY <1>1, <1>2, <1>3, <3>1, <3>2, <3>3
      <4>3. ev.RTTMs >= B[n + 1].RTTMs
        BY <1>1, <1>3
      <4> QED BY <1>1, <1>6, <4>1, <4>2, <4>3
    <3>4. CASE ~(ev.RTTMs > p.MaxRTT)
      <4>1. w.MaxRTT = p.MaxRTT
        BY <3>2, <3>4
      <4>2. p.MaxRTT >= B[n + 1].RTTMs
        BY <1>1, <1>3, <3>2, <3>4
      <4>3. \A j \in G : p.MaxRTT >= B[j].RTTMs
        BY <1>1, <3>1
      <4>4. i \in U /\ p.MaxRTT = B[i].RTTMs
        BY <1>1, <1>6, <3>1
      <4> QED BY <1>6, <4>1, <4>2, <4>3, <4>4
    <3> QED BY <3>3, <3>4
  <2> QED BY <2>1, <2>2
<1>9. RTTsFit(B, w, U)
  BY <1>5, <1>6, <1>7, <1>8 DEF RTTsFit
<1> QED BY <1>9 DEF B, n, U

\* An event of the peer.
LEMMA PeerStep ==
  ASSUME NEW A \in Seq(TraceEvents), NEW ev \in TraceEvents, NEW S \in SUBSET (1..Len(A)),
         NEW p, NEW k, PeerFits(A, p, k, S), PeerKey(ev) = k
  PROVE  PeerFits(Append(A, ev), PeerWriteEvent(p, ev), k, S \cup {Len(A) + 1})
<1> DEFINE B == Append(A, ev)
           n == Len(A)
           U == S \cup {n + 1}
           G == GotOf(A, S)
           w == PeerWriteEvent(p, ev)
<1>1. n \in Nat /\ B[n + 1] = ev /\ \A i \in S : B[i] = A[i]
  OBVIOUS
<1>2. G \in SUBSET (1..n) /\ G \subseteq S
  BY DEF GotOf
<1>3. PeerFits(B, p, k, S)
  BY PeerStays
<1>4. IsPeer(p)
  BY DEF PeerFits
<1>14. IsWritten(p, ev, w)
  BY <1>4, Written
<1> HIDE DEF w
<1>5. /\ IsPeer(w)
      /\ w.Peer = Or(p.Peer, ev.Peer, NoPeer)
      /\ w.Events = InsertBySeq(p.Events, ev)
      /\ ev.Timeout => /\ w.LossCount = p.LossCount + 1
                       /\ w.ReceivedCount = p.ReceivedCount
                       /\ w.PeerRDNS = p.PeerRDNS /\ w.MinRTT = p.MinRTT
                       /\ w.MaxRTT = p.MaxRTT /\ w.TotalRTT = p.TotalRTT
      /\ ~ev.Timeout => /\ w.ReceivedCount = p.ReceivedCount + 1
                        /\ w.LossCount = p.LossCount
                        /\ w.PeerRDNS = Or(ev.PeerRDNS, p.PeerRDNS, "")
                        /\ w.MinRTT = IF p.MinRTT = -1 \/ ev.RTTMs < p.MinRTT
                                        THEN ev.RTTMs ELSE p.MinRTT
                        /\ w.MaxRTT = IF p.MaxRTT = -1 \/ ev.RTTMs > p.MaxRTT
                                        THEN ev.RTTMs ELSE p.MaxRTT
                        /\ w.TotalRTT = p.TotalRTT + ev.RTTMs
  BY <1>14 DEF IsWritten
<1>6. EventsFit(B, w, U)
  <2>1. EventsFit(A, p, S)
    BY DEF PeerFits
  <2> QED BY <1>5, <2>1, EventsInsert
<1>7. GotOf(B, S) = G
  BY <1>1 DEF GotOf
<1>8. GotOf(B, U) = IF ev.Timeout THEN G ELSE G \cup {n + 1}
  <2>1. GotOf(B, U) = GotOf(B, S) \cup {i \in {n + 1} : ~B[i].Timeout}
    BY DEF GotOf
  <2>2. {i \in {n + 1} : ~B[i].Timeout} = IF ev.Timeout THEN {} ELSE {n + 1}
    BY <1>1
  <2> HIDE DEF G
  <2> QED BY <1>7, <2>1, <2>2
<1>9. /\ Cardinality(S) \in Nat /\ Cardinality(U) = Cardinality(S) + 1
      /\ Cardinality(G) \in Nat /\ Cardinality(G \cup {n + 1}) = Cardinality(G) + 1
  <2> HIDE DEF G, n
  <2> QED BY <1>1, <1>2, PositionsFinite DEF n
<1>10. CountsFit(w, U, GotOf(B, U))
  <2>1. p.ReceivedCount = Cardinality(G) /\ p.LossCount = Cardinality(S) - Cardinality(G)
    BY DEF PeerFits, CountsFit
  <2> HIDE DEF G, U, B, n
  <2>2. CASE ev.Timeout
    <3>1. w.LossCount = p.LossCount + 1 /\ w.ReceivedCount = p.ReceivedCount
      BY <1>5, <2>2
    <3>2. GotOf(B, U) = G
      BY <1>8, <2>2
    <3> QED BY <1>9, <2>1, <3>1, <3>2 DEF CountsFit
  <2>3. CASE ~ev.Timeout
    <3>1. w.LossCount = p.LossCount /\ w.ReceivedCount = p.ReceivedCount + 1
      BY <1>5, <2>3
    <3>2. GotOf(B, U) = G \cup {n + 1}
      BY <1>8, <2>3
    <3> QED BY <1>9, <2>1, <3>1, <3>2 DEF CountsFit
  <2> QED BY <2>2, <2>3
<1>11. RTTsFit(B, w, GotOf(B, U))
  <2>1. CASE ev.Timeout
    <3>1. RTTsFit(B, p, GotOf(B, S))
      BY <1>3 DEF PeerFits
    <3>2. GotOf(B, U) = GotOf(B, S)
      BY <1>7, <1>8, <2>1
    <3> HIDE DEF B, G, U
    <3>3. w.MinRTT = p.MinRTT /\ w.MaxRTT = p.MaxRTT /\ w.TotalRTT = p.TotalRTT
      BY <1>5, <2>1
    <3> QED BY <3>1, <3>2, <3>3 DEF RTTsFit
  <2>2. CASE ~ev.Timeout
    <3>1. RTTsFit(A, p, G)
      BY DEF PeerFits
    <3>2. GotOf(B, U) = G \cup {n + 1}
      BY <1>8, <2>2
    <3>3. RTTsFit(B, w, G \cup {n + 1})
      <4>1. /\ w.MinRTT = IF p.MinRTT = -1 \/ ev.RTTMs < p.MinRTT THEN ev.RTTMs ELSE p.MinRTT
            /\ w.MaxRTT = IF p.MaxRTT = -1 \/ ev.RTTMs > p.MaxRTT THEN ev.RTTMs ELSE p.MaxRTT
            /\ w.TotalRTT = p.TotalRTT + ev.RTTMs
        BY <1>5, <2>2
      <4> HIDE DEF G
      <4> QED BY <1>2, <3>1, <4>1, RTTsAppend
    <3> QED BY <3>2, <3>3
  <2> QED BY <2>1, <2>2
<1>12. NameFits(w, k, U)
  <2>1. NameFits(p, k, S)
    BY DEF PeerFits
  <2>2. U # {}
    OBVIOUS
  <2>3. ev.PeerRDNS # "[TIMEOUT]" /\ (ev.Timeout => ev.Peer = NoPeer)
    BY EventsAreTracked
  <2>4. k = IF ev.Timeout \/ ev.Peer = NoPeer THEN Star ELSE ev.Peer
    BY DEF PeerKey
  <2>5. w.Peer = IF k = Star THEN NoPeer ELSE k
    <3>1. ev.Peer # Star
      BY EventsAreTracked
    <3>2. p.Peer = IF S = {} \/ k = Star THEN NoPeer ELSE k
      BY <2>1 DEF NameFits
    <3>3. w.Peer = IF p.Peer # NoPeer THEN p.Peer ELSE ev.Peer
      BY <1>5 DEF Or
    <3> QED BY <2>3, <2>4, <3>1, <3>2, <3>3
  <2>6. w.PeerRDNS # "[TIMEOUT]"
    <3>1. p.PeerRDNS # "[TIMEOUT]"
      BY <2>1 DEF NameFits
    <3>2. CASE ev.Timeout
      BY <1>5, <3>1, <3>2
    <3>3. CASE ~ev.Timeout
      BY <1>5, <2>3, <3>1, <3>3 DEF Or
    <3> QED BY <3>2, <3>3
  <2> QED BY <2>2, <2>5, <2>6 DEF NameFits
<1>13. PeerFits(B, w, k, U)
  BY <1>5, <1>6, <1>10, <1>11, <1>12 DEF PeerFits
<1> QED BY <1>13 DEF w

----------------------------------------------------------------------------
(* The statistics of all hops: TraceInv is inductive, and gives            *)
(* StatsAreThoseOfEvents.                                                  *)

\* The peers of a hop are those of the events at the positions C.
PeersFit(A, peers, C) ==
  /\ DOMAIN peers = {PeerKey(A[i]) : i \in C}
  /\ \A k \in DOMAIN peers : PeerFits(A, peers[k], k, {i \in C : PeerKey(A[i]) = k})

KeysFit(hop) ==
  /\ hop.Keys \in Seq(DOMAIN hop.Peers)
  /\ ToSet(hop.Keys) = DOMAIN hop.Peers
  /\ \A i, j \in 1..Len(hop.Keys) : hop.Keys[i] = hop.Keys[j] => i = j
  /\ hop.PeerOrder = SortedPeers(hop.Peers, hop.Keys)

HopFits(A, hop, t) == PeersFit(A, hop.Peers, CountedIn(A, t)) /\ KeysFit(hop)

OrderFits(st) ==
  /\ st.HopOrder \in Seq(Nat \ {0}) /\ Ordered(st.HopOrder, Before)
  /\ ToSet(st.HopOrder) = DOMAIN st.Hops

HopsFit(A, st) ==
  /\ \A t \in DOMAIN st.Hops : t \in Nat \ {0} /\ HopFits(A, st.Hops[t], t)
  /\ \A t \in Nat : t \in DOMAIN st.Hops <=> CountedIn(A, t) # {}

TraceInv == arrived \in Seq(TraceEvents) /\ OrderFits(stats) /\ HopsFit(arrived, stats)

\* What has not been counted is not there.
LEMMA NewHopFits ==
  ASSUME NEW A, NEW t, CountedIn(A, t) = {}
  PROVE  HopFits(A, NewHop, t)
<1>1. NewHop.Peers = <<>> /\ NewHop.Keys = <<>> /\ NewHop.PeerOrder = <<>> /\ DOMAIN <<>> = {}
  BY DEF NewHop
<1>2. PeersFit(A, NewHop.Peers, CountedIn(A, t))
  BY <1>1 DEF PeersFit
<1>3. <<>> \in Seq({}) /\ ToSet(<<>>) = {} /\ Len(<<>>) = 0
  BY DEF ToSet
<1>4. SortedPeers(<<>>, <<>>) = <<>>
  <2> DEFINE v == [i \in DOMAIN <<>> |-> -MaxSeq(<<>>[<<>>[i]])]
             none == SortedBy(<<>>, v)
  <2>1. SortedPeers(<<>>, <<>>) = none
    BY DEF SortedPeers
  <2>2. \A i \in 1..Len(<<>>) : v[i] \in Int
    BY <1>3
  <2> HIDE DEF v
  <2>3. none \in Seq({}) /\ Len(none) = Len(<<>>)
    BY <1>3, <2>2, SortedByPermutes
  <2> HIDE DEF none
  <2>4. none = <<>>
    BY <1>3, <2>3, EmptySeq
  <2> QED
    BY <2>1, <2>4
<1>5. KeysFit(NewHop)
  BY <1>1, <1>3, <1>4 DEF KeysFit
<1> QED BY <1>2, <1>5 DEF HopFits

\* An event of another hop.
LEMMA HopStays ==
  ASSUME NEW A \in Seq(TraceEvents), NEW ev \in TraceEvents, NEW t \in Nat, NEW hop,
         HopFits(A, hop, t), CountedIn(Append(A, ev), t) = CountedIn(A, t)
  PROVE  HopFits(Append(A, ev), hop, t)
<1> DEFINE B == Append(A, ev)
           C == CountedIn(A, t)
<1>1. C \in SUBSET (1..Len(A))
  BY CountedAppend
<1>2. \A i \in C : B[i] = A[i]
  BY <1>1
<1> HIDE DEF C
<1>3. PeersFit(A, hop.Peers, C)
  BY DEF HopFits, C
<1>4. PeersFit(B, hop.Peers, C)
  <2>1. DOMAIN hop.Peers = {PeerKey(B[i]) : i \in C}
    <3>1. DOMAIN hop.Peers = {PeerKey(A[i]) : i \in C}
      BY <1>3 DEF PeersFit
    <3> HIDE DEF B
    <3> QED BY <1>2, <3>1
  <2>2. ASSUME NEW k \in DOMAIN hop.Peers
        PROVE  PeerFits(B, hop.Peers[k], k, {i \in C : PeerKey(B[i]) = k})
    <3> DEFINE S == {i \in C : PeerKey(A[i]) = k}
    <3>1. PeerFits(A, hop.Peers[k], k, S)
      BY <1>3 DEF PeersFit
    <3>2. S \in SUBSET (1..Len(A))
      BY <1>1
    <3> HIDE DEF S
    <3>3. PeerFits(B, hop.Peers[k], k, S)
      BY <3>1, <3>2, PeerStays
    <3> HIDE DEF B
    <3>4. {i \in C : PeerKey(B[i]) = k} = S
      BY <1>2 DEF S
    <3> QED BY <3>3, <3>4
  <2> QED BY <2>1, <2>2 DEF PeersFit
<1>5. CountedIn(B, t) = C
  BY DEF C
<1>6. HopFits(B, hop, t)
  BY <1>4, <1>5 DEF HopFits
<1> QED BY <1>6

\* One more key.
LEMMA KeysAppend ==
  ASSUME NEW D, NEW s \in Seq(D), ToSet(s) = D, NEW k,
         \A i, j \in 1..Len(s) : s[i] = s[j] => i = j, k \notin D
  PROVE  /\ Append(s, k) \in Seq(D \cup {k}) /\ ToSet(Append(s, k)) = D \cup {k}
         /\ \A i, j \in 1..Len(Append(s, k)) : Append(s, k)[i] = Append(s, k)[j] => i = j
<1> DEFINE E == D \cup {k}
           v == Append(s, k)
<1>1. s \in Seq(E) /\ k \in E
  OBVIOUS
<1> HIDE DEF E
<1>2. v \in Seq(E) /\ ToSet(v) = ToSet(s) \cup {k}
  BY <1>1, ToSetAppend
<1>3. /\ Len(v) = Len(s) + 1 /\ v[Len(s) + 1] = k /\ Len(s) \in Nat
      /\ \A i \in 1..Len(s) : v[i] = s[i] /\ s[i] # k
  OBVIOUS
<1> HIDE DEF v
<1>4. ASSUME NEW i \in 1..Len(v), NEW j \in 1..Len(v), v[i] = v[j] PROVE i = j
  <2>1. (i \in 1..Len(s) \/ i = Len(s) + 1) /\ (j \in 1..Len(s) \/ j = Len(s) + 1)
    BY <1>3
  <2>2. CASE i \in 1..Len(s) /\ j \in 1..Len(s)
    BY <1>3, <1>4, <2>2
  <2>3. CASE i \in 1..Len(s) /\ j = Len(s) + 1
    BY <1>3, <1>4, <2>3
  <2>4. CASE i = Len(s) + 1 /\ j \in 1..Len(s)
    BY <1>3, <1>4, <2>4
  <2> QED BY <2>1, <2>2, <2>3, <2>4
<1> QED BY <1>2, <1>4 DEF v, E

\* HopGroup.WriteEvent: the peer of the event, and the order of the peers.
LEMMA HopStep ==
  ASSUME NEW A \in Seq(TraceEvents), NEW ev \in TraceEvents, NEW hop,
         HopFits(A, hop, HopTTL(ev))
  PROVE  HopFits(Append(A, ev), HopWriteEvent(hop, ev), HopTTL(ev))
<1> DEFINE B == Append(A, ev)
           n == Len(A)
           t == HopTTL(ev)
           C == CountedIn(A, t)
           k == PeerKey(ev)
           P == hop.Peers
           known == k \in DOMAIN P
           keys == IF known THEN hop.Keys ELSE Append(hop.Keys, k)
           wrote == PeerWriteEvent(IF known THEN P[k] ELSE NewPeer, ev)
           peers == [x \in DOMAIN P \cup {k} |-> IF x = k THEN wrote ELSE P[x]]
           new == HopWriteEvent(hop, ev)
<1>1. new.Keys = keys /\ new.Peers = peers /\ new.PeerOrder = SortedPeers(peers, keys)
  BY DEF HopWriteEvent
<1> HIDE DEF new
<1>2. t \in Nat /\ n \in Nat
  BY HopTTLType
<1>3. C \in SUBSET (1..n) /\ CountedIn(B, t) = C \cup {n + 1}
  <2>1. t <= HopTTL(ev)
    BY <1>2
  <2> HIDE DEF t
  <2>2. /\ CountedIn(A, t) \subseteq 1..Len(A)
        /\ CountedIn(Append(A, ev), t)
              = (IF ev.LastHop /\ ~(t <= HopTTL(ev)) THEN {} ELSE CountedIn(A, t))
                \cup (IF HopTTL(ev) = t THEN {Len(A) + 1} ELSE {})
    BY <1>2, CountedAppend
  <2>3. HopTTL(ev) = t
    BY DEF t
  <2> QED BY <2>1, <2>2, <2>3
<1>4. B[n + 1] = ev /\ n + 1 \notin C /\ \A i \in C : B[i] = A[i]
  BY <1>2, <1>3
<1>5. PeersFit(A, P, C) /\ KeysFit(hop)
  BY DEF HopFits
<1> HIDE DEF C, n, t, k
<1>6. PeersFit(B, peers, C \cup {n + 1})
  <2>1. DOMAIN peers = {PeerKey(B[i]) : i \in C \cup {n + 1}}
    <3>1. DOMAIN P = {PeerKey(A[i]) : i \in C}
      BY <1>5 DEF PeersFit
    <3>2. {PeerKey(B[i]) : i \in C \cup {n + 1}} = {PeerKey(B[i]) : i \in C} \cup {PeerKey(B[n + 1])}
      OBVIOUS
    <3>3. {PeerKey(B[i]) : i \in C} = {PeerKey(A[i]) : i \in C}
      <4> HIDE DEF B
      <4> QED BY <1>4
    <3>4. PeerKey(B[n + 1]) = k
      BY <1>4 DEF k
    <3>5. DOMAIN peers = DOMAIN P \cup {k}
      OBVIOUS
    <3> HIDE DEF B, peers
    <3> QED BY <3>1, <3>2, <3>3, <3>4, <3>5
  <2>2. ASSUME NEW x \in DOMAIN peers
        PROVE  PeerFits(B, peers[x], x, {i \in C \cup {n + 1} : PeerKey(B[i]) = x})
    <3> DEFINE S == {i \in C : PeerKey(A[i]) = x}
               U == {i \in C \cup {n + 1} : PeerKey(B[i]) = x}
    <3>1. S \in SUBSET (1..n)
      BY <1>3
    <3>2. U = IF x = k THEN S \cup {n + 1} ELSE S
      <4>1. PeerKey(B[n + 1]) = k
        BY <1>4 DEF k
      <4> HIDE DEF B
      <4> QED BY <1>4, <4>1
    <3>3. CASE x = k
      <4> DEFINE p == IF known THEN P[k] ELSE NewPeer
      <4>1. PeerFits(A, p, k, S)
        <5>1. CASE known
          <6>1. PeerFits(A, P[k], k, {i \in C : PeerKey(A[i]) = k})
            BY <1>5, <5>1 DEF PeersFit
          <6> QED BY <3>3, <5>1, <6>1
        <5>2. CASE ~known
          <6>1. DOMAIN P = {PeerKey(A[i]) : i \in C}
            BY <1>5 DEF PeersFit
          <6>2. S = {}
            BY <3>3, <5>2, <6>1
          <6>3. PeerFits(A, NewPeer, k, {})
            BY NewPeerFits
          <6> QED BY <5>2, <6>2, <6>3
        <5> QED BY <5>1, <5>2
      <4> HIDE DEF p, S, U
      <4>2. PeerFits(B, PeerWriteEvent(p, ev), k, S \cup {n + 1})
        BY <3>1, <4>1, PeerStep DEF k, n
      <4>3. peers[x] = PeerWriteEvent(p, ev)
        BY <3>3 DEF p
      <4>4. U = S \cup {n + 1}
        BY <3>2, <3>3
      <4> HIDE DEF peers, B
      <4>5. PeerFits(B, peers[x], x, U)
        BY <3>3, <4>2, <4>3, <4>4
      <4> QED BY <4>5 DEF U
    <3>4. CASE x # k
      <4>1. x \in DOMAIN P /\ peers[x] = P[x]
        BY <3>4
      <4>2. PeerFits(A, P[x], x, S)
        BY <1>5, <4>1 DEF PeersFit
      <4> HIDE DEF S, U
      <4>3. PeerFits(B, P[x], x, S)
        BY <3>1, <4>2, PeerStays DEF n
      <4>4. U = S
        BY <3>2, <3>4
      <4> HIDE DEF peers, B
      <4>5. PeerFits(B, peers[x], x, U)
        BY <4>1, <4>3, <4>4
      <4> QED BY <4>5 DEF U
    <3> QED BY <3>3, <3>4
  <2> HIDE DEF B, peers
  <2> QED BY <2>1, <2>2 DEF PeersFit
<1>7. KeysFit(new)
  <2>1. /\ hop.Keys \in Seq(DOMAIN P) /\ ToSet(hop.Keys) = DOMAIN P
        /\ \A i, j \in 1..Len(hop.Keys) : hop.Keys[i] = hop.Keys[j] => i = j
    BY <1>5 DEF KeysFit
  <2>2. DOMAIN peers = DOMAIN P \cup {k}
    OBVIOUS
  <2> HIDE DEF peers
  <2>3. /\ keys \in Seq(DOMAIN peers) /\ ToSet(keys) = DOMAIN peers
        /\ \A i, j \in 1..Len(keys) : keys[i] = keys[j] => i = j
    <3>1. CASE known
      <4>1. DOMAIN peers = DOMAIN P /\ keys = hop.Keys
        BY <2>2, <3>1
      <4> HIDE DEF keys, P
      <4> QED BY <2>1, <4>1
    <3>2. CASE ~known
      <4>1. keys = Append(hop.Keys, k)
        BY <3>2
      <4>2. k \notin DOMAIN P
        BY <3>2
      <4> DEFINE D == DOMAIN P
                 s == hop.Keys
      <4>3. s \in Seq(D) /\ ToSet(s) = D /\ k \notin D
        BY <2>1, <4>2
      <4>4. \A i, j \in 1..Len(s) : s[i] = s[j] => i = j
        BY <2>1
      <4>5. keys = Append(s, k) /\ DOMAIN peers = D \cup {k}
        BY <2>2, <4>1
      <4> HIDE DEF keys, D, s
      <4>6. /\ Append(s, k) \in Seq(D \cup {k}) /\ ToSet(Append(s, k)) = D \cup {k}
            /\ \A i, j \in 1..Len(Append(s, k)) : Append(s, k)[i] = Append(s, k)[j] => i = j
        BY <4>3, <4>4, KeysAppend
      <4> QED BY <4>5, <4>6, Zenon
    <3> QED BY <3>1, <3>2
  <2> HIDE DEF keys
  <2> QED BY <1>1, <2>3 DEF KeysFit
<1>8. HopFits(B, new, t)
  BY <1>1, <1>3, <1>6, <1>7 DEF HopFits
<1> QED BY <1>8 DEF new, t

\* TraceInit establishes TraceInv.
LEMMA TraceInvInit == TraceInit => TraceInv
<1> SUFFICES ASSUME TraceInit PROVE TraceInv
  OBVIOUS
<1>1. arrived = <<>> /\ stats.Hops = <<>> /\ stats.HopOrder = <<>>
  BY DEF TraceInit, NewStats
<1>2. DOMAIN <<>> = {} /\ Len(<<>>) = 0
  OBVIOUS
<1>3. <<>> \in Seq(TraceEvents) /\ <<>> \in Seq(Nat \ {0}) /\ ToSet(<<>>) = {} /\ Ordered(<<>>, Before)
  BY DEF ToSet, Ordered
<1>4. \A t : CountedIn(<<>>, t) = {}
  BY <1>2 DEF CountedIn
<1>5. OrderFits(stats)
  BY <1>1, <1>2, <1>3 DEF OrderFits
<1>6. HopsFit(arrived, stats)
  BY <1>1, <1>2, <1>4 DEF HopsFit
<1> QED BY <1>1, <1>3, <1>5, <1>6 DEF TraceInv

\* HopOrder with one more hop, sorted.
LEMMA OrderInsert ==
  ASSUME NEW o \in Seq(Nat \ {0}), Ordered(o, Before), NEW t \in Nat \ {0}, t \notin ToSet(o)
  PROVE  /\ InsertHop(o, t) \in Seq(Nat \ {0}) /\ Ordered(InsertHop(o, t), Before)
         /\ ToSet(InsertHop(o, t)) = ToSet(o) \cup {t}
<1> DEFINE D == {i \in DOMAIN o : o[i] <= t}
           m == Cardinality(D)
           X == Nat \ {0}
<1>1. DOMAIN o = 1..Len(o) /\ Len(o) \in Nat /\ \A i \in 1..Len(o) : o[i] \in X /\ o[i] \in Nat
  OBVIOUS
<1>2. \A i \in 1..Len(o) : o[i] # t
  BY <1>1 DEF ToSet
<1>3. \A i, j \in 1..Len(o) : i < j => o[i] < o[j]
  BY <1>1 DEF Ordered, Before
<1>4. m \in 0..Len(o) /\ D = 1..m
  <2>1. D \subseteq 1..Len(o)
    BY <1>1
  <2>2. ASSUME NEW i \in D, NEW j \in 1..Len(o), j < i PROVE j \in D
    <3>1. i \in 1..Len(o) /\ o[i] <= t
      BY <1>1
    <3>2. o[j] < o[i]
      BY <1>3, <2>2, <3>1
    <3>3. o[i] \in Nat /\ o[j] \in Nat
      BY <1>1, <3>1
    <3>4. o[j] <= t
      BY <3>1, <3>2, <3>3
    <3> QED BY <1>1, <3>4
  <2> HIDE DEF D
  <2> QED BY <1>1, <2>1, <2>2, PrefixSize
<1>5. InsertHop(o, t) = InsertAt(o, m + 1, t)
  BY DEF InsertHop
<1>6. ASSUME NEW i \in 1..m PROVE <<o[i], t>> \in Before
  <2>1. i \in D
    BY <1>4
  <2>2. i \in 1..Len(o) /\ o[i] <= t
    BY <1>1, <2>1
  <2>3. o[i] \in Nat /\ o[i] # t
    BY <1>1, <1>2, <2>2
  <2> QED BY <2>2, <2>3 DEF Before
<1>7. ASSUME NEW i \in (m + 1)..Len(o) PROVE <<t, o[i]>> \in Before
  <2>1. i \in 1..Len(o) /\ i \notin 1..m
    BY <1>4
  <2>2. ~(o[i] <= t)
    BY <1>1, <1>4, <2>1
  <2>3. o[i] \in Nat
    BY <1>1, <2>1
  <2> QED BY <2>2, <2>3 DEF Before
<1> HIDE DEF D, m
<1>8. t \in X /\ o \in Seq(X)
  OBVIOUS
<1> HIDE DEF X
<1>9. InsertAt(o, m + 1, t) \in Seq(X)
  BY <1>4, <1>8, InsertAtFacts
<1>10. Ordered(InsertAt(o, m + 1, t), Before)
       /\ ToSet(InsertAt(o, m + 1, t)) = ToSet(o) \cup {t}
  BY <1>4, <1>6, <1>7, <1>8, InsertAtOrdered
<1> QED BY <1>5, <1>9, <1>10 DEF X

\* TraceStats.WriteEvent.
LEMMA StatsStep ==
  ASSUME NEW A \in Seq(TraceEvents), NEW ev \in TraceEvents, NEW st, OrderFits(st), HopsFit(A, st)
  PROVE  OrderFits(StatsWriteEvent(st, ev)) /\ HopsFit(Append(A, ev), StatsWriteEvent(st, ev))
<1> DEFINE B == Append(A, ev)
           t == HopTTL(ev)
           known == t \in DOMAIN st.Hops
           wrote == HopWriteEvent(IF known THEN st.Hops[t] ELSE NewHop, ev)
           hops == [h \in DOMAIN st.Hops \cup {t} |-> IF h = t THEN wrote ELSE st.Hops[h]]
           order == IF known THEN st.HopOrder ELSE InsertHop(st.HopOrder, t)
           Kept(h) == ev.LastHop => h <= t
           new == StatsWriteEvent(st, ev)
<1>1. /\ new.Hops = [h \in {x \in DOMAIN hops : Kept(x)} |-> hops[h]]
      /\ new.HopOrder = Only(order, {h \in ToSet(order) : Kept(h)})
  BY DEF StatsWriteEvent
<1> HIDE DEF new
<1>2. t \in Nat \ {0} /\ B \in Seq(TraceEvents)
  BY HopTTLType
<1> DEFINE After(h) == (IF ev.LastHop /\ ~(h <= t) THEN {} ELSE CountedIn(A, h))
                       \cup (IF t = h THEN {Len(A) + 1} ELSE {})
<1>3. \A h \in Nat : CountedIn(B, h) = After(h)
  BY CountedAppend
<1>4. /\ \A h \in DOMAIN st.Hops : h \in Nat \ {0} /\ HopFits(A, st.Hops[h], h)
      /\ \A h \in Nat : h \in DOMAIN st.Hops <=> CountedIn(A, h) # {}
  BY DEF HopsFit
<1>5. /\ st.HopOrder \in Seq(Nat \ {0}) /\ Ordered(st.HopOrder, Before)
      /\ ToSet(st.HopOrder) = DOMAIN st.Hops
  BY DEF OrderFits
<1>6. DOMAIN hops = DOMAIN st.Hops \cup {t}
  OBVIOUS
<1>7. HopFits(B, wrote, t)
  <2> DEFINE hop == IF known THEN st.Hops[t] ELSE NewHop
  <2>1. HopFits(A, hop, t)
    <3>1. CASE known
      BY <1>4, <3>1
    <3>2. CASE ~known
      <4>1. CountedIn(A, t) = {}
        BY <1>2, <1>4, <3>2
      <4> QED BY <3>2, <4>1, NewHopFits
    <3> QED BY <3>1, <3>2
  <2> HIDE DEF hop
  <2>2. HopFits(B, HopWriteEvent(hop, ev), t)
    BY <2>1, HopStep
  <2> QED BY <2>2 DEF hop
<1>8. order \in Seq(Nat \ {0}) /\ Ordered(order, Before) /\ ToSet(order) = DOMAIN hops
  <2>1. CASE known
    <3>1. order = st.HopOrder /\ DOMAIN hops = DOMAIN st.Hops
      BY <1>6, <2>1
    <3> HIDE DEF order, hops
    <3> QED BY <1>5, <3>1
  <2>2. CASE ~known
    <3>1. order = InsertHop(st.HopOrder, t) /\ t \notin ToSet(st.HopOrder)
      BY <1>5, <2>2
    <3> HIDE DEF order, hops, t
    <3>2. /\ InsertHop(st.HopOrder, t) \in Seq(Nat \ {0})
          /\ Ordered(InsertHop(st.HopOrder, t), Before)
          /\ ToSet(InsertHop(st.HopOrder, t)) = ToSet(st.HopOrder) \cup {t}
      BY <1>2, <1>5, <3>1, OrderInsert
    <3> QED BY <1>5, <1>6, <3>1, <3>2
  <2> QED BY <2>1, <2>2
<1>9. \A h \in DOMAIN hops : h \in Nat \ {0}
  BY <1>2, <1>4, <1>6
<1>10. OrderFits(new)
  <2> DEFINE K == {h \in ToSet(order) : Kept(h)}
  <2>1. DOMAIN new.Hops = {x \in DOMAIN hops : Kept(x)}
    BY <1>1
  <2>2. new.HopOrder = Only(order, K)
    BY <1>1
  <2>3. K = DOMAIN new.Hops /\ K \subseteq ToSet(order)
    BY <1>8, <2>1
  <2> HIDE DEF K, order, hops
  <2>4. Only(order, K) \in Seq(Nat \ {0})
    BY <1>8, OnlyInSeq
  <2>5. Ordered(Only(order, K), Before)
    BY <1>8, OnlyOrdered
  <2>6. ToSet(Only(order, K)) = ToSet(order) \cap K
    BY <1>8, OnlyRange
  <2> QED BY <2>2, <2>3, <2>4, <2>5, <2>6 DEF OrderFits
<1> HIDE DEF B, wrote, order
<1>11. ASSUME NEW h \in DOMAIN new.Hops PROVE h \in Nat \ {0} /\ HopFits(B, new.Hops[h], h)
  <2>1. h \in DOMAIN hops /\ Kept(h) /\ new.Hops[h] = hops[h]
    BY <1>1
  <2>2. h \in Nat \ {0}
    BY <1>9, <2>1
  <2>3. CASE h = t
    BY <1>7, <2>1, <2>2, <2>3
  <2>4. CASE h # t
    <3>1. h \in DOMAIN st.Hops /\ hops[h] = st.Hops[h]
      BY <2>1, <2>4
    <3>2. HopFits(A, st.Hops[h], h)
      BY <1>4, <3>1
    <3>3. CountedIn(B, h) = CountedIn(A, h)
      <4>1. After(h) = CountedIn(A, h)
        BY <2>1, <2>4
      <4> QED BY <1>3, <2>2, <4>1
    <3>4. HopFits(B, st.Hops[h], h)
      BY <2>2, <3>2, <3>3, HopStays DEF B
    <3> QED BY <2>1, <2>2, <3>1, <3>4
  <2> QED BY <2>3, <2>4
<1>12. ASSUME NEW h \in Nat PROVE h \in DOMAIN new.Hops <=> CountedIn(B, h) # {}
  <2>1. h \in DOMAIN new.Hops <=> (h \in DOMAIN st.Hops \/ h = t) /\ Kept(h)
    BY <1>1
  <2>2. h \in DOMAIN st.Hops <=> CountedIn(A, h) # {}
    BY <1>4
  <2>3. CountedIn(B, h) = After(h)
    BY <1>3
  <2>4. CASE h = t
    <3>1. Kept(h)
      BY <1>2, <2>4
    <3>2. After(h) # {}
      BY <2>4
    <3> QED BY <2>1, <2>3, <2>4, <3>1, <3>2
  <2>5. CASE h # t
    <3>1. After(h) # {} <=> CountedIn(A, h) # {} /\ Kept(h)
      BY <2>5
    <3> QED BY <2>1, <2>2, <2>3, <2>5, <3>1
  <2> QED BY <2>4, <2>5
<1>13. HopsFit(B, new)
  BY <1>11, <1>12 DEF HopsFit
<1> QED BY <1>10, <1>13 DEF new, B

\* TraceInv is inductive: a line with an event writes it, others change nothing.
LEMMA TraceInvStep == TraceInv /\ [TraceNext]_traceVars => TraceInv'
<1> SUFFICES ASSUME TraceInv, [TraceNext]_traceVars PROVE TraceInv'
  OBVIOUS
<1>1. CASE TraceNext
  <2>1. PICK ev \in TraceEvents :
          stats' = StatsWriteEvent(stats, ev) /\ arrived' = Append(arrived, ev)
    BY <1>1 DEF TraceNext, TraceEvents
  <2>2. ev \in TraceEvents
    OBVIOUS
  <2>3. arrived' \in Seq(TraceEvents)
    BY <2>1, <2>2 DEF TraceInv
  <2>4. OrderFits(StatsWriteEvent(stats, ev))
        /\ HopsFit(Append(arrived, ev), StatsWriteEvent(stats, ev))
    BY <2>2, StatsStep DEF TraceInv
  <2>5. OrderFits(stats') /\ HopsFit(arrived', stats')
    BY <2>1, <2>4
  <2> QED BY <2>3, <2>5 DEF TraceInv, OrderFits, HopsFit
<1>2. CASE UNCHANGED traceVars
  BY <1>2 DEF traceVars, TraceInv, OrderFits, HopsFit
<1> QED BY <1>1, <1>2

\* The same sets, for the events that arrived.
LEMMA CountedIsCounted ==
  /\ \A t : CountedIn(arrived, t) = Counted(t)
  /\ \A t, k : {i \in Counted(t) : PeerKey(arrived[i]) = k} = CountedFor(t, k)
  /\ \A S : TotalOf(S) = SumIn(arrived, S)
<1>1. \A t : CountedIn(arrived, t) = Counted(t)
  BY DEF CountedIn, Counted
<1>2. \A t, k : {i \in Counted(t) : PeerKey(arrived[i]) = k} = CountedFor(t, k)
  BY DEF CountedFor
<1>3. \A S : TotalOf(S) = SumIn(arrived, S)
  BY DEF TotalOf, SumIn
<1> QED BY <1>1, <1>2, <1>3

\* What TraceInv says of a hop and of a peer.
LEMMA HopIsThat ==
  ASSUME TraceInv, NEW t \in DOMAIN stats.Hops
  PROVE  /\ t \in Nat \ {0} /\ KeysFit(stats.Hops[t]) /\ Counted(t) # {}
         /\ Counted(t) \in SUBSET (1..Len(arrived))
         /\ DOMAIN stats.Hops[t].Peers = {PeerKey(arrived[i]) : i \in Counted(t)}
         /\ \A k \in DOMAIN stats.Hops[t].Peers :
              /\ PeerFits(arrived, stats.Hops[t].Peers[k], k, CountedFor(t, k))
              /\ CountedFor(t, k) \in SUBSET (1..Len(arrived)) /\ CountedFor(t, k) # {}
<1>1. t \in Nat \ {0} /\ HopFits(arrived, stats.Hops[t], t)
  BY DEF TraceInv, HopsFit
<1>2. Counted(t) # {}
  BY <1>1, CountedIsCounted DEF TraceInv, HopsFit
<1>3. PeersFit(arrived, stats.Hops[t].Peers, Counted(t)) /\ KeysFit(stats.Hops[t])
  BY <1>1, CountedIsCounted DEF HopFits
<1>4. Counted(t) \in SUBSET (1..Len(arrived))
  <2>1. arrived \in Seq(TraceEvents)
    BY DEF TraceInv
  <2>2. DOMAIN arrived = 1..Len(arrived)
    BY <2>1
  <2> QED BY <2>2 DEF Counted
<1>5. DOMAIN stats.Hops[t].Peers = {PeerKey(arrived[i]) : i \in Counted(t)}
  BY <1>3 DEF PeersFit
<1>6. ASSUME NEW k \in DOMAIN stats.Hops[t].Peers
      PROVE  /\ PeerFits(arrived, stats.Hops[t].Peers[k], k, CountedFor(t, k))
             /\ CountedFor(t, k) \in SUBSET (1..Len(arrived)) /\ CountedFor(t, k) # {}
  <2>1. PeerFits(arrived, stats.Hops[t].Peers[k], k, CountedFor(t, k))
    BY <1>3, CountedIsCounted DEF PeersFit
  <2>2. CountedFor(t, k) \in SUBSET (1..Len(arrived))
    BY <1>4 DEF CountedFor
  <2>3. PICK i \in Counted(t) : k = PeerKey(arrived[i])
    BY <1>5
  <2> QED BY <2>1, <2>2, <2>3 DEF CountedFor
<1> QED BY <1>1, <1>2, <1>3, <1>4, <1>5, <1>6

\* A least number is the minimum, and a greatest the maximum.
LEMMA MinIsLeast ==
  ASSUME NEW T, T \subseteq Int, NEW m \in T, \A x \in T : m <= x
  PROVE  m = Min(T)
<1>1. Min(T) \in T /\ \A x \in T : Min(T) <= x
  BY DEF Min
<1>2. m <= Min(T) /\ Min(T) <= m /\ m \in Int /\ Min(T) \in Int
  BY <1>1
<1> QED BY <1>2

\* A greatest number is the maximum.
LEMMA MaxIsGreatest ==
  ASSUME NEW T, T \subseteq Int, NEW m \in T, \A x \in T : m >= x
  PROVE  m = Max(T)
<1>1. Max(T) \in T /\ \A x \in T : Max(T) >= x
  BY DEF Max
<1>2. m >= Max(T) /\ Max(T) >= m /\ m \in Int /\ Max(T) \in Int
  BY <1>1
<1> QED BY <1>2

\* The last RTT of a peer.
LEMMA LastIsNewest ==
  ASSUME arrived \in Seq(TraceEvents), NEW S \in SUBSET (1..Len(arrived)),
         NEW p, EventsFit(arrived, p, S), GotOf(arrived, S) # {}
  PROVE  LastRTT(p) = arrived[NewestOf(GotOf(arrived, S))].RTTMs
<1> DEFINE G == GotOf(arrived, S)
           answered == {i \in DOMAIN p.Events : ~p.Events[i].Timeout}
           Newest(i) == \A j \in G : \/ arrived[j].Seq < arrived[i].Seq
                                     \/ arrived[j].Seq = arrived[i].Seq /\ j <= i
<1>1. PICK q \in Seq(S) : ToSet(q) = S /\ Ordered(q, SeqBefore(arrived)) /\ p.Events = Mapped(arrived, q)
  BY DEF EventsFit
<1>2. /\ DOMAIN q = 1..Len(q) /\ Len(q) \in Nat /\ DOMAIN p.Events = 1..Len(q)
      /\ \A i \in 1..Len(q) : q[i] \in S /\ p.Events[i] = arrived[q[i]]
  <2>1. DOMAIN q = 1..Len(q) /\ Len(q) \in Nat /\ \A i \in 1..Len(q) : q[i] \in S
    OBVIOUS
  <2> QED BY <1>1, <2>1 DEF Mapped
<1>3. \A i \in S : i \in Nat /\ arrived[i].Seq \in Int
  <2>1. \A i \in 1..Len(arrived) : i \in Nat /\ arrived[i].Seq \in Int
    BY TraceTyped DEF TypedTrace
  <2> QED BY <2>1
<1>4. G \subseteq S /\ \A i \in S : i \in G <=> ~arrived[i].Timeout
  BY DEF GotOf
<1>5. \A j \in S : \E i \in 1..Len(q) : j = q[i]
  BY <1>1, <1>2 DEF ToSet
<1> HIDE DEF G
<1>6. answered # {} /\ answered \subseteq 0..Len(q)
  <2>1. PICK j \in G : TRUE
    BY DEF G
  <2>2. PICK i \in 1..Len(q) : j = q[i]
    BY <1>4, <1>5
  <2>3. i \in answered
    BY <1>2, <1>4, <2>2
  <2> QED BY <1>2, <2>3
<1> DEFINE m == Max(answered)
<1>7. m \in answered /\ \A i \in answered : i <= m
  <2> HIDE DEF answered
  <2> QED BY <1>2, <1>6, GreatestElement
<1>8. m \in 1..Len(q) /\ q[m] \in G /\ q[m] \in S
  <2> HIDE DEF m
  <2> QED BY <1>2, <1>4, <1>7
<1>9. LastRTT(p) = arrived[q[m]].RTTMs
  <2>1. LastRTT(p) = p.Events[m].RTTMs
    BY <1>6 DEF LastRTT
  <2> HIDE DEF m
  <2> QED BY <1>2, <1>8, <2>1
<1> HIDE DEF m, answered
<1>10. Newest(q[m])
  <2> SUFFICES ASSUME NEW j \in G
               PROVE  \/ arrived[j].Seq < arrived[q[m]].Seq
                      \/ arrived[j].Seq = arrived[q[m]].Seq /\ j <= q[m]
    OBVIOUS
  <2>1. PICK i \in 1..Len(q) : j = q[i]
    BY <1>4, <1>5
  <2>2. i \in answered
    BY <1>2, <1>4, <2>1 DEF answered
  <2>3. i <= m
    BY <1>7, <2>2
  <2>4. CASE i = m
    <3>1. j = q[m]
      BY <2>1, <2>4
    <3>2. q[m] \in Nat
      BY <1>3, <1>8
    <3>3. q[m] <= q[m]
      BY <3>2
    <3> QED BY <3>1, <3>3
  <2>5. CASE i < m
    <3>1. <<q[i], q[m]>> \in SeqBefore(arrived)
      BY <1>1, <1>2, <1>8, <2>5 DEF Ordered
    <3>2. \/ arrived[q[i]].Seq < arrived[q[m]].Seq
          \/ arrived[q[i]].Seq = arrived[q[m]].Seq /\ q[i] < q[m]
      BY <3>1 DEF SeqBefore
    <3>3. q[i] \in Nat /\ q[m] \in Nat
      BY <1>2, <1>3, <1>8
    <3> QED BY <2>1, <3>2, <3>3
  <2>6. i = m \/ i < m
    <3>1. m \in Nat /\ i \in Nat
      BY <1>8
    <3> QED BY <2>3, <3>1
  <2> QED BY <2>4, <2>5, <2>6
<1>11. ASSUME NEW i \in G, NEW j \in G, Newest(i), Newest(j) PROVE i = j
  <2>1. /\ arrived[j].Seq < arrived[i].Seq \/ (arrived[j].Seq = arrived[i].Seq /\ j <= i)
        /\ arrived[i].Seq < arrived[j].Seq \/ (arrived[i].Seq = arrived[j].Seq /\ i <= j)
    BY <1>11
  <2>2. i \in Nat /\ j \in Nat /\ arrived[i].Seq \in Int /\ arrived[j].Seq \in Int
    BY <1>3, <1>4
  <2> QED BY <2>1, <2>2
<1>12. NewestOf(G) = CHOOSE i \in G : Newest(i)
  BY DEF NewestOf
<1> HIDE DEF Newest
<1>13. NewestOf(G) \in G /\ Newest(NewestOf(G))
  BY <1>8, <1>10, <1>12
<1>14. NewestOf(G) = q[m]
  BY <1>8, <1>10, <1>11, <1>13
<1> QED BY <1>9, <1>14 DEF G

\* A peer of a hop has what its events give when they are taken at once.
LEMMA BatchFits ==
  ASSUME TraceInv, NEW t \in DOMAIN stats.Hops, NEW k \in DOMAIN stats.Hops[t].Peers
  PROVE  BatchAgrees(t, k)
<1> DEFINE p == stats.Hops[t].Peers[k]
           S == CountedFor(t, k)
           G == GotOf(arrived, S)
           R == {arrived[i].RTTMs : i \in G}
<1>1. PeerFits(arrived, p, k, S) /\ S \in SUBSET (1..Len(arrived)) /\ arrived \in Seq(TraceEvents)
  BY HopIsThat DEF TraceInv
<1>2. G = {i \in S : ~arrived[i].Timeout}
  BY DEF GotOf
<1>3. G \subseteq S /\ \A i \in G : arrived[i].RTTMs \in Int
  <2>1. \A i \in 1..Len(arrived) : arrived[i].RTTMs \in Int
    BY <1>1, TraceTyped DEF TypedTrace
  <2> QED BY <1>1, <1>2, <2>1
<1> HIDE DEF p, S, G
<1>4. p.ReceivedCount = Cardinality(G) /\ p.LossCount = Cardinality(S) - Cardinality(G)
  BY <1>1 DEF PeerFits, CountsFit, G
<1>5. ASSUME G # {}
      PROVE  p.MinRTT = Min(R) /\ p.MaxRTT = Max(R) /\ p.TotalRTT = TotalOf(G)
             /\ LastRTT(p) = arrived[NewestOf(G)].RTTMs
  <2>1. R \subseteq Int
    BY <1>3
  <2>2. RTTsFit(arrived, p, G) /\ EventsFit(arrived, p, S)
    BY <1>1 DEF PeerFits, G
  <2>3. p.MinRTT = Min(R)
    <3>1. PICK i \in G : p.MinRTT = arrived[i].RTTMs /\ \A j \in G : p.MinRTT <= arrived[j].RTTMs
      BY <1>5, <2>2 DEF RTTsFit
    <3>2. p.MinRTT \in R /\ \A x \in R : p.MinRTT <= x
      BY <3>1
    <3> HIDE DEF R
    <3> QED BY <2>1, <3>2, MinIsLeast
  <2>4. p.MaxRTT = Max(R)
    <3>1. PICK i \in G : p.MaxRTT = arrived[i].RTTMs /\ \A j \in G : p.MaxRTT >= arrived[j].RTTMs
      BY <1>5, <2>2 DEF RTTsFit
    <3>2. p.MaxRTT \in R /\ \A x \in R : p.MaxRTT >= x
      BY <3>1
    <3> HIDE DEF R
    <3> QED BY <2>1, <3>2, MaxIsGreatest
  <2>5. p.TotalRTT = TotalOf(G)
    BY <2>2, CountedIsCounted DEF RTTsFit
  <2>6. LastRTT(p) = arrived[NewestOf(G)].RTTMs
    BY <1>1, <1>5, <2>2, LastIsNewest DEF G
  <2> QED BY <2>3, <2>4, <2>5, <2>6
<1> QED BY <1>2, <1>4, <1>5 DEF BatchAgrees, p, S

\* The statistics, from the invariant.
LEMMA StatsAgree == TraceInv => StatsAreThoseOfEvents
<1> SUFFICES ASSUME TraceInv PROVE StatsAreThoseOfEvents
  OBVIOUS
<1>1. DOMAIN stats.Hops = {t \in {HopTTL(arrived[i]) : i \in DOMAIN arrived} : Counted(t) # {}}
  <2>1. ASSUME NEW i \in DOMAIN arrived PROVE HopTTL(arrived[i]) \in Nat
    <3>1. arrived[i] \in TraceEvents
      BY DEF TraceInv
    <3> QED BY <3>1, HopTTLType
  <2>2. \A t : Counted(t) # {} => t \in {HopTTL(arrived[i]) : i \in DOMAIN arrived}
    BY DEF Counted
  <2>3. \A t \in Nat : t \in DOMAIN stats.Hops <=> Counted(t) # {}
    BY CountedIsCounted DEF TraceInv, HopsFit
  <2>4. \A t \in DOMAIN stats.Hops : t \in Nat
    BY HopIsThat
  <2> QED BY <2>1, <2>2, <2>3, <2>4
<1>2. ASSUME NEW t \in DOMAIN stats.Hops
      PROVE  /\ DOMAIN stats.Hops[t].Peers = {PeerKey(arrived[i]) : i \in Counted(t)}
             /\ \A k \in DOMAIN stats.Hops[t].Peers : BatchAgrees(t, k)
  BY HopIsThat, BatchFits
<1> QED BY <1>1, <1>2 DEF StatsAreThoseOfEvents

----------------------------------------------------------------------------
(* The table: every peer of every hop once, in the order of the hops.      *)

\* What the sort of the peers compares is a number: a peer has an event.
LEMMA MaxSeqIsInt ==
  ASSUME NEW A \in Seq(TraceEvents), NEW S \in SUBSET (1..Len(A)), S # {},
         NEW p, EventsFit(A, p, S)
  PROVE  MaxSeq(p) \in Int
<1>1. PICK q \in Seq(S) : ToSet(q) = S /\ p.Events = Mapped(A, q)
  BY DEF EventsFit
<1>2. Len(q) \in Nat /\ DOMAIN q = 1..Len(q)
  OBVIOUS
<1>3. DOMAIN q # {}
  BY <1>1 DEF ToSet
<1>4. Len(q) \in 1..Len(q)
  BY <1>2, <1>3
<1>6. \A i \in 1..Len(q) : q[i] \in S
  OBVIOUS
<1>5. q[Len(q)] \in 1..Len(A)
  BY <1>4, <1>6, Zenon
<1>7. \A i \in 1..Len(q) : A[q[i]] \in TraceEvents
  <2>1. \A m \in 1..Len(A) : A[m] \in TraceEvents
    OBVIOUS
  <2>2. \A m \in S : m \in 1..Len(A)
    OBVIOUS
  <2> QED
    BY <1>6, <2>1, <2>2, Zenon
<1>8. Mapped(A, q) = [i \in 1..Len(q) |-> A[q[i]]]
  BY <1>2 DEF Mapped
<1>9. Mapped(A, q) \in Seq(TraceEvents) /\ Len(Mapped(A, q)) = Len(q)
  BY <1>2, <1>7, <1>8
<1>10. p.Events[Len(p.Events)] = A[q[Len(q)]]
  BY <1>1, <1>4, <1>8, <1>9
<1> QED
  BY <1>10, <1>5, TraceTyped DEF TypedTrace, MaxSeq

\* The sort of the peers of a hop loses none of them.
LEMMA SortedPeersPermute ==
  ASSUME NEW D, NEW peers, NEW keys \in Seq(D), ToSet(keys) = D,
         \A i, j \in 1..Len(keys) : keys[i] = keys[j] => i = j,
         \A k \in D : MaxSeq(peers[k]) \in Int
  PROVE  LET s == SortedPeers(peers, keys)
         IN /\ s \in Seq(D) /\ Len(s) = Len(keys) /\ ToSet(s) = D
            /\ \A i, j \in 1..Len(s) : s[i] = s[j] => i = j
<1> DEFINE v == [i \in DOMAIN keys |-> -MaxSeq(peers[keys[i]])]
           s == SortedBy(keys, v)
<1>1. DOMAIN keys = 1..Len(keys) /\ \A i \in 1..Len(keys) : keys[i] \in D
  OBVIOUS
<1>2. \A i \in 1..Len(keys) : v[i] \in Int
  BY <1>1
<1>3. SortedPeers(peers, keys) = s
  BY Zenon DEF SortedPeers
<1> HIDE DEF v
<1>4. /\ s \in Seq(D) /\ Len(s) = Len(keys) /\ ToSet(s) = ToSet(keys)
      /\ \A i, j \in 1..Len(keys) : s[i] = s[j] => i = j
  BY <1>2, SortedByPermutes
<1> HIDE DEF s
<1> QED
  BY <1>3, <1>4

\* The peers of a hop in the order of the table.
LEMMA OrderPermutes ==
  ASSUME TraceInv, NEW t \in DOMAIN stats.Hops
  PROVE  LET hop == stats.Hops[t]
         IN /\ hop.PeerOrder \in Seq(DOMAIN hop.Peers) /\ Len(hop.PeerOrder) # 0
            /\ ToSet(hop.PeerOrder) = DOMAIN hop.Peers
            /\ \A i, j \in 1..Len(hop.PeerOrder) : hop.PeerOrder[i] = hop.PeerOrder[j] => i = j
<1> DEFINE hop == stats.Hops[t]
           D == DOMAIN hop.Peers
<1>1. /\ KeysFit(hop) /\ D = {PeerKey(arrived[i]) : i \in Counted(t)} /\ Counted(t) # {}
      /\ \A k \in D : /\ PeerFits(arrived, hop.Peers[k], k, CountedFor(t, k))
                      /\ CountedFor(t, k) \in SUBSET (1..Len(arrived)) /\ CountedFor(t, k) # {}
  BY HopIsThat
<1>2. arrived \in Seq(TraceEvents)
  BY DEF TraceInv
<1>3. \A k \in D : MaxSeq(hop.Peers[k]) \in Int
  BY <1>1, <1>2, MaxSeqIsInt DEF PeerFits
<1>4. D # {}
  BY <1>1
<1> HIDE DEF hop
<1>5. /\ hop.Keys \in Seq(D) /\ ToSet(hop.Keys) = D
      /\ \A i, j \in 1..Len(hop.Keys) : hop.Keys[i] = hop.Keys[j] => i = j
      /\ hop.PeerOrder = SortedPeers(hop.Peers, hop.Keys)
  BY <1>1 DEF KeysFit
<1> HIDE DEF D
<1>6. /\ hop.PeerOrder \in Seq(D) /\ ToSet(hop.PeerOrder) = D
      /\ \A i, j \in 1..Len(hop.PeerOrder) : hop.PeerOrder[i] = hop.PeerOrder[j] => i = j
  BY <1>3, <1>5, SortedPeersPermute
<1>7. Len(hop.PeerOrder) # 0
  BY <1>4, <1>6 DEF ToSet
<1> QED
  BY <1>6, <1>7 DEF hop, D

\* The keys that each number has in its list, with that number.
PairsOf(Y, h) == UNION {{<<t, k>> : k \in ToSet(h[t])} : t \in Y}

\* The lists g, of elements of V, are as long as those of h, of different keys of K.
KeyedBy(Y, V, K, g, h) ==
  /\ Y \subseteq Nat /\ g \in ListsOf(Y, V) /\ h \in ListsOf(Y, K)
  /\ \A t \in Y : Len(g[t]) = Len(h[t])
  /\ \A t \in Y : \A i, j \in 1..Len(h[t]) : h[t][i] = h[t][j] => i = j

\* The lists of all numbers of Y in their order.
InOrder(Y) == {o \in Seq(Y) : ToSet(o) = Y /\ Ordered(o, Before)}

\* The number of elements of lists that each have, at every place, another key.
LEMMA FlattenPairs ==
  ASSUME NEW V, NEW K, NEW Y, NEW g, NEW h, KeyedBy(Y, V, K, g, h)
  PROVE  \A o \in InOrder(Y) : Len(FlattenSeq(Mapped(g, o))) = Cardinality(PairsOf(Y, h))
<1> SUFFICES ASSUME NEW o \in Seq(Y), ToSet(o) = Y, Ordered(o, Before)
             PROVE  Len(FlattenSeq(Mapped(g, o))) = Cardinality(PairsOf(Y, h))
  BY DEF InOrder
<1> DEFINE Z == Y \X K
           Other == {w \in Z \X Z : w[1] # w[2]}
           pairs == [t \in Y |-> [i \in 1..Len(h[t]) |-> <<t, h[t][i]>>]]
<1>0. /\ Y \subseteq Nat /\ g \in ListsOf(Y, V) /\ h \in ListsOf(Y, K)
      /\ \A t \in Y : Len(g[t]) = Len(h[t])
      /\ \A t \in Y : \A i, j \in 1..Len(h[t]) : h[t][i] = h[t][j] => i = j
  BY DEF KeyedBy
<1>1. ASSUME NEW t \in Y
      PROVE  /\ Len(h[t]) \in Nat /\ DOMAIN h[t] = 1..Len(h[t])
             /\ \A i \in 1..Len(h[t]) : h[t][i] \in K
             /\ \A i \in 1..Len(h[t]) : <<t, h[t][i]>> \in Z
             /\ pairs[t] \in Seq(Z) /\ Len(pairs[t]) = Len(h[t])
             /\ \A i \in 1..Len(h[t]) : pairs[t][i] = <<t, h[t][i]>>
             /\ DOMAIN pairs[t] = 1..Len(h[t])
  <2>1. h[t] \in Seq(K)
    BY <1>0 DEF ListsOf
  <2>2. /\ Len(h[t]) \in Nat /\ DOMAIN h[t] = 1..Len(h[t])
        /\ \A i \in 1..Len(h[t]) : h[t][i] \in K
    BY <2>1
  <2>3. \A i \in 1..Len(h[t]) : <<t, h[t][i]>> \in Z
    BY <2>2
  <2>4. pairs[t] = [i \in 1..Len(h[t]) |-> <<t, h[t][i]>>]
    OBVIOUS
  <2> HIDE DEF pairs, Z
  <2>5. pairs[t] \in Seq(Z) /\ Len(pairs[t]) = Len(h[t]) /\ DOMAIN pairs[t] = 1..Len(h[t])
    BY <2>2, <2>3, <2>4
  <2>6. \A i \in 1..Len(h[t]) : pairs[t][i] = <<t, h[t][i]>>
    BY <2>4
  <2> QED
    BY <2>2, <2>3, <2>5, <2>6
<1>2. pairs \in ListsOf(Y, Z)
  BY <1>1 DEF ListsOf
<1>3. \A z, y \in Z : z # y => <<z, y>> \in Other
  OBVIOUS
<1>4. \A z \in Z : <<z, z>> \notin Other
  OBVIOUS
<1> HIDE DEF Other
<1>5. \A t \in Y : Ordered(pairs[t], Other)
  <2> SUFFICES ASSUME NEW t \in Y
               PROVE  Ordered(pairs[t], Other)
    OBVIOUS
  <2>1. DOMAIN pairs[t] = 1..Len(h[t])
    BY <1>1
  <2>2. ASSUME NEW i \in 1..Len(h[t]), NEW j \in 1..Len(h[t]), i < j
        PROVE  <<pairs[t][i], pairs[t][j]>> \in Other
    <3>1. Len(h[t]) \in Nat
      BY <1>1
    <3>2. h[t][i] # h[t][j]
      BY <1>0, <2>2, <3>1
    <3>3. <<t, h[t][i]>> \in Z /\ <<t, h[t][j]>> \in Z
      BY <1>1, Zenon
    <3>4. <<<<t, h[t][i]>>, <<t, h[t][j]>>>> \in Other
      BY <1>3, <3>2, <3>3
    <3>5. pairs[t][i] = <<t, h[t][i]>> /\ pairs[t][j] = <<t, h[t][j]>>
      BY <1>1, Zenon
    <3> QED
      BY <3>4, <3>5, Zenon
  <2> HIDE DEF pairs
  <2> QED
    BY <2>1, <2>2 DEF Ordered
<1>6. \A t, u \in Y : t < u => \A x \in ToSet(pairs[t]), y \in ToSet(pairs[u]) : <<x, y>> \in Other
  <2> SUFFICES ASSUME NEW t \in Y, NEW u \in Y, t < u,
                      NEW x \in ToSet(pairs[t]), NEW y \in ToSet(pairs[u])
               PROVE  <<x, y>> \in Other
    OBVIOUS
  <2>1. PICK i \in 1..Len(h[t]) : x = <<t, h[t][i]>>
    BY <1>1 DEF ToSet
  <2>2. PICK j \in 1..Len(h[u]) : y = <<u, h[u][j]>>
    BY <1>1 DEF ToSet
  <2>3. t # u
    BY <1>0
  <2>4. x \in Z /\ y \in Z
    BY <1>1, <2>1, <2>2
  <2> HIDE DEF Z
  <2> QED
    BY <1>3, <2>1, <2>2, <2>3, <2>4
<1>7. \A t \in Y : ToSet(pairs[t]) = {<<t, k>> : k \in ToSet(h[t])}
  <2> SUFFICES ASSUME NEW t \in Y
               PROVE  ToSet(pairs[t]) = {<<t, k>> : k \in ToSet(h[t])}
    OBVIOUS
  <2>1. ToSet(pairs[t]) = {pairs[t][i] : i \in 1..Len(h[t])}
    BY <1>1, Zenon DEF ToSet
  <2>2. ToSet(h[t]) = {h[t][i] : i \in 1..Len(h[t])}
    BY <1>1, Zenon DEF ToSet
  <2>3. \A i \in 1..Len(h[t]) : pairs[t][i] = <<t, h[t][i]>>
    BY <1>1, Zenon
  <2> DEFINE M == 1..Len(h[t])
             A(i) == pairs[t][i]
             B(i) == h[t][i]
  <2>4. /\ ToSet(pairs[t]) = {A(i) : i \in M} /\ ToSet(h[t]) = {B(i) : i \in M}
        /\ \A i \in M : A(i) = <<t, B(i)>>
    BY <2>1, <2>2, <2>3, Zenon
  <2> HIDE DEF pairs, M, A, B
  <2>5. {A(i) : i \in M} = {<<t, k>> : k \in {B(i) : i \in M}}
    BY <2>4
  <2> QED
    BY <2>4, <2>5, Zenon
<1> DEFINE all == FlattenSeq(Mapped(pairs, o))
<1>8. Len(FlattenSeq(Mapped(g, o))) = Len(all)
  <2>1. SameLengths(Y, g, pairs)
    BY <1>0, <1>1 DEF SameLengths
  <2> HIDE DEF pairs, Z, all
  <2>2. \A w \in Seq(Y) : Len(FlattenSeq(Mapped(g, w))) = Len(FlattenSeq(Mapped(pairs, w)))
    BY <1>0, <1>2, <2>1, FlattenLength
  <2> QED
    BY <2>2, Zenon DEF all
<1>9. all \in Seq(Z) /\ ToSet(all) = UNION {ToSet(pairs[t]) : t \in Y} /\ Ordered(all, Other)
  <2> HIDE DEF pairs, Z
  <2>1. \A w \in Seq(Y) :
          /\ FlattenSeq(Mapped(pairs, w)) \in Seq(Z)
          /\ ToSet(FlattenSeq(Mapped(pairs, w))) = UNION {ToSet(pairs[t]) : t \in ToSet(w)}
          /\ Ordered(w, Before) => Ordered(FlattenSeq(Mapped(pairs, w)), Other)
    BY <1>0, <1>2, <1>5, <1>6, FlattenOrdered
  <2> QED
    BY <2>1, Zenon
<1>10. UNION {ToSet(pairs[t]) : t \in Y} = UNION {{<<t, k>> : k \in ToSet(h[t])} : t \in Y}
  <2>1. \A t \in Y : ToSet(pairs[t]) = {<<t, k>> : k \in ToSet(h[t])}
    BY <1>7
  <2>2. {ToSet(pairs[t]) : t \in Y} = {{<<t, k>> : k \in ToSet(h[t])} : t \in Y}
    <3> DEFINE P(t) == ToSet(pairs[t])
               W(t) == {<<t, k>> : k \in ToSet(h[t])}
    <3>1. \A t \in Y : P(t) = W(t)
      BY <2>1
    <3> HIDE DEF P, W
    <3>2. {P(t) : t \in Y} = {W(t) : t \in Y}
      BY <3>1
    <3> QED
      BY <3>2 DEF P, W
  <2> QED
    BY <2>2, Zenon
<1>11. \A i, j \in 1..Len(all) : all[i] = all[j] => i = j
  <2> HIDE DEF pairs, all, Z
  <2>1. DOMAIN all = 1..Len(all) /\ \A i \in 1..Len(all) : all[i] \in Z
    BY <1>9
  <2> SUFFICES ASSUME NEW i \in 1..Len(all), NEW j \in 1..Len(all), all[i] = all[j], i # j
               PROVE  FALSE
    OBVIOUS
  <2>2. i < j \/ j < i
    OBVIOUS
  <2>3. <<all[i], all[j]>> \in Other \/ <<all[j], all[i]>> \in Other
    BY <1>9, <2>1, <2>2 DEF Ordered
  <2> QED
    BY <1>4, <2>1, <2>3
<1>12. Cardinality(ToSet(all)) = Len(all)
  <2> HIDE DEF pairs, all, Z
  <2> QED
    BY <1>9, <1>11, LenIsCardinality
<1> QED
  BY <1>8, <1>9, <1>10, <1>12, Zenon DEF PairsOf

\* The lines of each hop, and all lines of the table.
LinesOfHops == [t \in DOMAIN stats.Hops |-> HopLines(stats, t)]

LinesShown == UNION {ToSet(HopLines(stats, t)) : t \in DOMAIN stats.Hops}

LineFits(l) ==
  l.name = "[TIMEOUT]" <=> l.rtts = <<>>

\* A line is called [TIMEOUT] only if it shows no round-trip times.
LEMMA NameIsHonest ==
  ASSUME TraceInv, NEW t \in DOMAIN stats.Hops, NEW k \in DOMAIN stats.Hops[t].Peers, NEW n
  PROVE  LineFits(TableLine(n, stats.Hops[t].Peers[k]))
<1> DEFINE p == stats.Hops[t].Peers[k]
<1>1. NameFits(p, k, CountedFor(t, k)) /\ k \in {PeerKey(arrived[i]) : i \in Counted(t)}
      /\ Counted(t) \in SUBSET (1..Len(arrived))
  BY HopIsThat DEF PeerFits
<1>2. PICK i \in 1..Len(arrived) : k = PeerKey(arrived[i])
  BY <1>1
<1>3. arrived[i] \in TraceEvents
  BY DEF TraceInv
<1>4. k # "[TIMEOUT]"
  BY <1>2, <1>3, EventsAreTracked DEF PeerKey, Star
<1>5. p.Peer # "[TIMEOUT]" /\ p.PeerRDNS # "[TIMEOUT]"
  BY <1>1, <1>4 DEF NameFits, NoPeer
<1> HIDE DEF p
<1>6. ~IsTimeout(p) => PeerName(p) # "[TIMEOUT]"
  BY <1>5 DEF PeerName, Or, NoPeer, Star
<1>7. IsTimeout(p) => PeerName(p) = "[TIMEOUT]"
  BY DEF PeerName
<1> DEFINE l == TableLine(n, p)
<1>8. l.name = PeerName(p)
      /\ l.rtts = IF IsTimeout(p) THEN <<>> ELSE <<LastRTT(p), p.MinRTT, AvgRTT(p), p.MaxRTT>>
  <2> HIDE DEF IsTimeout, PeerName, LastRTT, AvgRTT, LossPercent
  <2> QED
    BY DEF TableLine
<1>9. <<LastRTT(p), p.MinRTT, AvgRTT(p), p.MaxRTT>> # <<>>
  OBVIOUS
<1>10. LineFits(l)
  <2> HIDE DEF l
  <2> QED
    BY <1>6, <1>7, <1>8, <1>9 DEF LineFits
<1> QED
  BY <1>10 DEF p

\* A hop has a line for each of its peers; the first has its number.
LEMMA LinesOfHop ==
  ASSUME TraceInv, NEW t \in DOMAIN stats.Hops
  PROVE  LET lines == HopLines(stats, t)
         IN /\ lines \in Seq(LinesShown) /\ Len(lines) = Len(stats.Hops[t].PeerOrder)
            /\ Len(lines) # 0 /\ lines[1].number = t
            /\ \A i \in 2..Len(lines) : lines[i].number = 0
            /\ \A l \in ToSet(lines) : LineFits(l)
<1> DEFINE hop == stats.Hops[t]
           order == hop.PeerOrder
           n == Len(order)
           lines == HopLines(stats, t)
           numberAt(i) == IF i = 1 THEN t ELSE 0
           peerAt(i) == hop.Peers[order[i]]
<1>1. order \in Seq(DOMAIN hop.Peers) /\ n # 0
  BY OrderPermutes
<1>2. n \in Nat /\ DOMAIN order = 1..n /\ \A i \in 1..n : order[i] \in DOMAIN hop.Peers
  BY <1>1
<1>3. lines = [i \in 1..n |-> TableLine(numberAt(i), peerAt(i))]
  BY <1>2 DEF HopLines
<1>4. \A i \in 1..n : lines[i] = TableLine(numberAt(i), peerAt(i))
  BY <1>3
<1>5. \A i \in 1..n : lines[i].number = numberAt(i)
  <2>1. \A m, p : TableLine(m, p).number = m
    BY DEF TableLine
  <2> HIDE DEF lines, numberAt, peerAt
  <2> QED
    BY <1>4, <2>1, Zenon
<1>6. \A i \in 1..n : LineFits(lines[i])
  BY <1>2, <1>4, NameIsHonest
<1>7. DOMAIN lines = 1..n
  BY <1>3
<1>8. ToSet(lines) \subseteq LinesShown
  BY DEF LinesShown
<1>9. \A i \in 1..n : lines[i] \in ToSet(lines)
  BY <1>7 DEF ToSet
<1>10. ToSet(lines) = {lines[i] : i \in 1..n}
  BY <1>7 DEF ToSet
<1> DEFINE W == [i \in 1..n |-> lines[i]]
<1>11. lines = W
  BY <1>3, <1>4
<1> HIDE DEF lines, order
<1>12. W \in Seq(LinesShown) /\ Len(W) = n
  BY <1>2, <1>8, <1>9
<1>13. 1 \in 1..n /\ \A i \in 2..n : i \in 1..n /\ i # 1
  BY <1>1, <1>2
<1>14. lines \in Seq(LinesShown) /\ Len(lines) = n
  BY <1>11, <1>12, Zenon
<1>15. lines[1].number = t /\ \A i \in 2..Len(lines) : lines[i].number = 0
  BY <1>5, <1>13, <1>14
<1>16. \A l \in ToSet(lines) : LineFits(l)
  BY <1>6, <1>10
<1> QED
  BY <1>1, <1>14, <1>15, <1>16 DEF lines, order

\* The table puts the lines of the hops one behind the other, by their numbers.
LEMMA TableIsFlat ==
  ASSUME TraceInv
  PROVE  /\ DOMAIN stats.Hops \subseteq Nat \ {0}
         /\ stats.HopOrder \in Seq(DOMAIN stats.Hops) /\ Ordered(stats.HopOrder, Before)
         /\ ToSet(stats.HopOrder) = DOMAIN stats.Hops
         /\ LinesOfHops \in ListsOf(DOMAIN stats.Hops, LinesShown)
         /\ ToTable(stats) = FlattenSeq(Mapped(LinesOfHops, stats.HopOrder))
         /\ ToTable(stats) \in Seq(LinesShown) /\ ToSet(ToTable(stats)) = LinesShown
<1> DEFINE Y == DOMAIN stats.Hops
           o == stats.HopOrder
<1>1. o \in Seq(Nat \ {0}) /\ Ordered(o, Before) /\ ToSet(o) = Y
  BY DEF TraceInv, OrderFits
<1>2. \A i \in DOMAIN o : o[i] \in Y
  BY <1>1 DEF ToSet
<1>3. o \in Seq(Y)
  <2> HIDE DEF o, Y
  <2> QED
    BY <1>1, <1>2
<1>4. Y \subseteq Nat \ {0}
  BY HopIsThat
<1>5. \A t \in Y : LinesOfHops[t] = HopLines(stats, t)
  BY DEF LinesOfHops
<1>6. LinesOfHops \in ListsOf(Y, LinesShown)
  BY LinesOfHop DEF LinesOfHops, ListsOf
<1>7. ToTable(stats) = FlattenSeq(Mapped(LinesOfHops, o))
  <2> DEFINE L(i) == IF o[i] \in Y THEN HopLines(stats, o[i]) ELSE <<>>
  <2>1. ToTable(stats) = FlattenSeq([i \in DOMAIN o |-> L(i)])
    BY Zenon DEF ToTable
  <2>2. \A i \in DOMAIN o : L(i) = LinesOfHops[o[i]]
    BY <1>2, <1>5
  <2>3. [i \in DOMAIN o |-> L(i)] = [i \in DOMAIN o |-> LinesOfHops[o[i]]]
    <3> HIDE DEF L, o
    <3> QED
      BY <2>2
  <2> QED
    BY <2>1, <2>3, Zenon DEF Mapped
<1> DEFINE R == LinesShown \X LinesShown
<1>8. \A t \in Y : LinesOfHops[t] \in Seq(LinesShown)
  BY <1>6 DEF ListsOf
<1>9. \A t \in Y : ToSet(LinesOfHops[t]) \subseteq LinesShown
  BY <1>5 DEF LinesShown
<1>10. \A t \in Y : Ordered(LinesOfHops[t], R)
  BY <1>8 DEF Ordered
<1>11. \A t, u \in Y : t < u => \A x \in ToSet(LinesOfHops[t]), y \in ToSet(LinesOfHops[u]) : <<x, y>> \in R
  BY <1>9
<1>12. UNION {ToSet(LinesOfHops[t]) : t \in Y} = LinesShown
  BY <1>5 DEF LinesShown
<1> HIDE DEF R, Y, o
<1>13. \A w \in Seq(Y) :
         /\ FlattenSeq(Mapped(LinesOfHops, w)) \in Seq(LinesShown)
         /\ ToSet(FlattenSeq(Mapped(LinesOfHops, w))) = UNION {ToSet(LinesOfHops[t]) : t \in ToSet(w)}
         /\ Ordered(w, Before) => Ordered(FlattenSeq(Mapped(LinesOfHops, w)), R)
  <2>1. Y \subseteq Nat
    BY <1>4
  <2> QED
    BY <1>6, <1>10, <1>11, <2>1, FlattenOrdered
<1>14. ToTable(stats) \in Seq(LinesShown) /\ ToSet(ToTable(stats)) = LinesShown
  BY <1>1, <1>3, <1>7, <1>12, <1>13, Zenon
<1> QED
  BY <1>1, <1>3, <1>4, <1>6, <1>7, <1>14 DEF Y, o

\* The table has every peer of every hop exactly once, and numbers each hop once.
LEMMA TableComplete == TraceInv => TableIsComplete
<1> SUFFICES ASSUME TraceInv
             PROVE  TableIsComplete
  OBVIOUS
<1> DEFINE Y == DOMAIN stats.Hops
           o == stats.HopOrder
           lines == ToTable(stats)
           S == {l \in ToSet(lines) : l.number # 0}
           numbered == Only(lines, S)
           f == [l \in LinesShown |-> l.number]
           peersOf == [t \in Y |-> stats.Hops[t].PeerOrder]
           K == UNION {DOMAIN stats.Hops[t].Peers : t \in Y}
<1>1. /\ Y \subseteq Nat \ {0} /\ o \in Seq(Y) /\ Ordered(o, Before) /\ ToSet(o) = Y
      /\ LinesOfHops \in ListsOf(Y, LinesShown) /\ lines = FlattenSeq(Mapped(LinesOfHops, o))
      /\ lines \in Seq(LinesShown) /\ ToSet(lines) = LinesShown
  BY TableIsFlat
<1>2. Len(lines) = Cardinality(UNION {{<<t, k>> : k \in DOMAIN stats.Hops[t].Peers} : t \in Y})
  <2>1. \A t \in Y : /\ peersOf[t] = stats.Hops[t].PeerOrder
                     /\ peersOf[t] \in Seq(DOMAIN stats.Hops[t].Peers)
                     /\ ToSet(peersOf[t]) = DOMAIN stats.Hops[t].Peers
                     /\ \A i, j \in 1..Len(peersOf[t]) : peersOf[t][i] = peersOf[t][j] => i = j
    BY OrderPermutes
  <2>2. \A t \in Y : peersOf[t] \in Seq(K)
    <3> SUFFICES ASSUME NEW t \in Y
                 PROVE  peersOf[t] \in Seq(K)
      OBVIOUS
    <3>1. peersOf[t] \in Seq(DOMAIN stats.Hops[t].Peers)
      BY <2>1
    <3>2. DOMAIN stats.Hops[t].Peers \subseteq K
      OBVIOUS
    <3> HIDE DEF peersOf, K
    <3> QED
      BY <3>1, <3>2
  <2>3. peersOf \in ListsOf(Y, K)
    BY <2>2 DEF ListsOf
  <2>4. \A t \in Y : Len(LinesOfHops[t]) = Len(peersOf[t])
    BY <2>1, LinesOfHop DEF LinesOfHops
  <2>5. Y \subseteq Nat
    BY <1>1
  <2>6. \A t \in Y : \A i, j \in 1..Len(peersOf[t]) : peersOf[t][i] = peersOf[t][j] => i = j
    BY <2>1
  <2>9. KeyedBy(Y, LinesShown, K, LinesOfHops, peersOf)
    BY <1>1, <2>3, <2>4, <2>5, <2>6, Zenon DEF KeyedBy
  <2>10. o \in InOrder(Y)
    BY <1>1, Zenon DEF InOrder
  <2>7. Len(FlattenSeq(Mapped(LinesOfHops, o))) = Cardinality(PairsOf(Y, peersOf))
    <3> HIDE DEF peersOf, K, Y, o
    <3> QED
      BY <2>9, <2>10, FlattenPairs
  <2>8. PairsOf(Y, peersOf)
          = UNION {{<<t, k>> : k \in DOMAIN stats.Hops[t].Peers} : t \in Y}
    <3> DEFINE P(t) == {<<t, k>> : k \in ToSet(peersOf[t])}
               Q(t) == {<<t, k>> : k \in DOMAIN stats.Hops[t].Peers}
    <3>1. \A t \in Y : P(t) = Q(t)
      BY <2>1
    <3> HIDE DEF P, Q
    <3>2. UNION {P(t) : t \in Y} = UNION {Q(t) : t \in Y}
      BY <3>1
    <3> QED
      BY <3>2 DEF P, Q, PairsOf
  <2> QED
    BY <1>1, <2>7, <2>8, Zenon
<1>3. [i \in DOMAIN numbered |-> numbered[i].number] = o
  <2>1. \A t \in Y : \E x \in LinesShown : Only(LinesOfHops[t], S) = <<x>> /\ f[x] = t
    <3> SUFFICES ASSUME NEW t \in Y
                 PROVE  \E x \in LinesShown : Only(LinesOfHops[t], S) = <<x>> /\ f[x] = t
      OBVIOUS
    <3>1. LinesOfHops[t] = HopLines(stats, t)
      BY DEF LinesOfHops
    <3> DEFINE s == LinesOfHops[t]
    <3>2. /\ s \in Seq(LinesShown) /\ Len(s) # 0 /\ s[1].number = t
          /\ \A i \in 2..Len(s) : s[i].number = 0
      BY <3>1, LinesOfHop
    <3> HIDE DEF s
    <3>3. s[1] \in LinesShown
      BY <3>2
    <3>4. s[1] \in S
      <4>1. t # 0
        BY <1>1
      <4> HIDE DEF lines
      <4> QED
        BY <1>1, <3>2, <3>3, <4>1
    <3>5. \A i \in 2..Len(s) : s[i] \notin S
      BY <3>2
    <3>6. Only(s, S) = <<s[1]>>
      <4> HIDE DEF S
      <4> QED
        BY <3>2, <3>4, <3>5, OnlyFirst
    <3>7. f[s[1]] = t
      BY <3>2, <3>3
    <3> QED
      BY <3>3, <3>6, <3>7 DEF s
  <2>2. Mapped(f, numbered) = o
    <3>1. o \in Seq(Y) /\ LinesOfHops \in ListsOf(Y, LinesShown) /\ lines = FlattenSeq(Mapped(LinesOfHops, o))
      BY <1>1, Zenon
    <3> HIDE DEF f, S, Y, o, lines
    <3>2. \A w \in Seq(Y) : Mapped(f, Only(FlattenSeq(Mapped(LinesOfHops, w)), S)) = w
      BY <2>1, <3>1, FlattenOnly
    <3> QED
      BY <3>1, <3>2, Zenon
  <2>3. numbered \in Seq(LinesShown)
    <3> HIDE DEF S, lines
    <3> QED
      BY <1>1, OnlyInSeq
  <2>4. \A i \in DOMAIN numbered : f[numbered[i]] = numbered[i].number
    <3> HIDE DEF numbered
    <3> QED
      BY <2>3
  <2>5. Mapped(f, numbered) = [i \in DOMAIN numbered |-> numbered[i].number]
    <3> HIDE DEF numbered, f
    <3> QED
      BY <2>4 DEF Mapped
  <2> QED
    BY <2>2, <2>5, Zenon
<1>4. \A i, j \in DOMAIN o : i < j => o[i] < o[j]
  <2> HIDE DEF o
  <2> QED
    BY <1>1 DEF Ordered, Before
<1>5. \A i \in DOMAIN lines : lines[i].name = "[TIMEOUT]" <=> lines[i].rtts = <<>>
  <2>1. \A l \in LinesShown : LineFits(l)
    <3>1. \A t \in Y : \A l \in ToSet(HopLines(stats, t)) : LineFits(l)
      BY LinesOfHop
    <3> QED
      BY <3>1, Zenon DEF LinesShown
  <2>2. \A i \in DOMAIN lines : lines[i] \in LinesShown
    <3> HIDE DEF lines
    <3> QED
      BY <1>1
  <2> HIDE DEF lines
  <2> QED
    BY <2>1, <2>2 DEF LineFits
<1> QED
  BY <1>1, <1>2, <1>3, <1>4, <1>5, Zenon DEF TableIsComplete

----------------------------------------------------------------------------
(* The map: a marker for every peer that has answered from a known place, and*)
(* a path through them.                                                    *)

\* The place is that of the answer with the lowest sequence number.
PlaceFits(t, k, place) ==
  \E j \in Answers(t, k) : /\ arrived[j].ExactLocation = place
                           /\ \A o \in Answers(t, k) : arrived[j].Seq <= arrived[o].Seq

\* A peer is called by its key.
LEMMA KeyOfPeer ==
  ASSUME TraceInv, NEW t \in DOMAIN stats.Hops, NEW k \in DOMAIN stats.Hops[t].Peers
  PROVE  Or(stats.Hops[t].Peers[k].Peer, Star, NoPeer) = k
<1>1. /\ NameFits(stats.Hops[t].Peers[k], k, CountedFor(t, k)) /\ CountedFor(t, k) # {}
      /\ k \in {PeerKey(arrived[i]) : i \in Counted(t)}
  BY HopIsThat DEF PeerFits
<1>2. k = Star \/ k # NoPeer
  BY <1>1 DEF PeerKey
<1>3. Star # NoPeer
  BY DEF Star, NoPeer
<1> HIDE DEF Star, NoPeer
<1>4. stats.Hops[t].Peers[k].Peer = IF k = Star THEN NoPeer ELSE k
  BY <1>1 DEF NameFits
<1> QED
  BY <1>2, <1>3, <1>4 DEF Or

\* The places of a peer are those of its answers, lowest Seq first.
LEMMA PlacesAreAnswers ==
  ASSUME arrived \in Seq(TraceEvents), NEW t, NEW k, NEW p,
         CountedFor(t, k) \in SUBSET (1..Len(arrived)), EventsFit(arrived, p, CountedFor(t, k))
  PROVE  /\ PlacesOf(p) # <<>> <=> Answers(t, k) # {}
         /\ Answers(t, k) # {} => PlaceFits(t, k, PlacesOf(p)[1].ExactLocation)
<1> DEFINE S == CountedFor(t, k)
           A == Answers(t, k)
           E == {e \in TraceEvents : e.ExactLocation # NoPlace /\ ~e.Timeout}
<1>1. PICK q \in Seq(S) : ToSet(q) = S /\ Ordered(q, SeqBefore(arrived))
                          /\ p.Events = Mapped(arrived, q)
  BY DEF EventsFit
<1> DEFINE r == Only(q, A)
<1>2. \A i \in S : i \in 1..Len(arrived)
  OBVIOUS
<1>3. \A i \in S : arrived[i] \in TraceEvents
  <2>1. \A i \in 1..Len(arrived) : arrived[i] \in TraceEvents
    OBVIOUS
  <2> QED
    BY <1>2, <2>1, Zenon
<1>4. \A i \in S : i \in A <=> arrived[i] \in E
  BY <1>3 DEF Answers
<1>5. PlacesOf(p) = Mapped(arrived, r)
  <2>1. PlacesOf(p) = Only(Mapped(arrived, q), E)
    BY <1>1, Zenon DEF PlacesOf
  <2> HIDE DEF E, A, S
  <2>2. \A w \in Seq(S) : Mapped(arrived, Only(w, A)) = Only(Mapped(arrived, w), E)
    BY <1>4, OnlyMapped
  <2> QED
    BY <1>1, <2>1, <2>2, Zenon
<1>6. A \subseteq S
  BY DEF Answers
<1>7. r \in Seq(S) /\ ToSet(r) = A /\ Ordered(r, SeqBefore(arrived))
  <2> HIDE DEF A, S
  <2>1. r \in Seq(S)
    BY <1>1, OnlyInSeq
  <2>2. ToSet(r) = ToSet(q) \cap A
    BY <1>1, OnlyRange
  <2>3. Ordered(r, SeqBefore(arrived))
    BY <1>1, OnlyOrdered
  <2> QED
    BY <1>1, <1>6, <2>1, <2>2, <2>3
<1> HIDE DEF r, A, S
<1>8. /\ Len(r) \in Nat /\ DOMAIN r = 1..Len(r)
      /\ \A i \in 1..Len(r) : r[i] \in A
      /\ \A j \in A : \E i \in 1..Len(r) : r[i] = j
  BY <1>7 DEF ToSet
<1>9. DOMAIN PlacesOf(p) = 1..Len(r) /\ \A i \in 1..Len(r) : PlacesOf(p)[i] = arrived[r[i]]
  BY <1>5, <1>8 DEF Mapped
<1>10. PlacesOf(p) # <<>> <=> A # {}
  <2>1. A = {} => Len(r) = 0
    BY <1>8
  <2>2. A # {} => 1 \in 1..Len(r)
    BY <1>8
  <2>3. Len(r) = 0 => PlacesOf(p) = <<>>
    <3>1. Len(r) = 0 => r = <<>>
      BY <1>7
    <3>2. Mapped(arrived, <<>>) = <<>>
      BY DEF Mapped
    <3> QED
      BY <1>5, <3>1, <3>2, Zenon
  <2>4. 1 \in 1..Len(r) => PlacesOf(p) # <<>>
    BY <1>9
  <2> QED
    BY <2>1, <2>2, <2>3, <2>4, Zenon
<1>11. ASSUME A # {}
       PROVE  PlaceFits(t, k, PlacesOf(p)[1].ExactLocation)
  <2>1. 1 \in 1..Len(r)
    BY <1>8, <1>11
  <2>2. r[1] \in A /\ PlacesOf(p)[1] = arrived[r[1]]
    BY <1>8, <1>9, <2>1, Zenon
  <2>3. ASSUME NEW o \in A
        PROVE  arrived[r[1]].Seq <= arrived[o].Seq
    <3>1. PICK i \in 1..Len(r) : r[i] = o
      BY <1>8
    <3>2. CASE i = 1
      <4>1. arrived[o].Seq \in Int
        <5>1. o \in 1..Len(arrived)
          BY <1>2, <1>6
        <5> QED
          BY <5>1, TraceTyped DEF TypedTrace
      <4> QED
        BY <3>1, <3>2, <4>1
    <3>3. CASE i # 1
      <4>1. 1 < i
        BY <1>8, <3>3
      <4>2. <<r[1], r[i]>> \in SeqBefore(arrived)
        BY <1>7, <1>8, <2>1, <4>1 DEF Ordered
      <4>3. arrived[r[1]].Seq < arrived[r[i]].Seq \/ arrived[r[1]].Seq = arrived[r[i]].Seq
        BY <4>2 DEF SeqBefore
      <4>4. arrived[r[1]].Seq \in Int /\ arrived[r[i]].Seq \in Int
        <5>1. r[1] \in 1..Len(arrived) /\ r[i] \in 1..Len(arrived)
          BY <1>2, <1>6, <2>2, <3>1
        <5>2. \A m \in 1..Len(arrived) : arrived[m].Seq \in Int
          BY TraceTyped DEF TypedTrace
        <5> QED
          BY <5>1, <5>2, Zenon
      <4> QED
        BY <3>1, <4>3, <4>4
    <3> QED
      BY <3>2, <3>3
  <2> QED
    BY <2>2, <2>3 DEF PlaceFits, A
<1> QED
  BY <1>10, <1>11 DEF A

\* A peer is on the map if it has answered from a known place.
LEMMA PlacedHasAnswered ==
  ASSUME TraceInv, NEW t \in DOMAIN stats.Hops, NEW k \in DOMAIN stats.Hops[t].Peers
  PROVE  LET p == stats.Hops[t].Peers[k]
         IN /\ (p.ReceivedCount # 0 /\ PlacesOf(p) # <<>>) <=> Answers(t, k) # {}
            /\ Answers(t, k) # {} => PlaceFits(t, k, PlacesOf(p)[1].ExactLocation)
<1> DEFINE p == stats.Hops[t].Peers[k]
           S == CountedFor(t, k)
           G == GotOf(arrived, S)
<1>1. PeerFits(arrived, p, k, S) /\ S \in SUBSET (1..Len(arrived))
  BY HopIsThat
<1>2. arrived \in Seq(TraceEvents)
  BY DEF TraceInv
<1>3. /\ PlacesOf(p) # <<>> <=> Answers(t, k) # {}
      /\ Answers(t, k) # {} => PlaceFits(t, k, PlacesOf(p)[1].ExactLocation)
  <2>1. EventsFit(arrived, p, S)
    BY <1>1 DEF PeerFits
  <2> HIDE DEF p
  <2> QED
    BY <1>1, <1>2, <2>1, PlacesAreAnswers
<1>4. Answers(t, k) # {} => p.ReceivedCount # 0
  <2>1. p.ReceivedCount = Cardinality(G)
    BY <1>1 DEF PeerFits, CountsFit
  <2>2. Answers(t, k) \subseteq G
    BY DEF Answers, GotOf
  <2>3. G \in SUBSET (1..Len(arrived))
    BY <1>1 DEF GotOf
  <2>4. IsFiniteSet(G)
    <3>1. Len(arrived) \in Nat
      BY <1>2
    <3> HIDE DEF G
    <3> QED
      BY <2>3, <3>1, PositionsFinite
  <2>5. Cardinality(G) = 0 => G = {}
    BY <2>4, FS_EmptySet
  <2> QED
    BY <2>1, <2>2, <2>5
<1> QED
  BY <1>3, <1>4

\* The keys of a hop that have a marker, in the order of the table.
KeysPlaced(t) ==
  Only(stats.Hops[t].PeerOrder, {k \in DOMAIN stats.Hops[t].Peers : Answers(t, k) # {}})

MarkerFits(t, k, m) ==
  m.ttl = t /\ Or(m.peer, Star, NoPeer) = k /\ PlaceFits(t, k, m.place)

\* The keys of a hop that have a marker, each once.
LEMMA KeysPlacedAre ==
  ASSUME TraceInv, NEW t \in DOMAIN stats.Hops
  PROVE  /\ KeysPlaced(t) \in Seq(DOMAIN stats.Hops[t].Peers)
         /\ ToSet(KeysPlaced(t)) = {k \in DOMAIN stats.Hops[t].Peers : Answers(t, k) # {}}
         /\ \A i, j \in 1..Len(KeysPlaced(t)) : KeysPlaced(t)[i] = KeysPlaced(t)[j] => i = j
<1> DEFINE D == DOMAIN stats.Hops[t].Peers
           o == stats.Hops[t].PeerOrder
           P == {k \in D : Answers(t, k) # {}}
           ks == Only(o, P)
           Other == {w \in D \X D : w[1] # w[2]}
<1>1. /\ o \in Seq(D) /\ ToSet(o) = D
      /\ \A i, j \in 1..Len(o) : o[i] = o[j] => i = j
  BY OrderPermutes
<1>2. KeysPlaced(t) = ks
  BY Zenon DEF KeysPlaced
<1>3. P \subseteq D
  OBVIOUS
<1> HIDE DEF D, P, o
<1>4. Ordered(o, Other)
  <2> SUFFICES ASSUME NEW i \in DOMAIN o, NEW j \in DOMAIN o, i < j
               PROVE  <<o[i], o[j]>> \in Other
    BY DEF Ordered
  <2>1. i \in 1..Len(o) /\ j \in 1..Len(o) /\ i # j /\ o[i] \in D /\ o[j] \in D
    BY <1>1
  <2>2. o[i] # o[j]
    BY <1>1, <2>1
  <2> QED
    BY <2>1, <2>2
<1> HIDE DEF Other
<1>5. ks \in Seq(D)
  BY <1>1, OnlyInSeq
<1>6. ToSet(ks) = P
  <2>1. ToSet(ks) = ToSet(o) \cap P
    BY <1>1, OnlyRange
  <2> QED
    BY <1>1, <1>3, <2>1
<1>7. Ordered(ks, Other)
  BY <1>1, <1>4, OnlyOrdered
<1> HIDE DEF ks
<1>8. \A i, j \in 1..Len(ks) : ks[i] = ks[j] => i = j
  <2> SUFFICES ASSUME NEW i \in 1..Len(ks), NEW j \in 1..Len(ks), ks[i] = ks[j], i # j
               PROVE  FALSE
    OBVIOUS
  <2>1. DOMAIN ks = 1..Len(ks) /\ Len(ks) \in Nat
    BY <1>5
  <2>2. i < j \/ j < i
    BY <2>1
  <2>3. <<ks[i], ks[j]>> \in Other \/ <<ks[j], ks[i]>> \in Other
    BY <1>7, <2>1, <2>2 DEF Ordered
  <2> QED
    BY <2>3 DEF Other
<1> QED
  BY <1>2, <1>5, <1>6, <1>8, Zenon DEF D, P

\* The markers of a hop are those of its keys that have one.
LEMMA MarkersOfHop ==
  ASSUME TraceInv, NEW t \in DOMAIN stats.Hops
  PROVE  /\ HopMarkers(stats, t) \in Seq(ToSet(HopMarkers(stats, t)))
         /\ Len(HopMarkers(stats, t)) = Len(KeysPlaced(t))
         /\ \A i \in 1..Len(KeysPlaced(t)) : MarkerFits(t, KeysPlaced(t)[i], HopMarkers(stats, t)[i])
<1> DEFINE peersAt == stats.Hops[t].Peers
           D == DOMAIN peersAt
           o == stats.Hops[t].PeerOrder
           P == {k \in D : Answers(t, k) # {}}
           peers == [i \in DOMAIN o |-> peersAt[o[i]]]
           S == {p \in ToSet(peers) : p.ReceivedCount # 0 /\ PlacesOf(p) # <<>>}
           placed == Only(peers, S)
           ks == KeysPlaced(t)
           ms == HopMarkers(stats, t)
           markerOf(p) == [ttl |-> t, peer |-> p.Peer, rtt |-> AvgRTT(p),
                           place |-> PlacesOf(p)[1].ExactLocation]
<1>1. o \in Seq(D) /\ ToSet(o) = D
  BY OrderPermutes
<1>2. ms = [i \in DOMAIN placed |-> markerOf(placed[i])]
  BY Zenon DEF HopMarkers
<1>3. \A k \in D : k \in P <=> peersAt[k] \in S
  <2> SUFFICES ASSUME NEW k \in D
               PROVE  k \in P <=> peersAt[k] \in S
    OBVIOUS
  <2>1. peersAt[k] \in ToSet(peers)
    <3>1. PICK i \in DOMAIN o : o[i] = k
      BY <1>1 DEF ToSet
    <3>2. i \in DOMAIN peers /\ peers[i] = peersAt[k]
      BY <3>1
    <3> QED
      BY <3>2 DEF ToSet
  <2>2. k \in P <=> Answers(t, k) # {}
    OBVIOUS
  <2>3. Answers(t, k) # {} <=> (peersAt[k].ReceivedCount # 0 /\ PlacesOf(peersAt[k]) # <<>>)
    BY PlacedHasAnswered
  <2> HIDE DEF P, peers, peersAt
  <2> QED
    BY <2>1, <2>2, <2>3
<1>4. placed = Mapped(peersAt, ks)
  <2>1. peers = Mapped(peersAt, o)
    BY DEF Mapped
  <2>2. ks = Only(o, P)
    BY Zenon DEF KeysPlaced
  <2> HIDE DEF S, P, D, o, peers, peersAt
  <2>3. \A w \in Seq(D) : Mapped(peersAt, Only(w, P)) = Only(Mapped(peersAt, w), S)
    BY <1>3, OnlyMapped
  <2> QED
    BY <1>1, <2>1, <2>2, <2>3, Zenon
<1>5. /\ ks \in Seq(D) /\ ToSet(ks) = P
  BY KeysPlacedAre
<1> HIDE DEF placed, ks
<1>6. /\ DOMAIN ks = 1..Len(ks) /\ Len(ks) \in Nat
      /\ \A i \in 1..Len(ks) : ks[i] \in D /\ ks[i] \in P
  <2> HIDE DEF D, P
  <2> QED
    BY <1>5 DEF ToSet
<1>7. DOMAIN placed = 1..Len(ks) /\ \A i \in 1..Len(ks) : placed[i] = peersAt[ks[i]]
  <2> HIDE DEF peersAt
  <2> QED
    BY <1>4, <1>6 DEF Mapped
<1>8. /\ DOMAIN ms = 1..Len(ks)
      /\ \A i \in 1..Len(ks) : ms[i] = markerOf(peersAt[ks[i]])
  <2> HIDE DEF peersAt, ms, markerOf
  <2> QED
    BY <1>2, <1>7
<1>9. \A i \in 1..Len(ks) : MarkerFits(t, ks[i], ms[i])
  <2> SUFFICES ASSUME NEW i \in 1..Len(ks)
               PROVE  MarkerFits(t, ks[i], ms[i])
    OBVIOUS
  <2> DEFINE k == ks[i]
             p == peersAt[k]
  <2>1. k \in D /\ k \in P
    BY <1>6
  <2>2. Or(p.Peer, Star, NoPeer) = k
    BY <2>1, KeyOfPeer
  <2>3. PlaceFits(t, k, PlacesOf(p)[1].ExactLocation)
    BY <2>1, PlacedHasAnswered
  <2>4. ms[i] = markerOf(p)
    BY <1>8, Zenon
  <2> HIDE DEF p, k, ms
  <2>5. ms[i].ttl = t /\ ms[i].peer = p.Peer /\ ms[i].place = PlacesOf(p)[1].ExactLocation
    BY <2>4
  <2>6. MarkerFits(t, k, ms[i])
    BY <2>2, <2>3, <2>5 DEF MarkerFits
  <2> QED
    BY <2>6 DEF k
<1> HIDE DEF ms
<1>10. ms \in Seq(ToSet(ms)) /\ Len(ms) = Len(ks)
  <2>1. \A i \in 1..Len(ks) : ms[i] \in ToSet(ms)
    BY <1>8 DEF ToSet
  <2>2. ms = [i \in 1..Len(ks) |-> ms[i]]
    BY <1>2, <1>8 DEF ms
  <2> DEFINE W == [i \in 1..Len(ks) |-> ms[i]]
  <2>3. W \in Seq(ToSet(ms)) /\ Len(W) = Len(ks)
    BY <1>6, <2>1
  <2> QED
    BY <2>2, <2>3, Zenon
<1> QED
  BY <1>9, <1>10, Zenon DEF ms, ks

\* The markers of each hop, and all markers of the map.
MarkersOfHops == [t \in DOMAIN stats.Hops |-> HopMarkers(stats, t)]

MarkersShown == UNION {ToSet(HopMarkers(stats, t)) : t \in DOMAIN stats.Hops}

KeysOfHops == [t \in DOMAIN stats.Hops |-> KeysPlaced(t)]

ByTTL == {w \in MarkersShown \X MarkersShown : w[1].ttl <= w[2].ttl}

MarkerOfKey(m) ==
  \E t \in DOMAIN stats.Hops : \E k \in ToSet(KeysPlaced(t)) : MarkerFits(t, k, m)

\* What is shown is a marker of a key, and each key that is placed has one.
LEMMA MarkersShownAre ==
  ASSUME TraceInv
  PROVE  /\ \A m \in MarkersShown : MarkerOfKey(m)
         /\ \A t \in DOMAIN stats.Hops : \A m \in ToSet(HopMarkers(stats, t)) :
              m \in MarkersShown /\ m.ttl = t
         /\ \A t \in DOMAIN stats.Hops : \A k \in ToSet(KeysPlaced(t)) :
              \E m \in MarkersShown : MarkerFits(t, k, m)
<1>1. ASSUME NEW t \in DOMAIN stats.Hops
      PROVE  /\ \A m \in ToSet(HopMarkers(stats, t)) :
                  \E k \in ToSet(KeysPlaced(t)) : MarkerFits(t, k, m)
             /\ \A k \in ToSet(KeysPlaced(t)) :
                  \E m \in ToSet(HopMarkers(stats, t)) : MarkerFits(t, k, m)
  <2> DEFINE ms == HopMarkers(stats, t)
             ks == KeysPlaced(t)
             D == DOMAIN stats.Hops[t].Peers
  <2>1. /\ ms \in Seq(ToSet(ms)) /\ Len(ms) = Len(ks)
        /\ \A i \in 1..Len(ks) : MarkerFits(t, ks[i], ms[i])
    BY MarkersOfHop
  <2>2. ks \in Seq(D)
    BY KeysPlacedAre
  <2> HIDE DEF ms, ks, D
  <2>3. DOMAIN ms = 1..Len(ks) /\ DOMAIN ks = 1..Len(ks)
    BY <2>1, <2>2
  <2>4. /\ \A m \in ToSet(ms) : \E i \in 1..Len(ks) : m = ms[i]
        /\ \A i \in 1..Len(ks) : ms[i] \in ToSet(ms) /\ ks[i] \in ToSet(ks)
        /\ \A k \in ToSet(ks) : \E i \in 1..Len(ks) : k = ks[i]
    BY <2>3 DEF ToSet
  <2>5. /\ \A m \in ToSet(ms) : \E k \in ToSet(ks) : MarkerFits(t, k, m)
        /\ \A k \in ToSet(ks) : \E m \in ToSet(ms) : MarkerFits(t, k, m)
    BY <2>1, <2>4, Zenon
  <2> QED
    BY <2>5 DEF ms, ks
<1>2. \A t \in DOMAIN stats.Hops : ToSet(HopMarkers(stats, t)) \subseteq MarkersShown
  BY DEF MarkersShown
<1>3. \A m \in MarkersShown : MarkerOfKey(m)
  <2> SUFFICES ASSUME NEW m \in MarkersShown
               PROVE  MarkerOfKey(m)
    OBVIOUS
  <2>1. PICK t \in DOMAIN stats.Hops : m \in ToSet(HopMarkers(stats, t))
    BY DEF MarkersShown
  <2> QED
    BY <1>1, <2>1 DEF MarkerOfKey
<1>4. \A t \in DOMAIN stats.Hops : \A m \in ToSet(HopMarkers(stats, t)) :
        m \in MarkersShown /\ m.ttl = t
  <2> SUFFICES ASSUME NEW t \in DOMAIN stats.Hops, NEW m \in ToSet(HopMarkers(stats, t))
               PROVE  m \in MarkersShown /\ m.ttl = t
    OBVIOUS
  <2>1. PICK k \in ToSet(KeysPlaced(t)) : MarkerFits(t, k, m)
    BY <1>1
  <2> QED
    BY <1>2, <2>1 DEF MarkerFits
<1>5. \A t \in DOMAIN stats.Hops : \A k \in ToSet(KeysPlaced(t)) :
        \E m \in MarkersShown : MarkerFits(t, k, m)
  <2> SUFFICES ASSUME NEW t \in DOMAIN stats.Hops, NEW k \in ToSet(KeysPlaced(t))
               PROVE  \E m \in MarkersShown : MarkerFits(t, k, m)
    OBVIOUS
  <2>1. PICK m \in ToSet(HopMarkers(stats, t)) : MarkerFits(t, k, m)
    BY <1>1
  <2> QED
    BY <1>2, <2>1
<1> QED
  BY <1>3, <1>4, <1>5, Zenon

\* The map puts the markers of the hops one behind the other.
LEMMA MapIsFlat ==
  ASSUME TraceInv
  PROVE  /\ MarkersOfHops \in ListsOf(DOMAIN stats.Hops, MarkersShown)
         /\ MapMarkers(stats) = FlattenSeq(Mapped(MarkersOfHops, stats.HopOrder))
         /\ MapMarkers(stats) \in Seq(MarkersShown)
         /\ ToSet(MapMarkers(stats)) = MarkersShown
         /\ Ordered(MapMarkers(stats), ByTTL)
<1> DEFINE Y == DOMAIN stats.Hops
           o == stats.HopOrder
           g == MarkersOfHops
<1>1. /\ Y \subseteq Nat \ {0} /\ o \in Seq(Y) /\ Ordered(o, Before) /\ ToSet(o) = Y
  BY TableIsFlat
<1>2. \A t \in Y : g[t] = HopMarkers(stats, t)
  BY DEF MarkersOfHops
<1>3. \A t \in Y : g[t] \in Seq(MarkersShown)
  <2> SUFFICES ASSUME NEW t \in Y
               PROVE  g[t] \in Seq(MarkersShown)
    OBVIOUS
  <2>1. g[t] \in Seq(ToSet(g[t]))
    BY <1>2, MarkersOfHop
  <2>2. ToSet(g[t]) \subseteq MarkersShown
    BY <1>2 DEF MarkersShown
  <2> HIDE DEF g
  <2> QED
    BY <2>1, <2>2
<1>4. g \in ListsOf(Y, MarkersShown)
  <2>1. g = [t \in Y |-> g[t]]
    BY DEF MarkersOfHops
  <2> HIDE DEF g, Y
  <2> QED
    BY <1>3, <2>1 DEF ListsOf
<1>5. MapMarkers(stats) = FlattenSeq(Mapped(g, o))
  <2> DEFINE L(i) == IF o[i] \in Y THEN HopMarkers(stats, o[i]) ELSE <<>>
  <2>1. MapMarkers(stats) = FlattenSeq([i \in DOMAIN o |-> L(i)])
    BY Zenon DEF MapMarkers
  <2>2. \A i \in DOMAIN o : o[i] \in Y
    BY <1>1
  <2>3. \A i \in DOMAIN o : L(i) = g[o[i]]
    BY <1>2, <2>2
  <2>4. [i \in DOMAIN o |-> L(i)] = [i \in DOMAIN o |-> g[o[i]]]
    <3> HIDE DEF L, o, g
    <3> QED
      BY <2>3
  <2> QED
    BY <2>1, <2>4, Zenon DEF Mapped
<1>6. \A t \in Y : \A m \in ToSet(g[t]) : m \in MarkersShown /\ m.ttl = t
  BY <1>2, MarkersShownAre
<1>7. \A t, u \in Y : t < u => \A x \in ToSet(g[t]), y \in ToSet(g[u]) : <<x, y>> \in ByTTL
  <2> SUFFICES ASSUME NEW t \in Y, NEW u \in Y, t < u, NEW x \in ToSet(g[t]), NEW y \in ToSet(g[u])
               PROVE  <<x, y>> \in ByTTL
    OBVIOUS
  <2>1. x \in MarkersShown /\ y \in MarkersShown /\ x.ttl = t /\ y.ttl = u
    BY <1>6
  <2>2. t \in Nat /\ u \in Nat
    BY <1>1
  <2> HIDE DEF g, Y
  <2> QED
    BY <2>1, <2>2 DEF ByTTL
<1>8. \A t \in Y : Ordered(g[t], ByTTL)
  <2> SUFFICES ASSUME NEW t \in Y, NEW i \in DOMAIN g[t], NEW j \in DOMAIN g[t]
               PROVE  <<g[t][i], g[t][j]>> \in ByTTL
    BY DEF Ordered
  <2> DEFINE x == g[t][i]
             y == g[t][j]
  <2>1. x \in ToSet(g[t]) /\ y \in ToSet(g[t])
    BY DEF ToSet
  <2>2. x \in MarkersShown /\ y \in MarkersShown /\ x.ttl = t /\ y.ttl = t
    BY <1>6, <2>1
  <2>3. t \in Nat
    BY <1>1
  <2>4. x.ttl <= y.ttl
    BY <2>2, <2>3
  <2> HIDE DEF x, y
  <2>5. <<x, y>> \in ByTTL
    BY <2>2, <2>4 DEF ByTTL
  <2> QED
    BY <2>5 DEF x, y
<1>9. UNION {ToSet(g[t]) : t \in Y} = MarkersShown
  BY <1>2 DEF MarkersShown
<1> HIDE DEF g, Y, o
<1>10. \A w \in Seq(Y) :
         /\ FlattenSeq(Mapped(g, w)) \in Seq(MarkersShown)
         /\ ToSet(FlattenSeq(Mapped(g, w))) = UNION {ToSet(g[t]) : t \in ToSet(w)}
         /\ Ordered(w, Before) => Ordered(FlattenSeq(Mapped(g, w)), ByTTL)
  <2>1. Y \subseteq Nat
    BY <1>1
  <2> QED
    BY <1>4, <1>7, <1>8, <2>1, FlattenOrdered
<1>11. /\ MapMarkers(stats) \in Seq(MarkersShown) /\ ToSet(MapMarkers(stats)) = MarkersShown
       /\ Ordered(MapMarkers(stats), ByTTL)
  BY <1>1, <1>5, <1>9, <1>10, Zenon
<1> QED
  BY <1>4, <1>5, <1>11 DEF g, Y, o

\* The hops and peers that have answered from a known place.
PlacedPairs ==
  {p \in (DOMAIN stats.Hops) \X {PeerKey(arrived[i]) : i \in DOMAIN arrived} :
     Answers(p[1], p[2]) # {}}

\* The hops and peers that have answered from a known place, by hop.
LEMMA PlacedAreThose ==
  ASSUME TraceInv
  PROVE  PlacedPairs = PairsOf(DOMAIN stats.Hops, KeysOfHops)
<1> DEFINE Y == DOMAIN stats.Hops
           Names == {PeerKey(arrived[i]) : i \in DOMAIN arrived}
           D(t) == DOMAIN stats.Hops[t].Peers
<1>1. ASSUME NEW t \in Y, NEW k
      PROVE  k \in ToSet(KeysPlaced(t)) <=> k \in Names /\ Answers(t, k) # {}
  <2>1. ToSet(KeysPlaced(t)) = {x \in D(t) : Answers(t, x) # {}}
    BY KeysPlacedAre
  <2>2. D(t) = {PeerKey(arrived[i]) : i \in Counted(t)}
    BY HopIsThat
  <2>3. Counted(t) \subseteq DOMAIN arrived
    BY DEF Counted
  <2>4. Answers(t, k) # {} => k \in D(t)
    BY <2>2 DEF Answers, CountedFor
  <2>5. D(t) \subseteq Names
    BY <2>2, <2>3
  <2> HIDE DEF D, Names
  <2> QED
    BY <2>1, <2>4, <2>5
<1>2. \A t \in Y : KeysOfHops[t] = KeysPlaced(t)
  BY DEF KeysOfHops
<1>3. PlacedPairs \subseteq PairsOf(Y, KeysOfHops)
  <2> SUFFICES ASSUME NEW p \in PlacedPairs
               PROVE  p \in PairsOf(Y, KeysOfHops)
    OBVIOUS
  <2>1. PICK t \in Y, k \in Names : p = <<t, k>> /\ Answers(t, k) # {}
    BY DEF PlacedPairs
  <2>2. k \in ToSet(KeysOfHops[t])
    BY <1>1, <1>2, <2>1
  <2> HIDE DEF Y
  <2> QED
    BY <2>1, <2>2 DEF PairsOf
<1>4. PairsOf(Y, KeysOfHops) \subseteq PlacedPairs
  <2> SUFFICES ASSUME NEW p \in PairsOf(Y, KeysOfHops)
               PROVE  p \in PlacedPairs
    OBVIOUS
  <2>1. PICK t \in Y : \E k \in ToSet(KeysOfHops[t]) : p = <<t, k>>
    BY DEF PairsOf
  <2>2. PICK k \in ToSet(KeysPlaced(t)) : p = <<t, k>>
    BY <1>2, <2>1
  <2>3. k \in Names /\ Answers(t, k) # {}
    BY <1>1, <2>2
  <2> HIDE DEF Names
  <2> QED
    BY <2>2, <2>3 DEF PlacedPairs, Names
<1> QED
  BY <1>3, <1>4

\* The map has a marker for each hop and peer that is placed.
LEMMA MarkersAreThose ==
  ASSUME TraceInv
  PROVE  /\ Len(MapMarkers(stats)) = Cardinality(PlacedPairs)
         /\ {<<m.ttl, Or(m.peer, Star, NoPeer)>> : m \in MarkersShown} = PlacedPairs
<1> DEFINE Y == DOMAIN stats.Hops
           g == MarkersOfHops
           h == KeysOfHops
           o == stats.HopOrder
           K == UNION {DOMAIN stats.Hops[t].Peers : t \in Y}
           of(m) == <<m.ttl, Or(m.peer, Star, NoPeer)>>
<1>1. /\ Y \subseteq Nat \ {0} /\ o \in Seq(Y) /\ Ordered(o, Before) /\ ToSet(o) = Y
  BY TableIsFlat
<1>2. g \in ListsOf(Y, MarkersShown) /\ MapMarkers(stats) = FlattenSeq(Mapped(g, o))
  BY MapIsFlat
<1>3. \A t \in Y : g[t] = HopMarkers(stats, t) /\ h[t] = KeysPlaced(t)
  BY DEF MarkersOfHops, KeysOfHops
<1>4. h \in ListsOf(Y, K)
  <2>1. \A t \in Y : KeysPlaced(t) \in Seq(K)
    <3> SUFFICES ASSUME NEW t \in Y
                 PROVE  KeysPlaced(t) \in Seq(K)
      OBVIOUS
    <3>1. KeysPlaced(t) \in Seq(DOMAIN stats.Hops[t].Peers)
      BY KeysPlacedAre
    <3>2. DOMAIN stats.Hops[t].Peers \subseteq K
      OBVIOUS
    <3> HIDE DEF K
    <3> QED
      BY <3>1, <3>2
  <2> QED
    BY <2>1 DEF ListsOf, KeysOfHops
<1>5. \A t \in Y : Len(g[t]) = Len(h[t])
  BY <1>3, MarkersOfHop
<1>6. \A t \in Y : \A i, j \in 1..Len(h[t]) : h[t][i] = h[t][j] => i = j
  BY <1>3, KeysPlacedAre
<1>7. Y \subseteq Nat
  BY <1>1
<1> HIDE DEF Y, g, h, o, K
<1>8. KeyedBy(Y, MarkersShown, K, g, h)
  BY <1>2, <1>4, <1>5, <1>6, <1>7, Zenon DEF KeyedBy
<1>9. o \in InOrder(Y)
  BY <1>1, Zenon DEF InOrder
<1>10. Len(FlattenSeq(Mapped(g, o))) = Cardinality(PairsOf(Y, h))
  BY <1>8, <1>9, FlattenPairs
<1>11. PlacedPairs = PairsOf(Y, h)
  BY PlacedAreThose DEF Y, h
<1>12. \A m \in MarkersShown : of(m) \in PairsOf(Y, h)
  <2> SUFFICES ASSUME NEW m \in MarkersShown
               PROVE  of(m) \in PairsOf(Y, h)
    OBVIOUS
  <2>1. MarkerOfKey(m)
    BY MarkersShownAre
  <2>2. PICK t \in Y : \E k \in ToSet(h[t]) : MarkerFits(t, k, m)
    BY <1>3, <2>1 DEF MarkerOfKey, Y
  <2>3. PICK k \in ToSet(h[t]) : MarkerFits(t, k, m)
    BY <2>2
  <2>4. of(m) = <<t, k>>
    BY <2>3 DEF MarkerFits
  <2> HIDE DEF of
  <2> QED
    BY <2>3, <2>4 DEF PairsOf
<1>13. \A p \in PairsOf(Y, h) : \E m \in MarkersShown : of(m) = p
  <2> SUFFICES ASSUME NEW p \in PairsOf(Y, h)
               PROVE  \E m \in MarkersShown : of(m) = p
    OBVIOUS
  <2>1. PICK t \in Y : \E k \in ToSet(h[t]) : p = <<t, k>>
    BY DEF PairsOf
  <2>2. PICK k \in ToSet(h[t]) : p = <<t, k>>
    BY <2>1
  <2>3. PICK m \in MarkersShown : MarkerFits(t, k, m)
    BY <1>3, <2>2, MarkersShownAre DEF Y
  <2> QED
    BY <2>2, <2>3 DEF MarkerFits
<1>14. {of(m) : m \in MarkersShown} = PairsOf(Y, h)
  <2> HIDE DEF of
  <2> QED
    BY <1>12, <1>13
<1> QED
  BY <1>2, <1>10, <1>11, <1>14, Zenon

\* The path has a leg for each marker, from the place of the one before it.
LEMMA PathJoins ==
  ASSUME NEW M, NEW ms \in Seq(M), NEW src
  PROVE  LET path == MapPaths(<<src>>, ms)
         IN /\ Len(path) = Len(ms)
            /\ \A i \in DOMAIN path : path[i][1] = IF i = 1 THEN src ELSE ms[i - 1].place
<1> DEFINE n == Len(ms)
           X == {src} \cup {m.place : m \in M}
           legs == [i \in DOMAIN ms |-> ms[i].place]
           stops == <<src>> \o legs
           path == MapPaths(<<src>>, ms)
<1>1. n \in Nat /\ DOMAIN ms = 1..n /\ \A i \in 1..n : ms[i] \in M
  OBVIOUS
<1>2. legs = [i \in 1..n |-> ms[i].place] /\ \A i \in 1..n : legs[i] = ms[i].place
  BY <1>1
<1>3. \A i \in 1..n : ms[i].place \in X
  BY <1>1
<1>4. legs \in Seq(X) /\ Len(legs) = n
  <2> HIDE DEF X
  <2> QED
    BY <1>1, <1>2, <1>3
<1>5. <<src>> \in Seq(X) /\ Len(<<src>>) = 1 /\ <<src>>[1] = src
  OBVIOUS
<1> HIDE DEF X, legs
<1>6. /\ stops \in Seq(X) /\ Len(stops) = 1 + n /\ stops[1] = src
      /\ \A m \in 1..n : stops[1 + m] = legs[m]
  <2> DEFINE a == <<src>>
  <2>1. a \in Seq(X) /\ Len(a) = 1 /\ a[1] = src
    BY <1>5
  <2> HIDE DEF a
  <2>2. /\ a \o legs \in Seq(X) /\ Len(a \o legs) = Len(a) + Len(legs)
        /\ \A m \in 1..Len(a) : (a \o legs)[m] = a[m]
        /\ \A m \in 1..Len(legs) : (a \o legs)[Len(a) + m] = legs[m]
    <3>1. legs \in Seq(X)
      BY <1>4
    <3>2. a \in Seq(X)
      BY <2>1
    <3>3. Len(a \o legs) = Len(a) + Len(legs) /\ a \o legs \in Seq(X)
      BY <3>1, <3>2
    <3>4. \A m \in 1..Len(a) : (a \o legs)[m] = a[m]
      BY <3>1, <3>2, CatAt
    <3>5. \A m \in 1..Len(legs) : (a \o legs)[Len(a) + m] = legs[m]
      BY <3>1, <3>2, CatAt
    <3> QED
      BY <3>3, <3>4, <3>5, Zenon
  <2>3. /\ a \o legs \in Seq(X) /\ Len(a \o legs) = 1 + n
        /\ (a \o legs)[1] = src
        /\ \A m \in 1..n : (a \o legs)[1 + m] = legs[m]
    BY <1>4, <2>1, <2>2
  <2> QED
    BY <2>3 DEF a
<1>7. path = IF ms = <<>> THEN <<>>
             ELSE [i \in 1..(Len(stops) - 1) |-> <<stops[i], stops[i + 1]>>]
  BY Zenon DEF MapPaths, legs
<1> HIDE DEF path, stops
<1>8. CASE ms = <<>>
  <2>1. path = <<>>
    BY <1>7, <1>8
  <2> QED
    BY <1>8, <2>1 DEF path
<1>9. CASE ms # <<>>
  <2>1. Len(stops) - 1 = n
    BY <1>1, <1>6
  <2>2. path = [i \in 1..n |-> <<stops[i], stops[i + 1]>>]
    BY <1>7, <1>9, <2>1, Zenon
  <2>3. DOMAIN path = 1..n /\ \A i \in 1..n : path[i][1] = stops[i]
    BY <2>2
  <2>4. Len(path) = n
    <3>1. path \in [1..n -> X \X X]
      <4>1. \A i \in 1..n : stops[i] \in X /\ stops[i + 1] \in X
        BY <1>1, <1>6
      <4> QED
        BY <2>2, <4>1
    <3> QED
      BY <1>1, <3>1
  <2>5. \A i \in 1..n : i # 1 => stops[i] = ms[i - 1].place
    <3> SUFFICES ASSUME NEW i \in 1..n, i # 1
                 PROVE  stops[i] = ms[i - 1].place
      OBVIOUS
    <3>1. i - 1 \in 1..n /\ 1 + (i - 1) = i
      BY <1>1
    <3>2. stops[1 + (i - 1)] = legs[i - 1]
      BY <1>6, <3>1
    <3> QED
      BY <1>2, <3>1, <3>2
  <2> QED
    BY <1>6, <2>3, <2>4, <2>5 DEF path
<1> QED
  BY <1>8, <1>9

\* The map has a marker for every placed peer, and its path goes through them.
LEMMA MapFollows == TraceInv => MapFollowsRoute
<1> SUFFICES ASSUME TraceInv
             PROVE  MapFollowsRoute
  OBVIOUS
<1> DEFINE markers == MapMarkers(stats)
           path == MapPaths(<<"src">>, markers)
           key(m) == Or(m.peer, Star, NoPeer)
<1>1. /\ markers \in Seq(MarkersShown) /\ ToSet(markers) = MarkersShown /\ Ordered(markers, ByTTL)
  BY MapIsFlat
<1>2. /\ Len(markers) = Cardinality(PlacedPairs)
      /\ {<<m.ttl, key(m)>> : m \in MarkersShown} = PlacedPairs
  BY MarkersAreThose
<1>3. {<<m.ttl, key(m)>> : m \in ToSet(markers)} = PlacedPairs
  BY <1>1, <1>2, Zenon
<1> HIDE DEF markers
<1>4. /\ Len(path) = Len(markers)
      /\ \A i \in DOMAIN path : path[i][1] = IF i = 1 THEN "src" ELSE markers[i - 1].place
  BY <1>1, PathJoins
<1>5. \A m \in MarkersShown : PlaceFits(m.ttl, key(m), m.place)
  <2> SUFFICES ASSUME NEW m \in MarkersShown
               PROVE  PlaceFits(m.ttl, key(m), m.place)
    OBVIOUS
  <2>1. MarkerOfKey(m)
    BY MarkersShownAre
  <2> QED
    BY <2>1 DEF MarkerOfKey, MarkerFits
<1>6. ASSUME NEW i \in DOMAIN markers
      PROVE  /\ \E j \in Answers(markers[i].ttl, key(markers[i])) :
                  /\ arrived[j].ExactLocation = markers[i].place
                  /\ \A o \in Answers(markers[i].ttl, key(markers[i])) :
                       arrived[j].Seq <= arrived[o].Seq
             /\ i > 1 => markers[i - 1].ttl <= markers[i].ttl
  <2>1. markers[i] \in MarkersShown
    BY <1>1
  <2>2. PlaceFits(markers[i].ttl, key(markers[i]), markers[i].place)
    BY <1>5, <2>1
  <2>3. ASSUME i > 1
        PROVE  markers[i - 1].ttl <= markers[i].ttl
    <3>1. i - 1 \in DOMAIN markers /\ i - 1 < i
      BY <1>1, <2>3
    <3>2. <<markers[i - 1], markers[i]>> \in ByTTL
      BY <1>1, <3>1 DEF Ordered
    <3> QED
      BY <3>2 DEF ByTTL
  <2> QED
    BY <2>2, <2>3, Zenon DEF PlaceFits
<1>7. MapFollowsRoute
  BY <1>2, <1>3, <1>4, <1>6, Zenon DEF MapFollowsRoute, PlacedPairs, markers
<1> QED
  BY <1>7

\* The table and the map on the screen are those of the events of the run,
\* however many there are and in whatever order they arrive.
THEOREM TableAlwaysOfEvents == TraceSpec => []TableIsThatOfEvents
<1>1. TraceInv => TableIsThatOfEvents
  BY StatsAgree, TableComplete, MapFollows DEF TableIsThatOfEvents
<1> QED
  BY <1>1, TraceInvInit, TraceInvStep, PTL DEF TraceSpec

----------------------------------------------------------------------------
(* Functions computed step by step, and powers of two.                     *)

\* The functions that compute from c, step by step, what S says, up to n.
Runs(V, c, S, n) ==
  {f \in [0..n -> V] : f[0] = c /\ \A i \in 1..n : f[i] = S[<<f[i - 1], i>>]}

\* g is one as long as its values are in V.
Follows(g, V, c, S, m) ==
  g[0] = c /\ \A i \in 1..m : g[i - 1] \in V => g[i] = S[<<g[i - 1], i>>]

\* There is one up to every number.
LEMMA RunExists ==
  ASSUME NEW V, NEW c \in V, NEW S \in [V \X Nat -> V]
  PROVE  \A n \in Nat : \E f : f \in Runs(V, c, S, n)
<1> DEFINE T == {n \in Nat : \E f : f \in Runs(V, c, S, n)}
<1>1. 0 \in T
  <2>1. [i \in 0..0 |-> c] \in Runs(V, c, S, 0)
    BY DEF Runs
  <2> QED
    BY <2>1
<1>2. ASSUME NEW n \in Nat, n \in T
      PROVE  n + 1 \in T
  <2>1. PICK f : f \in Runs(V, c, S, n)
    BY <1>2
  <2>2. f \in [0..n -> V] /\ f[0] = c /\ \A i \in 1..n : f[i] = S[<<f[i - 1], i>>]
    BY <2>1 DEF Runs
  <2> DEFINE x == S[<<f[n], n + 1>>]
             g == [i \in 0..(n + 1) |-> IF i = n + 1 THEN x ELSE f[i]]
  <2>3. f[n] \in V /\ <<f[n], n + 1>> \in V \X Nat
    BY <2>2
  <2>4. x \in V
    BY <2>3
  <2> HIDE DEF x
  <2>5. g \in [0..(n + 1) -> V] /\ g[0] = c
    BY <2>2, <2>4
  <2>6. ASSUME NEW i \in 1..(n + 1)
        PROVE  g[i] = S[<<g[i - 1], i>>]
    <3>1. CASE i = n + 1
      <4>1. g[i] = x /\ g[i - 1] = f[n]
        BY <3>1
      <4> QED
        BY <3>1, <4>1 DEF x
    <3>2. CASE i # n + 1
      <4>1. i \in 1..n /\ g[i] = f[i] /\ g[i - 1] = f[i - 1]
        BY <3>2
      <4> QED
        BY <2>2, <4>1
    <3> QED
      BY <3>1, <3>2
  <2>7. g \in Runs(V, c, S, n + 1)
    BY <2>5, <2>6 DEF Runs
  <2> QED
    BY <2>7
<1> HIDE DEF T
<1>3. \A n \in Nat : n \in T
  BY <1>1, <1>2, Induction
<1> QED
  BY <1>3 DEF T

Agree(f, g, m) == \A i \in 0..m : g[i] = f[i]

\* It is the only one.
LEMMA RunsAgree ==
  ASSUME NEW V, NEW c \in V, NEW S, NEW n \in Nat, NEW m \in 0..n,
         NEW f \in Runs(V, c, S, n),
         NEW g, Follows(g, V, c, S, m)
  PROVE  Agree(f, g, m)
<1> DEFINE T == {i \in Nat : i <= m => g[i] = f[i]}
<1>1. f \in [0..n -> V] /\ f[0] = c /\ \A i \in 1..n : f[i] = S[<<f[i - 1], i>>]
  BY DEF Runs
<1>0. g[0] = c /\ \A i \in 1..m : g[i - 1] \in V => g[i] = S[<<g[i - 1], i>>]
  BY DEF Follows
<1>2. 0 \in T
  BY <1>0, <1>1
<1>3. ASSUME NEW i \in Nat, i \in T
      PROVE  i + 1 \in T
  <2>1. SUFFICES ASSUME i + 1 <= m
                 PROVE  g[i + 1] = f[i + 1]
    OBVIOUS
  <2>2. g[i] = f[i] /\ i \in 0..n /\ i + 1 \in 1..m /\ i + 1 \in 1..n /\ (i + 1) - 1 = i
    BY <1>3, <2>1
  <2>3. f[i] \in V
    BY <1>1, <2>2
  <2>4. g[i + 1] = S[<<g[i], i + 1>>]
    BY <1>0, <2>2, <2>3
  <2>5. f[i + 1] = S[<<f[i], i + 1>>]
    BY <1>1, <2>2
  <2> QED
    BY <2>2, <2>4, <2>5
<1> HIDE DEF T
<1>4. \A i \in Nat : i \in T
  BY <1>2, <1>3, Induction
<1> QED
  BY <1>4 DEF T, Agree

PowerOf(n, f) == f = [i \in 0..n |-> IF i = 0 THEN 1 ELSE 2 * f[i - 1]]

Doubling == [w \in Nat \X Nat |-> 2 * w[1]]

\* Powers of two are the last of their partial products.
LEMMA ShiftedIsRun ==
  ASSUME NEW n \in Nat, NEW m \in 0..n, NEW f \in Runs(Nat, 1, Doubling, n)
  PROVE  Shifted(m) = f[m]
<1>1. Doubling \in [Nat \X Nat -> Nat] /\ \A a, b \in Nat : Doubling[<<a, b>>] = 2 * a
  BY DEF Doubling
<1>2. PICK h : h \in Runs(Nat, 1, Doubling, m)
  <2>1. m \in Nat
    OBVIOUS
  <2> QED
    BY <1>1, <2>1, RunExists
<1>3. PowerOf(m, h)
  <2>1. h \in [0..m -> Nat] /\ h[0] = 1 /\ \A i \in 1..m : h[i] = Doubling[<<h[i - 1], i>>]
    BY <1>2 DEF Runs
  <2>2. ASSUME NEW i \in 1..m
        PROVE  h[i] = 2 * h[i - 1]
    <3>1. h[i - 1] \in Nat /\ i \in Nat
      BY <2>1
    <3> QED
      BY <1>1, <2>1, <3>1
  <2>3. \A i \in 0..m : h[i] = IF i = 0 THEN 1 ELSE 2 * h[i - 1]
    BY <2>1, <2>2
  <2> QED
    BY <2>1, <2>3 DEF PowerOf
<1> DEFINE g == CHOOSE p : PowerOf(m, p)
<1>4. PowerOf(m, g)
  BY <1>3
<1>5. Shifted(m) = g[m]
  BY DEF Shifted, PowerOf
<1> HIDE DEF g
<1>6. g[0] = 1 /\ \A i \in 1..m : g[i] = 2 * g[i - 1]
  BY <1>4 DEF PowerOf
<1>7. Follows(g, Nat, 1, Doubling, m)
  BY <1>1, <1>6 DEF Follows
<1>8. Agree(f, g, m)
  <2>1. 1 \in Nat /\ n \in Nat /\ m \in 0..n /\ f \in Runs(Nat, 1, Doubling, n)
    OBVIOUS
  <2> QED
    BY <1>7, <2>1, RunsAgree, Zenon
<1> QED
  BY <1>5, <1>8 DEF Agree

\* Powers of two, step by step.
LEMMA ShiftedStep ==
  Shifted(0) = 1 /\ \A n \in Nat : Shifted(n) \in Nat /\ Shifted(n + 1) = 2 * Shifted(n)
<1>1. Doubling \in [Nat \X Nat -> Nat] /\ \A a, b \in Nat : Doubling[<<a, b>>] = 2 * a
  BY DEF Doubling
<1>2. ASSUME NEW n \in Nat
      PROVE  Shifted(0) = 1 /\ Shifted(n) \in Nat /\ Shifted(n + 1) = 2 * Shifted(n)
  <2>1. n + 1 \in Nat /\ 0 \in 0..(n + 1) /\ n \in 0..(n + 1) /\ n + 1 \in 0..(n + 1)
    OBVIOUS
  <2>2. PICK f : f \in Runs(Nat, 1, Doubling, n + 1)
    BY <1>1, <2>1, RunExists
  <2>3. Shifted(0) = f[0] /\ Shifted(n) = f[n] /\ Shifted(n + 1) = f[n + 1]
    BY <2>1, <2>2, ShiftedIsRun
  <2>4. /\ f \in [0..(n + 1) -> Nat] /\ f[0] = 1
        /\ \A i \in 1..(n + 1) : f[i] = Doubling[<<f[i - 1], i>>]
    BY <2>2 DEF Runs
  <2>5. f[n + 1] = Doubling[<<f[n], n + 1>>] /\ f[n] \in Nat
    BY <2>1, <2>4
  <2> QED
    BY <1>1, <2>1, <2>3, <2>4, <2>5
<1> QED
  BY <1>2

\* No power of two is zero.
LEMMA ShiftedPositive == \A n \in Nat : Shifted(n) \in Nat \ {0}
<1> DEFINE T == {n \in Nat : Shifted(n) \in Nat \ {0}}
<1>1. 0 \in T
  BY ShiftedStep
<1>2. ASSUME NEW n \in Nat, n \in T
      PROVE  n + 1 \in T
  BY <1>2, ShiftedStep
<1> HIDE DEF T
<1>3. \A n \in Nat : n \in T
  BY <1>1, <1>2, Induction
<1> QED
  BY <1>3 DEF T

\* The power of a sum is the product of the powers.
LEMMA ShiftedAdd == \A a, b \in Nat : Shifted(a + b) = Shifted(a) * Shifted(b)
<1> SUFFICES ASSUME NEW a \in Nat
             PROVE  \A b \in Nat : Shifted(a + b) = Shifted(a) * Shifted(b)
  OBVIOUS
<1> DEFINE T == {b \in Nat : Shifted(a + b) = Shifted(a) * Shifted(b)}
<1>0. \A n \in Nat : Shifted(n) \in Nat
  BY ShiftedStep
<1>1. 0 \in T
  <2>1. a + 0 = a /\ Shifted(0) = 1
    BY ShiftedStep
  <2> QED
    BY <1>0, <2>1
<1>2. ASSUME NEW b \in Nat, b \in T
      PROVE  b + 1 \in T
  <2>1. a + (b + 1) = (a + b) + 1 /\ a + b \in Nat
    OBVIOUS
  <2>2. Shifted((a + b) + 1) = 2 * Shifted(a + b) /\ Shifted(b + 1) = 2 * Shifted(b)
    BY <2>1, ShiftedStep
  <2>3. Shifted(a + b) = Shifted(a) * Shifted(b)
    BY <1>2
  <2>4. \A x, y, z, u \in Nat : z = x * y /\ u = 2 * z => u = x * (2 * y)
    OBVIOUS
  <2>5. Shifted(a + (b + 1)) = Shifted(a) * (2 * Shifted(b))
    <3>1. /\ Shifted(a) \in Nat /\ Shifted(b) \in Nat /\ Shifted(a + b) \in Nat
          /\ Shifted((a + b) + 1) \in Nat
      BY <1>0, <2>1
    <3> QED
      BY <2>1, <2>2, <2>3, <2>4, <3>1
  <2> QED
    BY <2>2, <2>5
<1> HIDE DEF T
<1>3. \A b \in Nat : b \in T
  BY <1>1, <1>2, Induction
<1> QED
  BY <1>3 DEF T

----------------------------------------------------------------------------
(* Addresses, bit by bit: quotients by powers of two are fields of a byte, and*)
(* getMaskedValue tells two addresses apart exactly if their bits differ.  *)

\* Quotients and remainders.
LEMMA Division ==
  ASSUME NEW x \in Nat, NEW d \in Nat \ {0}
  PROVE  x \div d \in Nat /\ x % d \in 0..(d - 1) /\ x = d * (x \div d) + (x % d)
OBVIOUS

\* A quotient and a remainder are the only ones.
LEMMA DivisionIsUnique ==
  ASSUME NEW d \in Nat \ {0}, NEW q \in Nat, NEW r \in 0..(d - 1)
  PROVE  (d * q + r) \div d = q /\ (d * q + r) % d = r
<1> DEFINE x == d * q + r
<1>1. x \in Nat
  OBVIOUS
<1>2. x \div d \in Nat /\ x % d \in 0..(d - 1) /\ x = d * (x \div d) + (x % d)
  BY <1>1, Division
<1> DEFINE a == x \div d
           b == x % d
<1>3. a \in Nat /\ b \in 0..(d - 1) /\ d * q + r = d * a + b
  BY <1>2
<1> HIDE DEF a, b
<1>4. a = q /\ b = r
  <2>1. ASSUME a < q
        PROVE  FALSE
    <3>1. d * (a + 1) <= d * q
      BY <1>3, <2>1
    <3>2. d * (a + 1) = d * a + d
      BY <1>3
    <3> QED
      BY <1>3, <3>1, <3>2
  <2>2. ASSUME q < a
        PROVE  FALSE
    <3>1. d * (q + 1) <= d * a
      BY <1>3, <2>2
    <3>2. d * (q + 1) = d * q + d
      BY <1>3
    <3> QED
      BY <1>3, <3>1, <3>2
  <2>3. a = q
    BY <1>3, <2>1, <2>2
  <2> QED
    BY <1>3, <2>3
<1> QED
  BY <1>4 DEF a, b

\* Dividing twice.
LEMMA HalfOfQuotient ==
  ASSUME NEW y \in Nat, NEW q \in Nat \ {0}
  PROVE  y \div (2 * q) = (y \div q) \div 2
<1> DEFINE u == y \div q
           r == y % q
           v == u \div 2
           w == u % 2
<1>1. u \in Nat /\ r \in 0..(q - 1) /\ y = q * u + r
  BY Division
<1> HIDE DEF u, r
<1>2. v \in Nat /\ w \in 0..1 /\ u = 2 * v + w
  BY <1>1
<1> HIDE DEF v, w
<1>3. y = (2 * q) * v + (q * w + r)
  <2>1. q * u = (2 * q) * v + q * w
    BY <1>1, <1>2
  <2> QED
    BY <1>1, <1>2, <2>1
<1>4. q * w + r \in 0..(2 * q - 1)
  <2>1. w = 0 \/ w = 1
    BY <1>2
  <2> QED
    BY <1>1, <2>1
<1>5. 2 * q \in Nat \ {0}
  OBVIOUS
<1> DEFINE z == q * w + r
           d == 2 * q
<1> HIDE DEF z, d
<1>6. (d * v + z) \div d = v
  BY <1>2, <1>4, <1>5, DivisionIsUnique DEF z, d
<1>7. y \div d = v
  BY <1>3, <1>6 DEF z, d
<1> QED
  BY <1>7 DEF d, v, u

\* Bits s to s + t - 1 of a byte, the first one being the highest, and bit p.
Field(x, s, t) == (x % Shifted(ByteBits - s)) \div Shifted(ByteBits - s - t)

Bit(x, p) == (x \div Shifted(ByteBits - 1 - p)) % 2

\* A field with one more bit.
LEMMA FieldGrows ==
  ASSUME NEW x \in Nat, NEW s \in Nat, NEW t \in Nat, s + t < ByteBits
  PROVE  /\ Field(x, s, t) \in Nat
         /\ Field(x, s, t + 1) = 2 * Field(x, s, t) + Bit(x, s + t)
         /\ Bit(x, s + t) \in 0..1
<1> DEFINE k == ByteBits - s - t - 1
           q == Shifted(k)
           p == Shifted(ByteBits - s)
           h == Shifted(t)
<1>0. ByteBits \in Nat
  BY AddressesHaveBytes
<1>1. k \in Nat /\ k + 1 = ByteBits - s - t /\ t + (k + 1) = ByteBits - s
  BY <1>0
<1>2. /\ ByteBits - s - (t + 1) = k /\ ByteBits - 1 - (s + t) = k
      /\ k + 1 \in Nat /\ ByteBits - s \in Nat
  BY <1>0
<1> HIDE DEF k
<1>3. q \in Nat \ {0} /\ h \in Nat \ {0} /\ p \in Nat \ {0}
  BY <1>1, <1>2, ShiftedPositive
<1>4. Shifted(k + 1) = 2 * q
  BY <1>1, ShiftedStep
<1>5. p = h * (2 * q)
  <2>1. Shifted(t + (k + 1)) = Shifted(t) * Shifted(k + 1)
    BY <1>2, ShiftedAdd
  <2> QED
    BY <1>1, <1>4, <2>1
<1> DEFINE y == x % p
           m == x \div p
           u == y \div q
           r == y % q
<1>6. Field(x, s, t) = y \div (2 * q) /\ Field(x, s, t + 1) = u /\ Bit(x, s + t) = (x \div q) % 2
  BY <1>1, <1>2, <1>4 DEF Field, Bit
<1> HIDE DEF q, h, p
<1>7. m \in Nat /\ y \in Nat /\ x = p * m + y
  BY <1>3, Division
<1> HIDE DEF m, y
<1>8. u \in Nat /\ r \in 0..(q - 1) /\ y = q * u + r
  BY <1>3, <1>7, Division
<1>9. y \div (2 * q) = u \div 2
  BY <1>3, <1>7, HalfOfQuotient
<1> HIDE DEF u, r
<1> DEFINE n == 2 * (h * m) + u
<1>10. x = q * n + r
  <2>1. p * m = q * (2 * (h * m))
    BY <1>3, <1>5, <1>7
  <2>2. h * m \in Nat
    BY <1>3, <1>7
  <2> DEFINE g == h * m
  <2> HIDE DEF g
  <2>3. q * (2 * g + u) = q * (2 * g) + q * u
    BY <1>3, <1>8, <2>2 DEF g
  <2>4. p * m \in Nat /\ q * u \in Nat /\ q * (2 * g) \in Nat
    BY <1>3, <1>7, <1>8, <2>2, <2>1 DEF g
  <2> QED
    BY <1>7, <1>8, <2>1, <2>3, <2>4 DEF g
<1>11. n \in Nat /\ n % 2 = u % 2
  <2>1. h * m \in Nat
    BY <1>3, <1>7
  <2> DEFINE g == h * m
  <2> HIDE DEF g
  <2>2. g \in Nat
    BY <2>1 DEF g
  <2>3. 2 * g + u \in Nat /\ (2 * g + u) % 2 = u % 2
    BY <1>8, <2>2
  <2> QED
    BY <2>3 DEF g
<1> HIDE DEF n
<1>12. x \div q = n
  <2>1. (q * n + r) \div q = n
    BY <1>3, <1>8, <1>11, DivisionIsUnique
  <2> QED
    BY <1>10, <2>1
<1>13. u = 2 * (u \div 2) + (u % 2) /\ u \div 2 \in Nat /\ u % 2 \in 0..1
  BY <1>8
<1> QED
  BY <1>6, <1>9, <1>11, <1>12, <1>13

\* A field of no bits is zero.
LEMMA FieldOfNone ==
  ASSUME NEW x \in Nat, NEW s \in 0..ByteBits
  PROVE  Field(x, s, 0) = 0
<1>1. ByteBits - s \in Nat /\ ByteBits - s - 0 = ByteBits - s
  BY AddressesHaveBytes
<1> DEFINE p == Shifted(ByteBits - s)
<1>2. p \in Nat \ {0}
  BY <1>1, ShiftedPositive
<1>3. Field(x, s, 0) = (x % p) \div p
  BY <1>1 DEF Field
<1> HIDE DEF p
<1>4. x % p \in 0..(p - 1)
  BY <1>2
<1> DEFINE r == x % p
<1> HIDE DEF r
<1>5. (p * 0 + r) \div p = 0
  BY <1>2, <1>4, DivisionIsUnique DEF r
<1>6. p * 0 + r = r
  BY <1>2, <1>4 DEF r
<1> QED
  BY <1>3, <1>5, <1>6 DEF r

\* The fields of t bits behind the first s of two bytes.
FieldsFit(x, y, s, t) ==
  /\ Field(x, s, t) \in 0..(Shifted(t) - 1)
  /\ Field(y, s, t) \in 0..(Shifted(t) - 1)
  /\ Field(x, s, t) = Field(y, s, t) <=> \A p \in s..(s + t - 1) : Bit(x, p) = Bit(y, p)

\* The same bits of two bytes are the same number exactly if they are the same bits.
LEMMA FieldBits ==
  ASSUME NEW x \in Nat, NEW y \in Nat, NEW s \in 0..ByteBits
  PROVE  \A t \in 0..(ByteBits - s) : FieldsFit(x, y, s, t)
<1> DEFINE F(t) == /\ Field(x, s, t) \in 0..(Shifted(t) - 1)
                   /\ Field(y, s, t) \in 0..(Shifted(t) - 1)
                   /\ Field(x, s, t) = Field(y, s, t)
                        <=> \A p \in s..(s + t - 1) : Bit(x, p) = Bit(y, p)
           T == {t \in Nat : t <= ByteBits - s => F(t)}
<1>0. ByteBits \in Nat /\ s \in Nat
  BY AddressesHaveBytes
<1>1. 0 \in T
  <2>1. Field(x, s, 0) = 0 /\ Field(y, s, 0) = 0 /\ Shifted(0) = 1
    BY FieldOfNone, ShiftedStep
  <2>2. s..(s + 0 - 1) = {}
    BY <1>0
  <2> QED
    BY <2>1, <2>2
<1>2. ASSUME NEW t \in Nat, t \in T
      PROVE  t + 1 \in T
  <2>1. SUFFICES ASSUME t + 1 <= ByteBits - s
                 PROVE  F(t + 1)
    OBVIOUS
  <2> DEFINE a == Field(x, s, t)
             b == Field(y, s, t)
             c == Bit(x, s + t)
             d == Bit(y, s + t)
             h == Shifted(t)
             E(n) == \A p \in s..(s + n - 1) : Bit(x, p) = Bit(y, p)
  <2>2. s + t < ByteBits /\ t <= ByteBits - s
    BY <1>0, <2>1
  <2>3. F(t)
    BY <1>2, <2>2
  <2>4. a \in 0..(h - 1) /\ b \in 0..(h - 1) /\ (a = b <=> E(t))
    BY <2>3
  <2>5. /\ Field(x, s, t + 1) = 2 * a + c /\ c \in 0..1
        /\ Field(y, s, t + 1) = 2 * b + d /\ d \in 0..1
    BY <1>0, <2>2, FieldGrows
  <2>6. Shifted(t + 1) = 2 * h /\ h \in Nat
    BY ShiftedStep
  <2>7. E(t + 1) <=> E(t) /\ c = d
    <3>1. s..(s + (t + 1) - 1) = s..(s + t - 1) \cup {s + t}
      BY <1>0
    <3> QED
      BY <3>1
  <2> HIDE DEF a, b, c, d, h, E
  <2>8. /\ 2 * a + c \in 0..(2 * h - 1) /\ 2 * b + d \in 0..(2 * h - 1)
        /\ 2 * a + c = 2 * b + d <=> a = b /\ c = d
    BY <2>4, <2>5, <2>6
  <2>9. Field(x, s, t + 1) = Field(y, s, t + 1) <=> E(t + 1)
    BY <2>4, <2>5, <2>7, <2>8
  <2>10. /\ Field(x, s, t + 1) \in 0..(Shifted(t + 1) - 1)
         /\ Field(y, s, t + 1) \in 0..(Shifted(t + 1) - 1)
    BY <2>5, <2>6, <2>8
  <2> QED
    BY <2>9, <2>10 DEF E
<1> HIDE DEF T
<1>3. \A t \in Nat : t \in T
  BY <1>1, <1>2, Induction
<1>4. ASSUME NEW t \in 0..(ByteBits - s)
      PROVE  F(t)
  <2>1. t \in Nat /\ t <= ByteBits - s
    BY <1>0
  <2> HIDE DEF F
  <2> QED
    BY <1>3, <2>1 DEF T
<1> QED
  BY <1>4 DEF FieldsFit

\* What getMaskedValue has read, and what it does with byte i.
Reading(n) == [value : Nat, left : 0..n]

Skipped(o, i) == IF i = (o \div ByteBits) + 1 THEN o % ByteBits ELSE 0

ReadNext(addr, o, acc, i) ==
  IF i <= (o \div ByteBits) \/ acc.left = 0 THEN acc ELSE ReadByte(acc, addr[i], Skipped(o, i))

IsReading(addr, o, n, f) ==
  /\ f \in [0..Len(addr) -> Reading(n)]
  /\ f[0] = [value |-> 0, left |-> n]
  /\ \A i \in 1..Len(addr) : f[i] = ReadNext(addr, o, f[i - 1], i)

\* A byte is a number.
LEMMA BytesAreNumbers == Bytes \subseteq Nat
BY DEF Bytes

\* The bits skipped in a byte are fewer than it has.
LEMMA SkippedRange == \A o, i \in Nat : Skipped(o, i) \in 0..(ByteBits - 1)
<1> SUFFICES ASSUME NEW o \in Nat, NEW i \in Nat
             PROVE  Skipped(o, i) \in 0..(ByteBits - 1)
  OBVIOUS
<1>1. ByteBits \in Nat \ {0}
  BY AddressesHaveBytes
<1>2. o % ByteBits \in 0..(ByteBits - 1)
  BY <1>1, Division
<1> QED
  BY <1>1, <1>2 DEF Skipped

\* ReadByte reads t bits of byte x behind the first s.
ReadsByte(n, acc, x, s, t) ==
  /\ t \in 0..acc.left /\ t \in 0..(ByteBits - s)
  /\ ReadByte(acc, x, s)
       = [value |-> acc.value * Shifted(t) + Field(x, s, t), left |-> acc.left - t]
  /\ ReadByte(acc, x, s) \in Reading(n)

\* A byte is read into what was read before it.
LEMMA ReadByteFacts ==
  ASSUME NEW n \in Nat, NEW acc \in Reading(n), NEW x \in Nat, NEW s \in 0..(ByteBits - 1),
         NEW t, t = Lesser(ByteBits - s, acc.left)
  PROVE  ReadsByte(n, acc, x, s, t)
<1>1. ByteBits \in Nat /\ s \in Nat /\ acc.left \in 0..n /\ acc.value \in Nat
  BY AddressesHaveBytes DEF Reading
<1>2. t \in 0..acc.left /\ t \in 0..(ByteBits - s)
  BY <1>1 DEF Lesser
<1>3. ReadByte(acc, x, s)
        = [value |-> acc.value * Shifted(t) + Field(x, s, t), left |-> acc.left - t]
  BY DEF ReadByte, Field
<1>4. s \in 0..ByteBits
  BY <1>1
<1>5. Field(x, s, t) \in 0..(Shifted(t) - 1) /\ Shifted(t) \in Nat
  <2>1. \A u \in 0..(ByteBits - s) : Field(x, s, u) \in 0..(Shifted(u) - 1)
    BY <1>1, <1>4, FieldBits DEF FieldsFit
  <2> QED
    BY <1>2, <2>1, ShiftedStep
<1>6. acc.value * Shifted(t) \in Nat
  BY <1>1, <1>5
<1>7. acc.value * Shifted(t) + Field(x, s, t) \in Nat
  BY <1>5, <1>6
<1>8. acc.left - t \in 0..n
  BY <1>1, <1>2
<1> QED
  BY <1>2, <1>3, <1>7, <1>8 DEF Reading, ReadsByte

\* What has been read stays what getMaskedValue may have read.
LEMMA ReadNextTyped ==
  ASSUME NEW addr \in Seq(Bytes), NEW o \in Nat, NEW n \in Nat,
         NEW acc \in Reading(n), NEW i \in 1..Len(addr)
  PROVE  ReadNext(addr, o, acc, i) \in Reading(n)
<1>0. addr[i] \in Bytes
  OBVIOUS
<1>1. addr[i] \in Nat /\ i \in Nat
  <2>1. i \in Nat
    OBVIOUS
  <2> QED
    BY <1>0, <2>1, BytesAreNumbers, Zenon
<1>2. Skipped(o, i) \in 0..(ByteBits - 1)
  BY <1>1, SkippedRange
<1>3. ReadByte(acc, addr[i], Skipped(o, i)) \in Reading(n)
  <2>1. ReadsByte(n, acc, addr[i], Skipped(o, i), Lesser(ByteBits - Skipped(o, i), acc.left))
    BY <1>1, <1>2, ReadByteFacts
  <2> QED
    BY <2>1 DEF ReadsByte
<1> QED
  BY <1>3 DEF ReadNext

ReadUpTo(addr, o, n, f) ==
  f = [i \in 0..Len(addr) |->
         IF i = 0 THEN [value |-> 0, left |-> n] ELSE ReadNext(addr, o, f[i - 1], i)]

\* getMaskedValue reads byte by byte.
LEMMA MaskedRead ==
  ASSUME NEW addr \in Seq(Bytes), NEW o \in Nat, NEW n \in Nat
  PROVE  \E f : IsReading(addr, o, n, f) /\ MaskedValue(addr, o, n) = f[Len(addr)].value
<1> DEFINE m == Len(addr)
           V == Reading(n)
           c == [value |-> 0, left |-> n]
           S == [w \in V \X Nat |->
                   IF w[2] \in 1..m THEN ReadNext(addr, o, w[1], w[2]) ELSE w[1]]
<1>1. m \in Nat /\ c \in V
  BY DEF Reading
<1>2. S \in [V \X Nat -> V]
  <2>1. ASSUME NEW w \in V \X Nat
        PROVE  (IF w[2] \in 1..m THEN ReadNext(addr, o, w[1], w[2]) ELSE w[1]) \in V
    BY ReadNextTyped
  <2> QED
    BY <2>1
<1>3. \A acc \in V, i \in 1..m : S[<<acc, i>>] = ReadNext(addr, o, acc, i)
  <2>1. \A acc \in V, i \in 1..m : <<acc, i>> \in V \X Nat /\ <<acc, i>>[1] = acc /\ <<acc, i>>[2] = i
    BY <1>1
  <2> HIDE DEF V
  <2> QED
    BY <2>1
<1> HIDE DEF S, V, c
<1>4. PICK f : f \in Runs(V, c, S, m)
  BY <1>1, <1>2, RunExists
<1>5. f \in [0..m -> V] /\ f[0] = c /\ \A i \in 1..m : f[i] = S[<<f[i - 1], i>>]
  BY <1>4 DEF Runs
<1>6. ASSUME NEW i \in 1..m
      PROVE  f[i] = ReadNext(addr, o, f[i - 1], i)
  <2>1. f[i - 1] \in V
    BY <1>1, <1>5
  <2> QED
    BY <1>3, <1>5, <2>1
<1>7. ReadUpTo(addr, o, n, f)
  <2>1. f = [i \in 0..m |-> f[i]]
    BY <1>5
  <2>2. \A i \in 0..m : f[i] = IF i = 0 THEN c ELSE ReadNext(addr, o, f[i - 1], i)
    BY <1>1, <1>5, <1>6
  <2> QED
    BY <2>1, <2>2 DEF ReadUpTo, c
<1> DEFINE g == CHOOSE h : ReadUpTo(addr, o, n, h)
<1>8. ReadUpTo(addr, o, n, g)
  BY <1>7
<1>9. MaskedValue(addr, o, n) = g[m].value
  BY DEF MaskedValue, ReadUpTo, ReadNext, Skipped
<1> HIDE DEF g
<1>10. /\ DOMAIN g = 0..m /\ g = [i \in 0..m |-> g[i]]
       /\ \A i \in 0..m : g[i] = IF i = 0 THEN c ELSE ReadNext(addr, o, g[i - 1], i)
  BY <1>8 DEF ReadUpTo, c
<1>11. Follows(g, V, c, S, m)
  BY <1>1, <1>3, <1>10 DEF Follows
<1>12. Agree(f, g, m)
  BY <1>1, <1>4, <1>11, RunsAgree
<1>13. \A i \in 0..m : g[i] = f[i]
  BY <1>12 DEF Agree
<1>14. g \in [0..m -> V]
  BY <1>5, <1>10, <1>13
<1>15. IsReading(addr, o, n, g)
  BY <1>1, <1>10, <1>14 DEF IsReading, V, c
<1> QED
  BY <1>9, <1>15

\* A bit of an address is one of a byte.
LEMMA BitOfByte ==
  ASSUME NEW addr \in Seq(Bytes), NEW i \in Nat, NEW p \in 0..(ByteBits - 1)
  PROVE  BitOf(addr, ByteBits * i + p) = Bit(addr[i + 1], p)
<1>1. ByteBits \in Nat \ {0}
  BY AddressesHaveBytes
<1>2. (ByteBits * i + p) \div ByteBits = i /\ (ByteBits * i + p) % ByteBits = p
  BY <1>1, DivisionIsUnique
<1> QED
  BY <1>2 DEF BitOf, Bit

\* How far getMaskedValue has read after i bytes.
ReadTo(o, n, i) ==
  IF i <= (o \div ByteBits) THEN o ELSE Lesser(o + n, ByteBits * i)

SameBits(a, b, from, to) == \A p \in from..(to - 1) : BitOf(a, p) = BitOf(b, p)

\* With the next byte it reads the bits behind those it has read, as many as the
\* byte has and as are wanted.
LEMMA ReadOn ==
  ASSUME NEW o \in Nat, NEW n \in Nat, NEW i \in Nat,
         ~((i + 1) <= (o \div ByteBits) \/ o + n - ReadTo(o, n, i) = 0)
  PROVE  LET s == Skipped(o, i + 1)
             t == Lesser(ByteBits - s, o + n - ReadTo(o, n, i))
         IN /\ s \in 0..(ByteBits - 1)
            /\ ReadTo(o, n, i) = ByteBits * i + s
            /\ ReadTo(o, n, i + 1) = ReadTo(o, n, i) + t
<1> DEFINE w == ByteBits
           d == o \div w
           r == o % w
<1>1. w \in Nat \ {0}
  BY AddressesHaveBytes
<1>2. d \in Nat /\ r \in 0..(w - 1) /\ o = w * d + r
  BY <1>1, Division
<1> HIDE DEF d, r, w
<1>3. w * (i + 1) = w * i + w /\ w * i \in Nat /\ w * d \in Nat
  BY <1>1, <1>2
<1> DEFINE e == w * i
<1>4. ReadTo(o, n, i) = IF i <= d THEN o ELSE Lesser(o + n, e)
  BY DEF ReadTo, d, w
<1>5. ReadTo(o, n, i + 1) = IF i + 1 <= d THEN o ELSE Lesser(o + n, e + w)
  BY <1>3 DEF ReadTo, d, w
<1>6. Skipped(o, i + 1) = IF i + 1 = d + 1 THEN r ELSE 0
  BY DEF Skipped, d, r, w
<1>7. ~(i + 1 <= d)
  BY DEF d, w
<1>8. o + n - ReadTo(o, n, i) # 0
  OBVIOUS
<1>9. CASE i = d
  <2>1. Skipped(o, i + 1) = r /\ ReadTo(o, n, i) = o /\ ReadTo(o, n, i + 1) = Lesser(o + n, e + w)
    BY <1>2, <1>4, <1>5, <1>6, <1>7, <1>9
  <2>2. o = e + r
    BY <1>2, <1>9
  <2> HIDE DEF e
  <2>3. Lesser(o + n, e + w) = o + Lesser(w - r, o + n - o)
    BY <1>1, <1>2, <1>3, <2>2 DEF Lesser, e
  <2> QED
    BY <1>2, <2>1, <2>2, <2>3 DEF w, e
<1>10. CASE i # d
  <2>1. i > d
    BY <1>2, <1>7, <1>10
  <2>2. /\ Skipped(o, i + 1) = 0 /\ ReadTo(o, n, i) = Lesser(o + n, e)
        /\ ReadTo(o, n, i + 1) = Lesser(o + n, e + w)
    BY <1>2, <1>4, <1>5, <1>6, <1>7, <2>1
  <2> HIDE DEF e
  <2>3. e \in Nat
    BY <1>3 DEF e
  <2>4. ReadTo(o, n, i) = e /\ e < o + n
    BY <1>8, <2>2, <2>3 DEF Lesser
  <2>5. Lesser(o + n, e + w) = e + Lesser(w - 0, o + n - e)
    BY <1>1, <2>3, <2>4 DEF Lesser
  <2>6. e = w * i + 0
    BY <2>3 DEF e
  <2> QED
    BY <1>1, <2>2, <2>4, <2>5, <2>6 DEF w
<1> QED
  BY <1>9, <1>10

\* Where nothing is read, it is where it was.
LEMMA ReadNoMore ==
  ASSUME NEW o \in Nat, NEW n \in Nat, NEW i \in Nat,
         (i + 1) <= (o \div ByteBits) \/ o + n - ReadTo(o, n, i) = 0
  PROVE  ReadTo(o, n, i + 1) = ReadTo(o, n, i)
<1> DEFINE w == ByteBits
           d == o \div w
           r == o % w
           e == w * i
<1>1. w \in Nat \ {0}
  BY AddressesHaveBytes
<1>2. d \in Nat /\ r \in 0..(w - 1) /\ o = w * d + r
  BY <1>1, Division
<1> HIDE DEF d, r, w
<1>3. w * (i + 1) = e + w /\ e \in Nat /\ w * d \in Nat
  BY <1>1, <1>2
<1>4. ReadTo(o, n, i) = IF i <= d THEN o ELSE Lesser(o + n, e)
  BY DEF ReadTo, d, w
<1>5. ReadTo(o, n, i + 1) = IF i + 1 <= d THEN o ELSE Lesser(o + n, e + w)
  BY <1>3 DEF ReadTo, d, w
<1>6. CASE i + 1 <= d
  BY <1>2, <1>4, <1>5, <1>6
<1>7. CASE ~(i + 1 <= d)
  <2>1. o + n = ReadTo(o, n, i)
    <3>1. o + n - ReadTo(o, n, i) = 0
      BY <1>7 DEF d, w
    <3>2. ReadTo(o, n, i) \in Nat
      BY <1>3, <1>4 DEF Lesser
    <3> QED
      BY <3>1, <3>2
  <2>2. CASE i = d
    <3>1. n = 0 /\ o = e + r
      BY <1>2, <1>4, <2>1, <2>2
    <3> HIDE DEF e
    <3> QED
      BY <1>1, <1>2, <1>3, <1>4, <1>5, <1>7, <2>2, <3>1 DEF Lesser
  <2>3. CASE i # d
    <3>1. i > d
      BY <1>2, <1>7, <2>3
    <3> HIDE DEF e
    <3> QED
      BY <1>1, <1>2, <1>3, <1>4, <1>5, <1>7, <2>1, <3>1 DEF Lesser
  <2> QED
    BY <2>2, <2>3
<1> QED
  BY <1>6, <1>7

\* What is read lies between the offset and the end of what is wanted.
LEMMA ReadToRange ==
  \A o, n, i \in Nat : ReadTo(o, n, i) \in o..(o + n)
<1> SUFFICES ASSUME NEW o \in Nat, NEW n \in Nat, NEW i \in Nat
             PROVE  ReadTo(o, n, i) \in o..(o + n)
  OBVIOUS
<1> DEFINE w == ByteBits
           d == o \div w
           r == o % w
           e == w * i
<1>1. w \in Nat \ {0}
  BY AddressesHaveBytes
<1>2. d \in Nat /\ r \in 0..(w - 1) /\ o = w * d + r
  BY <1>1, Division
<1> HIDE DEF d, r, w
<1>3. ReadTo(o, n, i) = IF i <= d THEN o ELSE Lesser(o + n, e)
  BY DEF ReadTo, d, w
<1>4. ASSUME ~(i <= d)
      PROVE  e \in Nat /\ e >= o
  <2>1. w * i >= w * (d + 1)
    BY <1>1, <1>2, <1>4
  <2>2. w * (d + 1) = w * d + w /\ w * d \in Nat /\ w * i \in Nat
    BY <1>1, <1>2
  <2> QED
    BY <1>1, <1>2, <2>1, <2>2
<1> HIDE DEF e
<1>5. CASE i <= d
  BY <1>3, <1>5
<1>6. CASE ~(i <= d)
  <2>1. ReadTo(o, n, i) = Lesser(o + n, e) /\ e \in Nat /\ e >= o
    BY <1>3, <1>4, <1>6
  <2> QED
    BY <2>1 DEF Lesser
<1> QED
  BY <1>5, <1>6

\* What two addresses have read is the same number exactly if the bits are the same.
InStep(a, b, o, n, i, x, y) ==
  /\ x \in Reading(n) /\ y \in Reading(n)
  /\ x.left = o + n - ReadTo(o, n, i)
  /\ y.left = o + n - ReadTo(o, n, i)
  /\ x.value = y.value <=> SameBits(a, b, o, ReadTo(o, n, i))

\* One more byte of two addresses.
LEMMA ReadInStep ==
  ASSUME NEW a \in Seq(Bytes), NEW b \in Seq(Bytes), Len(a) = Len(b),
         NEW o \in Nat, NEW n \in Nat, NEW i \in Nat, i + 1 <= Len(a),
         NEW x, NEW y, InStep(a, b, o, n, i, x, y)
  PROVE  InStep(a, b, o, n, i + 1, ReadNext(a, o, x, i + 1), ReadNext(b, o, y, i + 1))
<1> DEFINE at == ReadTo(o, n, i)
           to == ReadTo(o, n, i + 1)
           s == Skipped(o, i + 1)
           t == Lesser(ByteBits - s, o + n - at)
           u == a[i + 1]
           v == b[i + 1]
<1>1. /\ x \in Reading(n) /\ y \in Reading(n) /\ x.left = o + n - at /\ y.left = o + n - at
      /\ x.value = y.value <=> SameBits(a, b, o, at)
  BY DEF InStep
<1>2. u \in Nat /\ v \in Nat
  <2>1. i + 1 \in 1..Len(a) /\ i + 1 \in 1..Len(b)
    OBVIOUS
  <2>2. u \in Bytes /\ v \in Bytes
    BY <2>1
  <2> HIDE DEF u, v
  <2> QED
    BY <2>2, BytesAreNumbers, Zenon
<1>3. i + 1 \in Nat /\ at \in o..(o + n) /\ to \in o..(o + n)
  BY ReadToRange
<1>4. CASE (i + 1) <= (o \div ByteBits) \/ o + n - at = 0
  <2>1. to = at
    BY <1>4, ReadNoMore
  <2>2. ReadNext(a, o, x, i + 1) = x /\ ReadNext(b, o, y, i + 1) = y
    <3> HIDE DEF at
    <3> QED
      BY <1>1, <1>4 DEF ReadNext
  <2> HIDE DEF at, to
  <2> QED
    BY <1>1, <2>1, <2>2, Zenon DEF InStep, at, to
<1>5. CASE ~((i + 1) <= (o \div ByteBits) \/ o + n - at = 0)
  <2>1. s \in 0..(ByteBits - 1) /\ at = ByteBits * i + s /\ to = at + t
    BY <1>5, ReadOn
  <2>2. /\ ReadNext(a, o, x, i + 1) = ReadByte(x, u, s)
        /\ ReadNext(b, o, y, i + 1) = ReadByte(y, v, s)
    <3> HIDE DEF at
    <3> QED
      BY <1>1, <1>5 DEF ReadNext
  <2>3. t = Lesser(ByteBits - s, x.left) /\ t = Lesser(ByteBits - s, y.left)
    BY <1>1
  <2> HIDE DEF at, to, s, t, u, v
  <2> DEFINE f == Field(u, s, t)
             g == Field(v, s, t)
             h == Shifted(t)
  <2>0. x \in Reading(n) /\ y \in Reading(n) /\ u \in Nat /\ v \in Nat /\ s \in 0..(ByteBits - 1)
    BY <1>1, <1>2, <2>1
  <2>4. ReadsByte(n, x, u, s, t) /\ ReadsByte(n, y, v, s, t)
    BY <2>0, <2>3, ReadByteFacts
  <2>5. /\ t \in 0..x.left /\ t \in 0..(ByteBits - s)
        /\ ReadByte(x, u, s) = [value |-> x.value * h + f, left |-> x.left - t]
        /\ ReadByte(y, v, s) = [value |-> y.value * h + g, left |-> y.left - t]
        /\ ReadByte(x, u, s) \in Reading(n) /\ ReadByte(y, v, s) \in Reading(n)
    BY <2>4 DEF ReadsByte
  <2>6. ByteBits \in Nat \ {0} /\ s \in 0..ByteBits /\ t \in Nat
    BY <2>1, <2>5, AddressesHaveBytes
  <2>7. /\ f \in 0..(h - 1) /\ g \in 0..(h - 1)
        /\ f = g <=> \A p \in s..(s + t - 1) : Bit(u, p) = Bit(v, p)
    <3>1. FieldsFit(u, v, s, t)
      BY <2>0, <2>5, <2>6, FieldBits
    <3> QED
      BY <3>1 DEF FieldsFit
  <2>8. h \in Nat /\ x.value \in Nat /\ y.value \in Nat
    BY <1>1, <2>6, ShiftedStep DEF Reading
  <2>9. SameBits(a, b, o, to) <=> SameBits(a, b, o, at) /\ SameBits(a, b, at, to)
    <3>1. o..(to - 1) = o..(at - 1) \cup at..(to - 1)
      BY <1>3, <2>1, <2>6
    <3> QED
      BY <3>1 DEF SameBits
  <2>10. SameBits(a, b, at, to) <=> \A p \in s..(s + t - 1) : Bit(u, p) = Bit(v, p)
    <3>1. ASSUME NEW p \in s..(s + t - 1)
          PROVE  /\ BitOf(a, ByteBits * i + p) = Bit(u, p)
                 /\ BitOf(b, ByteBits * i + p) = Bit(v, p)
      <4>1. p \in 0..(ByteBits - 1)
        BY <2>1, <2>5, <2>6
      <4> QED
        BY <4>1, BitOfByte DEF u, v
    <3> DEFINE e == ByteBits * i
    <3>2. e \in Nat
      BY <2>6
    <3>3. at = e + s
      BY <2>1
    <3> HIDE DEF e
    <3>4. ASSUME SameBits(a, b, at, to), NEW p \in s..(s + t - 1)
          PROVE  Bit(u, p) = Bit(v, p)
      <4>1. e + p \in at..(to - 1)
        BY <2>1, <2>6, <3>2, <3>3
      <4>2. BitOf(a, e + p) = BitOf(b, e + p)
        BY <3>4, <4>1 DEF SameBits
      <4> QED
        BY <3>1, <4>2 DEF e
    <3>5. ASSUME \A p \in s..(s + t - 1) : Bit(u, p) = Bit(v, p), NEW q \in at..(to - 1)
          PROVE  BitOf(a, q) = BitOf(b, q)
      <4> DEFINE p == q - e
      <4>1. p \in s..(s + t - 1) /\ q = e + p
        BY <2>1, <2>6, <3>2, <3>3
      <4>2. Bit(u, p) = Bit(v, p)
        BY <3>5, <4>1
      <4> QED
        BY <3>1, <4>1, <4>2 DEF e
    <3> QED
      BY <3>4, <3>5 DEF SameBits
  <2> HIDE DEF f, g, h
  <2> DEFINE x1 == ReadNext(a, o, x, i + 1)
             y1 == ReadNext(b, o, y, i + 1)
  <2>11. x1.value = x.value * h + f /\ y1.value = y.value * h + g
    BY <2>2, <2>5
  <2>12. x1.value = y1.value <=> x.value = y.value /\ f = g
    <3>1. \A k, l \in Nat : k * h + f = l * h + g => k = l /\ f = g
      <4> SUFFICES ASSUME NEW k \in Nat, NEW l \in Nat, k * h + f = l * h + g
                   PROVE  k = l /\ f = g
        OBVIOUS
      <4>1. h \in Nat \ {0} /\ h * k + f = h * l + g
        BY <2>7, <2>8
      <4>2. (h * k + f) \div h = k /\ (h * l + g) \div h = l
        BY <2>7, <4>1, DivisionIsUnique
      <4>3. k = l
        BY <4>1, <4>2
      <4> QED
        BY <2>7, <4>1, <4>3
    <3> QED
      BY <2>8, <2>11, <3>1
  <2>13. x1.left = x.left - t /\ y1.left = y.left - t
    BY <2>2, <2>5
  <2>14. x1.left = o + n - to /\ y1.left = o + n - to
    <3> HIDE DEF x1, y1
    <3> QED
      BY <1>1, <1>3, <2>1, <2>6, <2>13
  <2>15. x1.value = y1.value <=> SameBits(a, b, o, to)
    BY <1>1, <2>7, <2>9, <2>10, <2>12
  <2>16. x1 \in Reading(n) /\ y1 \in Reading(n)
    BY <2>2, <2>5
  <2> HIDE DEF x1, y1
  <2> QED
    BY <2>14, <2>15, <2>16 DEF InStep, x1, y1, to
<1> QED
  BY <1>4, <1>5

\* The masked values of two addresses are the same exactly if the bits are.
LEMMA MaskedBits ==
  ASSUME NEW a \in Seq(Bytes), NEW b \in Seq(Bytes), Len(a) = Len(b),
         NEW o \in Nat, NEW n \in Nat, o + n <= ByteBits * Len(a)
  PROVE  MaskedValue(a, o, n) = MaskedValue(b, o, n) <=> SameBits(a, b, o, o + n)
<1> DEFINE m == Len(a)
<1>1. PICK f : IsReading(a, o, n, f) /\ MaskedValue(a, o, n) = f[m].value
  BY MaskedRead
<1>2. PICK g : IsReading(b, o, n, g) /\ MaskedValue(b, o, n) = g[m].value
  BY MaskedRead
<1>3. /\ f[0] = [value |-> 0, left |-> n] /\ g[0] = [value |-> 0, left |-> n]
      /\ \A i \in 1..m : f[i] = ReadNext(a, o, f[i - 1], i) /\ g[i] = ReadNext(b, o, g[i - 1], i)
      /\ f[0] \in Reading(n) /\ g[0] \in Reading(n)
  BY <1>1, <1>2 DEF IsReading, Reading
<1>4. ByteBits \in Nat \ {0} /\ m \in Nat
  BY AddressesHaveBytes
<1> DEFINE T == {i \in Nat : i <= m => InStep(a, b, o, n, i, f[i], g[i])}
<1>5. 0 \in T
  <2>1. ReadTo(o, n, 0) = o
    <3>1. o \div ByteBits \in Nat
      BY <1>4, Division
    <3> QED
      BY <3>1 DEF ReadTo
  <2>2. SameBits(a, b, o, o)
    BY DEF SameBits
  <2>3. InStep(a, b, o, n, 0, f[0], g[0])
    BY <1>3, <2>1, <2>2 DEF InStep
  <2> QED
    BY <2>3
<1>6. ASSUME NEW i \in Nat, i \in T
      PROVE  i + 1 \in T
  <2>1. SUFFICES ASSUME i + 1 <= m
                 PROVE  InStep(a, b, o, n, i + 1, f[i + 1], g[i + 1])
    OBVIOUS
  <2>2. InStep(a, b, o, n, i, f[i], g[i])
    BY <1>6, <2>1
  <2>3. i + 1 \in 1..m /\ (i + 1) - 1 = i
    BY <2>1
  <2>4. f[i + 1] = ReadNext(a, o, f[i], i + 1) /\ g[i + 1] = ReadNext(b, o, g[i], i + 1)
    BY <1>3, <2>3
  <2> DEFINE x == f[i]
             y == g[i]
  <2>5. InStep(a, b, o, n, i, x, y)
    BY <2>2
  <2> HIDE DEF x, y
  <2>6. InStep(a, b, o, n, i + 1, ReadNext(a, o, x, i + 1), ReadNext(b, o, y, i + 1))
    BY <2>1, <2>5, ReadInStep
  <2> QED
    BY <2>4, <2>6 DEF x, y
<1> HIDE DEF T
<1>7. InStep(a, b, o, n, m, f[m], g[m])
  <2>1. m \in T
    BY <1>4, <1>5, <1>6, Induction
  <2> HIDE DEF m
  <2> QED
    BY <1>4, <2>1 DEF T
<1>8. ReadTo(o, n, m) = o + n
  <2> DEFINE w == ByteBits
             d == o \div w
             r == o % w
             e == w * m
  <2>1. d \in Nat /\ r \in 0..(w - 1) /\ o = w * d + r
    BY <1>4, Division
  <2>2. w \in Nat \ {0} /\ o + n <= e
    BY <1>4
  <2> HIDE DEF d, r, w
  <2>3. ReadTo(o, n, m) = IF m <= d THEN o ELSE Lesser(o + n, e)
    BY DEF ReadTo, d, w
  <2>4. CASE m <= d
    <3>1. w * m <= w * d
      BY <1>4, <2>1, <2>2, <2>4
    <3>2. n = 0
      BY <2>1, <2>2, <3>1
    <3> QED
      BY <2>3, <2>4, <3>2
  <2>5. CASE ~(m <= d)
    <3>1. e \in Nat
      BY <1>4, <2>2
    <3> HIDE DEF e
    <3> QED
      BY <2>2, <2>3, <2>5, <3>1 DEF Lesser
  <2> QED
    BY <2>4, <2>5
<1> QED
  BY <1>1, <1>2, <1>7, <1>8 DEF InStep

----------------------------------------------------------------------------
(* The table of routes: the segments, the bits read down to a level, and the way*)
(* of an address.                                                          *)

DiffOf(s, f) ==
  f = [i \in 1..Len(s) |-> IF i = 1 THEN s[1] ELSE s[i] - f[i - 1]]

\* What getTrieTreeSegmentLengths makes of sorted lengths.
IsDiff(s, d) ==
  /\ d \in Seq(Int) /\ Len(d) = Len(s)
  /\ \A i \in 1..Len(s) : d[i] = IF i = 1 THEN s[1] ELSE s[i] - d[i - 1]

\* The differences of sorted lengths.
LEMMA DiffExists ==
  ASSUME NEW s \in Seq(Nat)
  PROVE  /\ \E f : DiffOf(s, f)
         /\ \A f : DiffOf(s, f) => IsDiff(s, f)
<1> DEFINE n == Len(s)
           S == [w \in Int \X Nat |-> IF w[2] \in 1..n THEN s[w[2]] - w[1] ELSE 0]
<1>1. n \in Nat /\ \A i \in 1..n : s[i] \in Nat
  OBVIOUS
<1> HIDE DEF n
<1>2. S \in [Int \X Nat -> Int]
  <2>1. ASSUME NEW w \in Int \X Nat
        PROVE  (IF w[2] \in 1..n THEN s[w[2]] - w[1] ELSE 0) \in Int
    <3>1. w[1] \in Int
      OBVIOUS
    <3>2. CASE w[2] \in 1..n
      <4>1. s[w[2]] \in Nat
        BY <1>1, <3>2
      <4> QED
        BY <3>1, <3>2, <4>1
    <3> QED
      BY <3>2
  <2> QED
    BY <2>1
<1>3. \A x \in Int, i \in 1..n : S[<<x, i>>] = s[i] - x
  <2>1. ASSUME NEW x \in Int, NEW i \in 1..n
        PROVE  S[<<x, i>>] = s[i] - x
    <3>1. <<x, i>> \in Int \X Nat /\ <<x, i>>[1] = x /\ <<x, i>>[2] = i
      BY <1>1
    <3> QED
      BY <3>1
  <2> QED
    BY <2>1
<1> HIDE DEF S
<1>4. PICK h : h \in Runs(Int, 0, S, n)
  <2>1. 0 \in Int
    OBVIOUS
  <2> QED
    BY <1>1, <1>2, <2>1, RunExists
<1>5. h \in [0..n -> Int] /\ h[0] = 0 /\ \A i \in 1..n : h[i] = S[<<h[i - 1], i>>]
  BY <1>4 DEF Runs
<1>6. ASSUME NEW i \in 1..n
      PROVE  h[i] = s[i] - h[i - 1]
  <2>1. h[i - 1] \in Int
    BY <1>1, <1>5
  <2> QED
    BY <1>3, <1>5, <2>1
<1> DEFINE d == [i \in 1..n |-> h[i]]
<1>7. DiffOf(s, d)
  <2>1. ASSUME NEW i \in 1..n
        PROVE  d[i] = IF i = 1 THEN s[1] ELSE s[i] - d[i - 1]
    <3>1. CASE i = 1
      <4>1. h[1] = s[1] - h[0] /\ s[1] \in Nat /\ h[0] = 0
        BY <1>1, <1>5, <1>6, <3>1
      <4> QED
        BY <3>1, <4>1
    <3>2. CASE i # 1
      <4>1. i - 1 \in 1..n
        BY <1>1, <3>2
      <4> QED
        BY <1>6, <3>2, <4>1
    <3> QED
      BY <3>1, <3>2
  <2> QED
    BY <2>1 DEF DiffOf, n
<1>8. ASSUME NEW f, DiffOf(s, f)
      PROVE  IsDiff(s, f)
  <2>1. DOMAIN f = 1..n /\ \A i \in 1..n : f[i] = IF i = 1 THEN s[1] ELSE s[i] - f[i - 1]
    BY <1>8 DEF DiffOf, n
  <2> DEFINE T == {i \in Nat : i \in 1..n => f[i] \in Int}
  <2>2. 0 \in T
    OBVIOUS
  <2>3. ASSUME NEW i \in Nat, i \in T
        PROVE  i + 1 \in T
    <3>1. SUFFICES ASSUME i + 1 \in 1..n
                   PROVE  f[i + 1] \in Int
      OBVIOUS
    <3>2. f[i + 1] = IF i + 1 = 1 THEN s[1] ELSE s[i + 1] - f[i]
      BY <2>1, <3>1
    <3>3. s[i + 1] \in Nat
      BY <1>1, <3>1
    <3>4. CASE i = 0
      BY <3>2, <3>3, <3>4
    <3>5. CASE i # 0
      <4>1. f[i] \in Int
        BY <1>1, <2>3, <3>1, <3>5
      <4> QED
        BY <3>2, <3>3, <3>5, <4>1
    <3> QED
      BY <3>4, <3>5
  <2> HIDE DEF T
  <2>4. \A i \in Nat : i \in T
    BY <2>2, <2>3, Induction
  <2>5. \A i \in 1..n : f[i] \in Int
    BY <1>1, <2>4 DEF T
  <2>6. f = [i \in 1..n |-> f[i]]
    BY <1>8 DEF DiffOf, n
  <2>7. f \in Seq(Int) /\ Len(f) = n
    <3>1. f \in [1..n -> Int]
      BY <2>5, <2>6
    <3> QED
      BY <1>1, <3>1
  <2> QED
    BY <2>1, <2>7 DEF IsDiff, n
<1> QED
  BY <1>7, <1>8

Positive(d) == {x \in ToSet(d) : x > 0}

LensOf(routes) == [i \in DOMAIN routes |-> routes[i].len]

HasLens(routes) == \A i \in 1..Len(routes) : routes[i].len \in Nat

\* The segments are the differences of the sorted lengths that are not zero.
LEMMA SegmentsAre ==
  ASSUME NEW X, NEW routes \in Seq(X), HasLens(routes)
  PROVE  /\ LensOf(routes) \in Seq(Nat) /\ Len(LensOf(routes)) = Len(routes)
         /\ SortedBy(LensOf(routes), LensOf(routes)) \in Seq(Nat)
         /\ \E d : /\ IsDiff(SortedBy(LensOf(routes), LensOf(routes)), d)
                   /\ SegmentLengths(routes) = Only(d, Positive(d))
<1> DEFINE lens == LensOf(routes)
           s == SortedBy(lens, lens)
           n == Len(routes)
<1>1. n \in Nat /\ DOMAIN routes = 1..n
  OBVIOUS
<1>2. lens \in [1..n -> Nat]
  BY <1>1 DEF LensOf, HasLens
<1> HIDE DEF lens
<1>3. lens \in Seq(Nat) /\ Len(lens) = n
  <2> HIDE DEF n
  <2> QED
    BY <1>1, <1>2
<1>4. s \in Seq(Nat)
  <2>1. \A i \in 1..Len(lens) : lens[i] \in Int
    BY <1>3
  <2> QED
    BY <1>3, <2>1, SortedByPermutes
<1> HIDE DEF s
<1> DEFINE d == CHOOSE f : DiffOf(s, f)
<1>5. DiffOf(s, d)
  BY <1>4, DiffExists
<1>6. SegmentLengths(routes) = Only(d, Positive(d))
  BY DEF SegmentLengths, DiffOf, Positive, LensOf, lens, s
<1> HIDE DEF d
<1>7. IsDiff(s, d)
  BY <1>4, <1>5, DiffExists
<1> QED
  BY <1>3, <1>4, <1>6, <1>7 DEF lens, s, n

\* Every segment has a bit.
LEMMA SegmentsTyped ==
  ASSUME NEW X, NEW routes \in Seq(X), HasLens(routes)
  PROVE  SegmentLengths(routes) \in Seq(Nat \ {0})
<1>1. PICK d : /\ IsDiff(SortedBy(LensOf(routes), LensOf(routes)), d)
               /\ SegmentLengths(routes) = Only(d, Positive(d))
  BY SegmentsAre
<1>2. d \in Seq(Int)
  BY <1>1 DEF IsDiff
<1>3. Only(d, Positive(d)) \in Seq(Int \cap Positive(d))
  BY <1>2, OnlyType
<1>4. Int \cap Positive(d) \subseteq Nat \ {0}
  BY DEF Positive
<1> DEFINE Y == Int \cap Positive(d)
           q == SegmentLengths(routes)
<1>5. q \in Seq(Y) /\ Y \subseteq Nat \ {0}
  BY <1>1, <1>3, <1>4
<1> HIDE DEF Y, q
<1> DEFINE Z == Nat \ {0}
<1>6. q \in Seq(Z)
  <2>1. Y \subseteq Z
    BY <1>5
  <2> HIDE DEF Z
  <2>2. Len(q) \in Nat /\ q \in [1..Len(q) -> Y]
    BY <1>5
  <2>3. q \in [1..Len(q) -> Z]
    BY <2>1, <2>2
  <2> QED
    BY <2>2, <2>3
<1> QED
  BY <1>6 DEF q

EatenOf(segments, k, f) ==
  f = [i \in 0..k |-> IF i = 0 THEN 0 ELSE f[i - 1] + segments[i]]

Adding(segments) ==
  [w \in Nat \X Nat |-> IF w[2] \in 1..Len(segments) THEN w[1] + segments[w[2]] ELSE 0]

\* Adding a segment.
LEMMA AddingAdds ==
  ASSUME NEW segments \in Seq(Nat \ {0})
  PROVE  /\ Adding(segments) \in [Nat \X Nat -> Nat]
         /\ \A x \in Nat, i \in 1..Len(segments) : Adding(segments)[<<x, i>>] = x + segments[i]
<1> DEFINE n == Len(segments)
<1>1. n \in Nat /\ \A i \in 1..n : segments[i] \in Nat
  OBVIOUS
<1> HIDE DEF n
<1>2. ASSUME NEW w \in Nat \X Nat
      PROVE  (IF w[2] \in 1..n THEN w[1] + segments[w[2]] ELSE 0) \in Nat
  <2>1. w[1] \in Nat
    OBVIOUS
  <2>2. CASE w[2] \in 1..n
    <3>1. segments[w[2]] \in Nat
      BY <1>1, <2>2
    <3> QED
      BY <2>1, <2>2, <3>1
  <2> QED
    BY <2>2
<1>3. Adding(segments) \in [Nat \X Nat -> Nat]
  BY <1>2 DEF Adding, n
<1>4. ASSUME NEW x \in Nat, NEW i \in 1..n
      PROVE  Adding(segments)[<<x, i>>] = x + segments[i]
  <2>1. <<x, i>> \in Nat \X Nat /\ <<x, i>>[1] = x /\ <<x, i>>[2] = i
    BY <1>1
  <2> QED
    BY <2>1 DEF Adding, n
<1> QED
  BY <1>3, <1>4 DEF n

\* Eaten is the last of its partial sums.
LEMMA EatenIsRun ==
  ASSUME NEW segments \in Seq(Nat \ {0}), NEW k \in 0..Len(segments),
         NEW f \in Runs(Nat, 0, Adding(segments), Len(segments))
  PROVE  Eaten(segments, k) = f[k]
<1> DEFINE n == Len(segments)
           A == Adding(segments)
<1>0. n \in Nat /\ 0 \in Nat
  OBVIOUS
<1>1. A \in [Nat \X Nat -> Nat] /\ \A x \in Nat, i \in 1..n : A[<<x, i>>] = x + segments[i]
  BY AddingAdds
<1> HIDE DEF A
<1>2. f \in [0..n -> Nat] /\ f[0] = 0 /\ \A i \in 1..n : f[i] = A[<<f[i - 1], i>>]
  BY DEF Runs, A
<1> DEFINE h == [i \in 0..k |-> f[i]]
<1>3. EatenOf(segments, k, h)
  <2>1. ASSUME NEW i \in 0..k
        PROVE  h[i] = IF i = 0 THEN 0 ELSE h[i - 1] + segments[i]
    <3>1. CASE i = 0
      BY <1>2, <3>1
    <3>2. CASE i # 0
      <4>1. i \in 1..n /\ i - 1 \in 0..n /\ i - 1 \in 0..k
        BY <1>0, <3>2
      <4>2. f[i - 1] \in Nat /\ f[i] = A[<<f[i - 1], i>>]
        BY <1>2, <4>1
      <4>3. f[i] = f[i - 1] + segments[i]
        BY <1>1, <4>1, <4>2
      <4> QED
        BY <3>2, <4>1, <4>3
    <3> QED
      BY <3>1, <3>2
  <2> QED
    BY <2>1 DEF EatenOf
<1> DEFINE g == CHOOSE u : EatenOf(segments, k, u)
<1>4. EatenOf(segments, k, g)
  BY <1>3
<1>5. Eaten(segments, k) = g[k]
  BY DEF Eaten, EatenOf
<1> HIDE DEF g
<1>6. g[0] = 0 /\ \A i \in 1..k : g[i] = g[i - 1] + segments[i]
  BY <1>4 DEF EatenOf
<1>7. Follows(g, Nat, 0, A, k)
  <2>1. \A i \in 1..k : i \in 1..n
    BY <1>0
  <2> HIDE DEF n
  <2>2. ASSUME NEW i \in 1..k, g[i - 1] \in Nat
        PROVE  g[i] = A[<<g[i - 1], i>>]
    BY <1>1, <1>6, <2>1, <2>2
  <2> QED
    BY <1>6, <2>2 DEF Follows
<1>8. f \in Runs(Nat, 0, A, n) /\ k \in 0..n
  BY DEF A
<1> HIDE DEF n
<1>9. Agree(f, g, k)
  BY <1>0, <1>7, <1>8, RunsAgree
<1> QED
  BY <1>5, <1>9 DEF Agree

\* The bits read, level by level.
LEMMA EatenStep ==
  ASSUME NEW segments \in Seq(Nat \ {0})
  PROVE  /\ Eaten(segments, 0) = 0
         /\ \A k \in 0..Len(segments) : Eaten(segments, k) \in Nat
         /\ \A k \in 1..Len(segments) :
              Eaten(segments, k) = Eaten(segments, k - 1) + segments[k]
<1> DEFINE n == Len(segments)
           A == Adding(segments)
<1>0. n \in Nat /\ 0 \in Nat
  OBVIOUS
<1>1. A \in [Nat \X Nat -> Nat] /\ \A x \in Nat, i \in 1..n : A[<<x, i>>] = x + segments[i]
  BY AddingAdds
<1>2. PICK f : f \in Runs(Nat, 0, A, n)
  <2> HIDE DEF A, n
  <2> QED
    BY <1>0, <1>1, RunExists
<1>3. \A k \in 0..n : Eaten(segments, k) = f[k]
  BY <1>2, EatenIsRun
<1> HIDE DEF A
<1>4. f \in [0..n -> Nat] /\ f[0] = 0 /\ \A i \in 1..n : f[i] = A[<<f[i - 1], i>>]
  BY <1>2 DEF Runs
<1>5. ASSUME NEW k \in 1..n
      PROVE  Eaten(segments, k) = Eaten(segments, k - 1) + segments[k]
  <2>1. k \in 0..n /\ k - 1 \in 0..n
    BY <1>0
  <2>2. f[k - 1] \in Nat /\ f[k] = A[<<f[k - 1], k>>]
    BY <1>4, <2>1
  <2>3. f[k] = f[k - 1] + segments[k]
    BY <1>1, <2>2
  <2> QED
    BY <1>3, <2>1, <2>3
<1>6. ASSUME NEW k \in 0..n
      PROVE  Eaten(segments, k) \in Nat
  <2>1. f[k] \in Nat
    BY <1>4
  <2> QED
    BY <1>3, <2>1
<1>7. Eaten(segments, 0) = 0
  <2>1. 0 \in 0..n
    BY <1>0
  <2> QED
    BY <1>3, <1>4, <2>1
<1> QED
  BY <1>5, <1>6, <1>7

\* The deeper, the more bits.
LEMMA EatenGrows ==
  ASSUME NEW segments \in Seq(Nat \ {0})
  PROVE  \A j, k \in 0..Len(segments) : j < k => Eaten(segments, j) < Eaten(segments, k)
<1> DEFINE n == Len(segments)
           T == {k \in Nat : k <= n => \A j \in 0..n : j < k => Eaten(segments, j) < Eaten(segments, k)}
<1>0. n \in Nat /\ \A i \in 1..n : segments[i] \in Nat \ {0}
  OBVIOUS
<1>1. 0 \in T
  BY <1>0
<1>2. ASSUME NEW k \in Nat, k \in T
      PROVE  k + 1 \in T
  <2> SUFFICES ASSUME k + 1 <= n, NEW j \in 0..n, j < k + 1
               PROVE  Eaten(segments, j) < Eaten(segments, k + 1)
    OBVIOUS
  <2>1. k + 1 \in 1..n /\ k \in 0..n /\ (k + 1) - 1 = k
    OBVIOUS
  <2>2. Eaten(segments, k + 1) = Eaten(segments, k) + segments[k + 1]
    BY <2>1, EatenStep
  <2>3. Eaten(segments, k) \in Nat /\ segments[k + 1] \in Nat \ {0} /\ Eaten(segments, j) \in Nat
    BY <1>0, <2>1, EatenStep
  <2>4. j # k => Eaten(segments, j) < Eaten(segments, k)
    BY <1>0, <1>2, <2>1
  <2> QED
    BY <2>2, <2>3, <2>4
<1> HIDE DEF T
<1>3. \A k \in Nat : k \in T
  BY <1>1, <1>2, Induction
<1> QED
  BY <1>0, <1>3 DEF T

\* Two addresses take the same way exactly if they have the same bits on it.
LEMMA PathBits ==
  ASSUME NEW a \in Seq(Bytes), NEW b \in Seq(Bytes), Len(a) = Len(b),
         NEW segments \in Seq(Nat \ {0}), NEW k \in 0..Len(segments),
         Eaten(segments, k) <= ByteBits * Len(a)
  PROVE  PathOf(a, segments, k) = PathOf(b, segments, k)
           <=> SameBits(a, b, 0, Eaten(segments, k))
<1> DEFINE n == Len(segments)
           E(i) == Eaten(segments, i)
           m == ByteBits * Len(a)
<1>0. n \in Nat /\ \A i \in 1..n : segments[i] \in Nat \ {0}
  OBVIOUS
<1>1. /\ E(0) = 0 /\ \A i \in 0..n : E(i) \in Nat
      /\ \A i \in 1..n : E(i) = E(i - 1) + segments[i]
  BY EatenStep
<1>2. \A i, j \in 0..n : i < j => E(i) < E(j)
  BY EatenGrows
<1>3. m \in Nat
  BY AddressesHaveBytes
<1>4. ASSUME NEW i \in 1..k
      PROVE  MaskedValue(a, E(i - 1), segments[i]) = MaskedValue(b, E(i - 1), segments[i])
               <=> SameBits(a, b, E(i - 1), E(i))
  <2>1. i \in 1..n /\ i - 1 \in 0..n /\ i \in 0..n /\ k \in 0..n
    BY <1>0
  <2> HIDE DEF E, n
  <2>2. E(i) = E(i - 1) + segments[i] /\ E(i - 1) \in Nat /\ segments[i] \in Nat
    BY <1>0, <1>1, <2>1
  <2>3. E(i) <= E(k)
    <3>1. i = k \/ i < k
      BY <2>1
    <3>2. E(i) \in Nat /\ E(k) \in Nat
      BY <1>1, <2>1
    <3> QED
      BY <1>2, <2>1, <3>1, <3>2
  <2>4. E(i - 1) + segments[i] <= m
    <3>1. E(k) <= m /\ E(k) \in Nat
      BY <1>1, <2>1 DEF E
    <3> HIDE DEF m
    <3> QED
      BY <1>1, <1>3, <2>1, <2>2, <2>3, <3>1
  <2> DEFINE o == E(i - 1)
             l == segments[i]
  <2>5. o \in Nat /\ l \in Nat /\ o + l <= ByteBits * Len(a)
    BY <2>2, <2>4
  <2> HIDE DEF o, l
  <2>6. MaskedValue(a, o, l) = MaskedValue(b, o, l) <=> SameBits(a, b, o, o + l)
    BY <2>5, MaskedBits
  <2> QED
    BY <2>2, <2>6 DEF o, l
<1> HIDE DEF E, n, m
<1>5. PathOf(a, segments, k) = PathOf(b, segments, k)
        <=> \A i \in 1..k : SameBits(a, b, E(i - 1), E(i))
  <2>1. PathOf(a, segments, k) = [i \in 1..k |-> MaskedValue(a, E(i - 1), segments[i])]
    BY DEF PathOf, E
  <2>2. PathOf(b, segments, k) = [i \in 1..k |-> MaskedValue(b, E(i - 1), segments[i])]
    BY DEF PathOf, E
  <2>3. PathOf(a, segments, k) = PathOf(b, segments, k)
          <=> \A i \in 1..k : MaskedValue(a, E(i - 1), segments[i]) = MaskedValue(b, E(i - 1), segments[i])
    BY <2>1, <2>2
  <2> QED
    BY <1>4, <2>3
<1>6. k \in 0..n
  BY DEF n
<1>7. ASSUME SameBits(a, b, 0, E(k)), NEW i \in 1..k
      PROVE  SameBits(a, b, E(i - 1), E(i))
  <2>1. i - 1 \in 0..n /\ i \in 0..n
    BY <1>0, <1>6
  <2>2. E(i - 1) \in Nat /\ E(i) \in Nat /\ E(k) \in Nat /\ E(i) <= E(k)
    <3>1. i = k \/ i < k
      BY <1>6
    <3>2. E(i - 1) \in Nat /\ E(i) \in Nat /\ E(k) \in Nat
      BY <1>1, <1>6, <2>1
    <3> QED
      BY <1>2, <1>6, <2>1, <3>1, <3>2
  <2> QED
    BY <1>7, <2>2 DEF SameBits
<1>8. ASSUME \A i \in 1..k : SameBits(a, b, E(i - 1), E(i)), NEW p \in 0..(E(k) - 1)
      PROVE  BitOf(a, p) = BitOf(b, p)
  <2> DEFINE U == {i \in 0..k : p < E(i)}
  <2>1. E(k) \in Nat /\ p < E(k) /\ k \in Nat
    BY <1>0, <1>1, <1>6
  <2>2. k \in U /\ U \subseteq Nat
    BY <2>1
  <2>3. PICK i \in U : \A j \in U : i <= j
    <3> HIDE DEF U
    <3> QED
      BY <2>2, LeastElement
  <2>4. i \in 1..k /\ p < E(i)
    BY <1>1, <2>3
  <2>5. i - 1 \in 0..k /\ i - 1 \notin U /\ i - 1 \in 0..n /\ i \in 0..n
    BY <1>0, <1>6, <2>3, <2>4
  <2>6. E(i - 1) \in Nat /\ E(i) \in Nat /\ ~(p < E(i - 1))
    BY <1>1, <2>5
  <2>7. p \in E(i - 1)..(E(i) - 1)
    BY <2>1, <2>4, <2>6
  <2> QED
    BY <1>8, <2>4, <2>7 DEF SameBits
<1>9. SameBits(a, b, 0, E(k)) <=> \A i \in 1..k : SameBits(a, b, E(i - 1), E(i))
  <2>1. SameBits(a, b, 0, E(k)) <=> \A p \in 0..(E(k) - 1) : BitOf(a, p) = BitOf(b, p)
    BY DEF SameBits
  <2> QED
    BY <1>7, <1>8, <2>1
<1> QED
  BY <1>5, <1>9 DEF E

----------------------------------------------------------------------------
(* The level of a route; of at most two routes, each is put at its length. *)

\* A sequence of two.
LEMMA PairAppend == \A a, b \in Nat : Append(<<a>>, b) = <<a, b>>
<1> SUFFICES ASSUME NEW a \in Nat, NEW b \in Nat
             PROVE  Append(<<a>>, b) = <<a, b>>
  OBVIOUS
<1> DEFINE s == <<a>>
           t == Append(s, b)
           u == <<a, b>>
<1>1. s \in Seq(Nat) /\ Len(s) = 1 /\ s[1] = a
  OBVIOUS
<1>2. u \in Seq(Nat) /\ Len(u) = 2 /\ u[1] = a /\ u[2] = b
  OBVIOUS
<1> HIDE DEF s, u
<1>3. t \in Seq(Nat) /\ Len(t) = 2 /\ t[1] = a /\ t[2] = b
  <2>1. t \in Seq(Nat) /\ Len(t) = Len(s) + 1
    BY <1>1, AppendProperties
  <2>2. \A i \in 1..Len(s) : t[i] = s[i]
    BY <1>1, AppendProperties
  <2>3. t[Len(s) + 1] = b
    BY <1>1, AppendProperties, Zenon
  <2> HIDE DEF t
  <2> QED
    BY <1>1, <2>1, <2>2, <2>3
<1> HIDE DEF t
<1>4. t = u
  <2>1. \A i \in 1..2 : t[i] = u[i]
    <3>1. \A i \in 1..2 : i = 1 \/ i = 2
      OBVIOUS
    <3> QED
      BY <1>2, <1>3, <3>1
  <2> QED
    BY <1>2, <1>3, <2>1, SeqEqual
<1> QED
  BY <1>4 DEF s, t, u

\* A route is put where the bits read last lie within its prefix.
LEMMA LevelFacts ==
  ASSUME NEW segments \in Seq(Nat \ {0}), NEW r, r.len \in Nat
  PROVE  /\ LevelOf(r, segments) \in 0..Len(segments)
         /\ Eaten(segments, LevelOf(r, segments)) <= r.len
         /\ \A k \in 0..Len(segments) : Eaten(segments, k) <= r.len => k <= LevelOf(r, segments)
<1> DEFINE n == Len(segments)
           T == {k \in 0..n : Eaten(segments, k) <= r.len}
<1>1. n \in Nat /\ Eaten(segments, 0) = 0
  BY EatenStep
<1>2. 0 \in T /\ T \subseteq 0..n
  BY <1>1
<1>3. LevelOf(r, segments) = Max(T)
  BY DEF LevelOf
<1>4. Max(T) \in T /\ \A k \in T : k <= Max(T)
  <2> HIDE DEF T, n
  <2> QED
    BY <1>1, <1>2, GreatestElement
<1> QED
  BY <1>3, <1>4

ReadsUpTo(segments, l) == \E k \in 0..Len(segments) : Eaten(segments, k) = l

\* A route whose length is read is put where exactly its prefix has been read.
LEMMA LevelIsExact ==
  ASSUME NEW segments \in Seq(Nat \ {0}), NEW r, r.len \in Nat, ReadsUpTo(segments, r.len)
  PROVE  Eaten(segments, LevelOf(r, segments)) = r.len
<1> DEFINE L == LevelOf(r, segments)
<1>1. L \in 0..Len(segments) /\ Eaten(segments, L) <= r.len
      /\ \A k \in 0..Len(segments) : Eaten(segments, k) <= r.len => k <= L
  BY LevelFacts
<1>2. PICK k \in 0..Len(segments) : Eaten(segments, k) = r.len
  BY DEF ReadsUpTo
<1> HIDE DEF L
<1>3. k <= L
  BY <1>1, <1>2
<1>4. k = L \/ Eaten(segments, k) < Eaten(segments, L)
  <2>1. k = L \/ k < L
    BY <1>1, <1>3
  <2> QED
    BY <1>1, <2>1, EatenGrows
<1>5. Eaten(segments, L) \in Nat
  BY <1>1, EatenStep
<1>6. Eaten(segments, L) = r.len
  BY <1>1, <1>2, <1>4, <1>5
<1> QED
  BY <1>6 DEF L

\* No segment, one, two: what can be read.
LEMMA ReadsOfFew ==
  /\ ReadsUpTo(<<>>, 0)
  /\ \A x \in Nat \ {0} : ReadsUpTo(<<x>>, 0) /\ ReadsUpTo(<<x>>, x)
  /\ \A x, y \in Nat \ {0} : /\ ReadsUpTo(<<x, y>>, x)
                            /\ ReadsUpTo(<<x, y>>, x + y)
<1>1. ReadsUpTo(<<>>, 0)
  <2>1. <<>> \in Seq(Nat \ {0}) /\ 0 \in 0..Len(<<>>)
    OBVIOUS
  <2>2. Eaten(<<>>, 0) = 0
    BY <2>1, EatenStep
  <2> QED
    BY <2>1, <2>2 DEF ReadsUpTo
<1>2. ASSUME NEW x \in Nat \ {0}
      PROVE  ReadsUpTo(<<x>>, 0) /\ ReadsUpTo(<<x>>, x)
  <2> DEFINE s == <<x>>
  <2>1. s \in Seq(Nat \ {0}) /\ Len(s) = 1 /\ s[1] = x
    OBVIOUS
  <2> HIDE DEF s
  <2>2. Eaten(s, 0) = 0 /\ \A k \in 1..1 : Eaten(s, k) = Eaten(s, k - 1) + s[k]
    BY <2>1, EatenStep
  <2>3. Eaten(s, 1) = x
    BY <2>1, <2>2
  <2>4. 0 \in 0..Len(s) /\ 1 \in 0..Len(s)
    BY <2>1
  <2>5. ReadsUpTo(s, 0) /\ ReadsUpTo(s, x)
    BY <2>2, <2>3, <2>4 DEF ReadsUpTo
  <2> QED
    BY <2>5 DEF s
<1>3. ASSUME NEW x \in Nat \ {0}, NEW y \in Nat \ {0}
      PROVE  ReadsUpTo(<<x, y>>, x) /\ ReadsUpTo(<<x, y>>, x + y)
  <2> DEFINE s == <<x, y>>
  <2>1. s \in Seq(Nat \ {0}) /\ Len(s) = 2 /\ s[1] = x /\ s[2] = y
    OBVIOUS
  <2> HIDE DEF s
  <2>2. Eaten(s, 0) = 0 /\ \A k \in 1..2 : Eaten(s, k) = Eaten(s, k - 1) + s[k]
    BY <2>1, EatenStep
  <2>3. Eaten(s, 1) = x /\ Eaten(s, 2) = x + y
    BY <2>1, <2>2
  <2>4. 1 \in 0..Len(s) /\ 2 \in 0..Len(s)
    BY <2>1
  <2>5. ReadsUpTo(s, x) /\ ReadsUpTo(s, x + y)
    BY <2>3, <2>4 DEF ReadsUpTo
  <2> QED
    BY <2>5 DEF s
<1> QED
  BY <1>1, <1>2, <1>3

\* The table of at most two routes reads the length of each.
LEMMA TwoAreExact ==
  ASSUME NEW X, NEW routes \in Seq(X), HasLens(routes), Len(routes) <= 2
  PROVE  \A i \in 1..Len(routes) : ReadsUpTo(SegmentLengths(routes), routes[i].len)
<1> DEFINE n == Len(routes)
           lens == LensOf(routes)
           s == SortedBy(lens, lens)
           segments == SegmentLengths(routes)
<1>5. n \in 0..2
  <2>1. Len(routes) \in Nat
    OBVIOUS
  <2>2. \A k \in Nat : k <= 2 => k \in 0..2
    OBVIOUS
  <2> QED
    BY <2>1, <2>2, Zenon
<1>1. lens \in Seq(Nat) /\ Len(lens) = n /\ s \in Seq(Nat)
  BY SegmentsAre
<1>2. PICK d : IsDiff(s, d) /\ segments = Only(d, Positive(d))
  BY SegmentsAre
<1>3. PICK at : IsSortOf(s, lens, lens, at)
  <2>1. \A i \in 1..Len(lens) : lens[i] \in Int
    BY <1>1
  <2> HIDE DEF lens
  <2> QED
    BY <1>1, <2>1, SortedByOrder DEF lens
<1>4. \A i \in 1..n : lens[i] = routes[i].len
  BY DEF LensOf
<1> HIDE DEF lens, s, segments
<1>6. /\ at \in [1..n -> 1..n] /\ s = [i \in 1..n |-> lens[at[i]]]
      /\ \A j \in 1..n : \E i \in 1..n : at[i] = j
      /\ \A i, j \in 1..n : i < j => lens[at[i]] <= lens[at[j]]
  BY <1>1, <1>3 DEF IsSortOf
<1> HIDE DEF n
<1>7. Len(s) = n /\ \A i \in 1..n : s[i] = lens[at[i]] /\ s[i] \in Nat
  <2>1. \A i \in 1..n : lens[i] \in Nat
    BY <1>1
  <2>2. \A i \in 1..n : at[i] \in 1..n
    BY <1>6
  <2>3. \A i \in 1..n : s[i] = lens[at[i]] /\ s[i] \in Nat
    BY <1>6, <2>1, <2>2
  <2>4. s \in Seq(Nat) /\ DOMAIN s = 1..n
    BY <1>1, <1>6
  <2>5. Len(s) = n
    BY <1>5, <2>4
  <2> QED
    BY <2>3, <2>5
<1>8. /\ d \in Seq(Int) /\ Len(d) = n
      /\ \A i \in 1..n : d[i] = IF i = 1 THEN s[1] ELSE s[i] - d[i - 1]
  BY <1>2, <1>7 DEF IsDiff
<1> SUFFICES ASSUME NEW j \in 1..n
             PROVE  ReadsUpTo(segments, lens[j])
  BY <1>4 DEF segments, n
<1>9. PICK i \in 1..n : s[i] = lens[j]
  BY <1>6, <1>7
<1>10. n = 1 \/ n = 2
  BY <1>5
<1> DEFINE x == s[1]
<1>11. x \in Nat /\ d[1] = x
  <2>1. 1 \in 1..n
    BY <1>10
  <2> QED
    BY <1>7, <1>8, <2>1
<1> DEFINE P == Positive(d)
<1>12. \A k \in 1..n : d[k] \in P <=> d[k] > 0
  <2> SUFFICES ASSUME NEW k \in 1..n
               PROVE  d[k] \in P <=> d[k] > 0
    OBVIOUS
  <2>1. DOMAIN d = 1..n
    BY <1>8
  <2>2. d[k] \in ToSet(d)
    BY <2>1 DEF ToSet
  <2> QED
    BY <2>2 DEF Positive
<1> HIDE DEF P, x
<1>13. Only(<<x>>, P) = IF x > 0 THEN <<x>> ELSE <<>>
  <2>1. 1 \in 1..n
    BY <1>10
  <2>2. x \in P <=> x > 0
    BY <1>11, <1>12, <2>1
  <2> QED
    BY <2>2, OnlyOne
<1>14. CASE n = 1
  <2>1. d = <<x>>
    BY <1>8, <1>11, <1>14
  <2>2. segments = IF x > 0 THEN <<x>> ELSE <<>>
    BY <1>2, <1>13, <2>1 DEF P
  <2>3. lens[j] = x
    BY <1>9, <1>14 DEF x
  <2>4. CASE x = 0
    BY <2>2, <2>3, <2>4, ReadsOfFew
  <2>5. CASE x # 0
    <3>1. x \in Nat \ {0} /\ segments = <<x>>
      BY <1>11, <2>2, <2>5
    <3> QED
      BY <2>3, <3>1, ReadsOfFew
  <2> QED
    BY <2>4, <2>5
<1>15. CASE n = 2
  <2> DEFINE y == s[2] - x
  <2>1. d[2] = y /\ s[2] \in Nat /\ x <= s[2] /\ y \in Nat /\ s[2] = x + y
    <3>1. 1 \in 1..n /\ 2 \in 1..n
      BY <1>15
    <3>2. d[2] = s[2] - d[1] /\ s[2] \in Nat
      BY <1>7, <1>8, <3>1
    <3>3. s[1] <= s[2]
      BY <1>6, <1>7, <3>1
    <3> QED
      BY <1>11, <3>2, <3>3 DEF x
  <2> HIDE DEF y
  <2>2. d = Append(<<x>>, y)
    BY <1>8, <1>11, <1>15, <2>1
  <2>3. y \in P <=> y > 0
    BY <1>12, <1>15, <2>1
  <2>4. segments = IF y > 0 THEN Append(Only(<<x>>, P), y) ELSE Only(<<x>>, P)
    <3>1. <<x>> \in Seq(Nat) /\ y \in Nat
      BY <1>11, <2>1
    <3>2. Only(Append(<<x>>, y), P) = IF y \in P THEN Append(Only(<<x>>, P), y) ELSE Only(<<x>>, P)
      BY <3>1, OnlyAppend
    <3>3. segments = Only(Append(<<x>>, y), P)
      BY <1>2, <2>2 DEF P
    <3> QED
      BY <2>3, <3>2, <3>3
  <2>5. lens[j] = x \/ lens[j] = x + y
    <3>1. i = 1 \/ i = 2
      BY <1>9, <1>15
    <3> QED
      BY <1>9, <2>1, <3>1 DEF x
  <2>6. CASE y = 0
    <3>1. segments = (IF x > 0 THEN <<x>> ELSE <<>>) /\ lens[j] = x
      BY <1>11, <1>13, <2>4, <2>5, <2>6
    <3>2. CASE x = 0
      BY <3>1, <3>2, ReadsOfFew
    <3>3. CASE x # 0
      <4>1. x \in Nat \ {0} /\ segments = <<x>>
        BY <1>11, <3>1, <3>3
      <4> QED
        BY <3>1, <4>1, ReadsOfFew
    <3> QED
      BY <3>2, <3>3
  <2>7. CASE y # 0 /\ x = 0
    <3>1. segments = <<y>> /\ y \in Nat \ {0}
      BY <1>13, <2>1, <2>4, <2>7
    <3>2. lens[j] = 0 \/ lens[j] = y
      BY <2>1, <2>5, <2>7
    <3> QED
      BY <3>1, <3>2, ReadsOfFew
  <2>8. CASE y # 0 /\ x # 0
    <3>0. Append(<<x>>, y) = <<x, y>>
      <4>1. x \in Nat /\ y \in Nat
        BY <1>11, <2>1
      <4> QED
        BY <4>1, PairAppend
    <3>1. segments = <<x, y>> /\ x \in Nat \ {0} /\ y \in Nat \ {0}
      <4>1. x > 0 /\ y > 0
        BY <1>11, <2>1, <2>8
      <4>2. segments = Append(<<x>>, y)
        BY <1>13, <2>4, <4>1
      <4> QED
        BY <1>11, <2>1, <3>0, <4>1, <4>2
    <3> QED
      BY <2>5, <3>1, ReadsOfFew
  <2> QED
    BY <2>6, <2>7, <2>8
<1> QED
  BY <1>10, <1>14, <1>15

----------------------------------------------------------------------------
(* The lookups: ClassifyInv is inductive, and gives FieldIsLabelled.       *)

\* The lists hold descriptors of the files.
ClassifyInv ==
  /\ networkList \in Seq(RouteChoices)
  /\ domainList \in Seq(ZoneChoices)

EmptyList(s) == s = <<>>

\* A sequence without elements is empty.
LEMMA EmptyRange ==
  ASSUME NEW X, NEW s \in Seq(X)
  PROVE  EmptyList(s) <=> ToSet(s) = {}
<1>1. DOMAIN s = 1..Len(s) /\ Len(s) \in Nat
  OBVIOUS
<1>2. ASSUME s = <<>>
      PROVE  ToSet(s) = {}
  BY <1>2 DEF ToSet
<1>3. ASSUME ToSet(s) = {}
      PROVE  s = <<>>
  <2>1. ASSUME Len(s) # 0
        PROVE  FALSE
    <3>1. 1 \in DOMAIN s
      BY <1>1, <2>1
    <3> QED
      BY <1>3, <3>1 DEF ToSet
  <2> QED
    BY <2>1, EmptySeq
<1> QED
  BY <1>2, <1>3 DEF EmptyList

NodeOf(segments, r) == PathOf(r.addr, segments, LevelOf(r, segments))

\* The levels on the way of an address where there are routes, and those of one.
LevelsOf(F, address) ==
  LET segments == SegmentLengths(F)
  IN {k \in 0..Len(segments) :
        PathOf(address.addr, segments, k) \in {NodeOf(segments, r) : r \in ToSet(F)}}

RoutesAt(F, address, k) ==
  LET segments == SegmentLengths(F)
  IN {r \in ToSet(F) : NodeOf(segments, r) = PathOf(address.addr, segments, k)}

\* What doLookup finds, without the table.
LEMMA LookupIs ==
  ASSUME NEW routes, NEW address,
         NEW F, F = FamilyRoutes(routes, address.family),
         SegmentLengths(F) \in Seq(Nat \ {0})
  PROVE  LookupRoutes(routes, address)
           = IF LevelsOf(F, address) = {} THEN <<>>
             ELSE Only(F, RoutesAt(F, address, Max(LevelsOf(F, address))))
<1> DEFINE segments == SegmentLengths(F)
           node(r) == PathOf(r.addr, segments, LevelOf(r, segments))
           nodes == {node(F[i]) : i \in DOMAIN F}
           list == [n \in nodes |-> Only(F, {r \in ToSet(F) : node(r) = n})]
           D == LevelsOf(F, address)
           path(k) == PathOf(address.addr, segments, k)
<1>1. BuildTable(F) = [segments |-> segments, routes |-> list]
  BY DEF BuildTable
<1> HIDE DEF list
<1>2. BuildTable(F).segments = segments /\ BuildTable(F).routes = list
  BY <1>1
<1>3. DOMAIN list = nodes /\ \A n \in nodes : list[n] = Only(F, {r \in ToSet(F) : node(r) = n})
  BY DEF list
<1>4. nodes = {NodeOf(segments, r) : r \in ToSet(F)}
  BY DEF NodeOf, ToSet
<1> HIDE DEF nodes, node
<1>5. D = {k \in 0..Len(segments) : path(k) \in nodes}
  BY <1>4 DEF LevelsOf
<1>6. LookupRoutes(routes, address)
        = IF {k \in 0..Len(segments) : path(k) \in nodes} = {} THEN <<>>
          ELSE list[path(Max({k \in 0..Len(segments) : path(k) \in nodes}))]
  <2>1. LookupRoutes(routes, address)
          = LET table == BuildTable(F)
                depths == {k \in 0..Len(table.segments) :
                             PathOf(address.addr, table.segments, k) \in DOMAIN table.routes}
            IN IF depths = {} THEN <<>>
               ELSE table.routes[PathOf(address.addr, table.segments, Max(depths))]
    BY DEF LookupRoutes
  <2> HIDE DEF segments
  <2> QED
    BY <1>2, <1>3, <2>1
<1> HIDE DEF D
<1>7. LookupRoutes(routes, address) = IF D = {} THEN <<>> ELSE list[path(Max(D))]
  BY <1>5, <1>6, Zenon
<1>8. CASE D # {}
  <2>1. Len(segments) \in Nat
    OBVIOUS
  <2>2. D \subseteq 0..Len(segments)
    BY <1>5
  <2> HIDE DEF segments
  <2>3. Max(D) \in D
    BY <1>8, <2>1, <2>2, GreatestElement
  <2>4. path(Max(D)) \in nodes
    BY <1>5, <2>3
  <2>5. list[path(Max(D))] = Only(F, {r \in ToSet(F) : node(r) = path(Max(D))})
    BY <1>3, <2>4
  <2>6. {r \in ToSet(F) : node(r) = path(Max(D))} = RoutesAt(F, address, Max(D))
    BY DEF RoutesAt, node, NodeOf, segments
  <2> QED
    BY <1>7, <1>8, <2>5, <2>6 DEF D
<1>9. CASE D = {}
  BY <1>7, <1>9 DEF D
<1> QED
  BY <1>8, <1>9

\* What is known of the routes of the family of an address.
FamilyOf(F, address) ==
  /\ F \in Seq(RouteChoices)
  /\ ToSet(F) = {r \in ToSet(networkList) : r.family = address.family}
  /\ SegmentLengths(F) \in Seq(Nat \ {0})
  /\ \A r \in ToSet(F) : /\ r.addr \in Seq(Bytes) /\ Len(r.addr) = Len(address.addr)
                         /\ r.len \in Nat /\ r.len <= ByteBits * Len(r.addr)
  /\ address.addr \in Seq(Bytes)
  /\ Len(F) <= 2 => \A r \in ToSet(F) : ReadsUpTo(SegmentLengths(F), r.len)

\* FamilyOf holds of the routes of every typed address.
LEMMA FamilyFacts ==
  ASSUME ClassifyInv, NEW address \in TypedAddresses
  PROVE  FamilyOf(FamilyRoutes(networkList, address.family), address)
<1> DEFINE P == {r \in ToSet(networkList) : r.family = address.family}
           F == FamilyRoutes(networkList, address.family)
<1>1. networkList \in Seq(RouteChoices)
  BY DEF ClassifyInv
<1>2. F = Only(networkList, P)
  BY DEF FamilyRoutes
<1>3. F \in Seq(RouteChoices) /\ ToSet(F) = P
  <2>1. F \in Seq(RouteChoices)
    BY <1>1, <1>2, OnlyInSeq
  <2>2. ToSet(F) = ToSet(networkList) \cap P
    BY <1>1, <1>2, OnlyRange
  <2> QED
    BY <2>1, <2>2
<1> HIDE DEF F
<1>4. address.addr \in Seq(Bytes)
  BY AddressesHaveBytes
<1>5. ASSUME NEW r \in ToSet(F)
      PROVE  /\ r.addr \in Seq(Bytes) /\ Len(r.addr) = Len(address.addr)
             /\ r.len \in Nat /\ r.len <= ByteBits * Len(r.addr)
  <2>1. ToSet(F) \subseteq RouteChoices
    BY <1>3 DEF ToSet
  <2>2. r \in RouteChoices /\ r.family = address.family
    BY <1>3, <2>1
  <2>3. r.addr \in Seq(Bytes) /\ r.len \in 0..(ByteBits * Len(r.addr))
    BY <2>2, AddressesHaveBytes
  <2>4. Len(r.addr) = Len(address.addr)
    BY <2>2, AddressesHaveBytes
  <2>5. ByteBits * Len(r.addr) \in Nat
    <3>1. ByteBits \in Nat /\ Len(r.addr) \in Nat
      BY <2>3, AddressesHaveBytes
    <3> QED
      BY <3>1
  <2> QED
    BY <2>3, <2>4, <2>5
<1>6. \A i \in 1..Len(F) : F[i] \in ToSet(F)
  BY <1>3 DEF ToSet
<1>7. HasLens(F)
  BY <1>5, <1>6 DEF HasLens
<1>8. SegmentLengths(F) \in Seq(Nat \ {0})
  BY <1>3, <1>7, SegmentsTyped
<1>9. ASSUME Len(F) <= 2, NEW r \in ToSet(F)
      PROVE  ReadsUpTo(SegmentLengths(F), r.len)
  <2>1. PICK i \in 1..Len(F) : F[i] = r
    BY <1>3 DEF ToSet
  <2> QED
    BY <1>3, <1>7, <1>9, <2>1, TwoAreExact
<1> QED
  BY <1>3, <1>4, <1>5, <1>8, <1>9 DEF FamilyOf, F

\* A route covers an address exactly if they agree in the bits of its prefix.
LEMMA CoversIsSame ==
  ASSUME NEW r, NEW address, r.family = address.family
  PROVE  Covers(r, address) <=> SameBits(r.addr, address.addr, 0, r.len)
BY DEF Covers, SameBits

\* The way of an address leads to the node of a route at its level, if they agree
\* that far, and at no other.
LEMMA NodeIsReached ==
  ASSUME NEW F, NEW address, FamilyOf(F, address), NEW r \in ToSet(F),
         NEW k \in 0..Len(SegmentLengths(F))
  PROVE  NodeOf(SegmentLengths(F), r) = PathOf(address.addr, SegmentLengths(F), k)
           <=> /\ k = LevelOf(r, SegmentLengths(F))
               /\ SameBits(r.addr, address.addr, 0, Eaten(SegmentLengths(F), k))
<1> DEFINE segments == SegmentLengths(F)
           L == LevelOf(r, segments)
<1>1. /\ segments \in Seq(Nat \ {0}) /\ address.addr \in Seq(Bytes)
      /\ r.addr \in Seq(Bytes) /\ Len(r.addr) = Len(address.addr)
      /\ r.len \in Nat /\ r.len <= ByteBits * Len(r.addr)
  BY DEF FamilyOf
<1>2. L \in 0..Len(segments) /\ Eaten(segments, L) <= r.len
  BY <1>1, LevelFacts
<1>3. NodeOf(segments, r) = PathOf(r.addr, segments, L)
  BY DEF NodeOf
<1>4. k \in 0..Len(segments) /\ Len(segments) \in Nat
  BY <1>1
<1> HIDE DEF segments, L
<1>5. DOMAIN PathOf(r.addr, segments, L) = 1..L /\ DOMAIN PathOf(address.addr, segments, k) = 1..k
  BY DEF PathOf
<1>6. 1..L = 1..k => k = L
  BY <1>2, <1>4
<1>7. ASSUME k = L
      PROVE  PathOf(r.addr, segments, L) = PathOf(address.addr, segments, k)
               <=> SameBits(r.addr, address.addr, 0, Eaten(segments, k))
  <2>1. Eaten(segments, L) \in Nat /\ ByteBits * Len(r.addr) \in Nat
    <3>1. Eaten(segments, L) \in Nat
      BY <1>1, <1>2, EatenStep
    <3>2. ByteBits \in Nat /\ Len(r.addr) \in Nat
      BY <1>1, AddressesHaveBytes
    <3> QED
      BY <3>1, <3>2
  <2> DEFINE m == ByteBits * Len(r.addr)
  <2>2. Eaten(segments, L) <= m
    <3>1. m \in Nat /\ r.len <= m
      BY <1>1, <2>1
    <3> HIDE DEF m
    <3> QED
      BY <1>1, <1>2, <2>1, <3>1
  <2>3. PathOf(r.addr, segments, L) = PathOf(address.addr, segments, L)
          <=> SameBits(r.addr, address.addr, 0, Eaten(segments, L))
    BY <1>1, <1>2, <2>2, PathBits
  <2> QED
    BY <1>7, <2>3
<1>8. NodeOf(segments, r) = PathOf(address.addr, segments, k)
        <=> /\ k = L
            /\ SameBits(r.addr, address.addr, 0, Eaten(segments, k))
  BY <1>3, <1>5, <1>6, <1>7
<1> QED
  BY <1>8 DEF segments, L

\* The descriptors that cover an address, and the most specific of them.
Covering(address) == {r \in ToSet(networkList) : Covers(r, address)}

Longest(address) == {r \in Covering(address) : \A q \in Covering(address) : q.len <= r.len}

\* LongestMatch keeps the most specific of those that cover the address.
LEMMA BestIs ==
  ASSUME ClassifyInv, NEW address
  PROVE  LongestMatch(networkList, address) = Only(networkList, Longest(address))
<1> DEFINE C == Covering(address)
           covering == Only(networkList, C)
           B == Longest(address)
<1>1. networkList \in Seq(RouteChoices)
  BY DEF ClassifyInv
<1>2. ToSet(covering) = C
  <2>1. ToSet(covering) = ToSet(networkList) \cap C
    BY <1>1, OnlyRange
  <2> QED
    BY <2>1 DEF Covering
<1>3. LongestMatch(networkList, address)
        = Only(covering, {r \in ToSet(covering) : \A q \in ToSet(covering) : q.len <= r.len})
  BY DEF LongestMatch, Covering
<1> HIDE DEF covering
<1>4. {r \in ToSet(covering) : \A q \in ToSet(covering) : q.len <= r.len} = B
  BY <1>2 DEF Longest
<1>5. LongestMatch(networkList, address) = Only(Only(networkList, C), B)
  BY <1>3, <1>4 DEF covering
<1>6. Only(Only(networkList, C), B) = Only(networkList, C \cap B)
  BY <1>1, OnlyBoth
<1>7. C \cap B = B
  BY DEF Longest
<1> QED
  BY <1>5, <1>6, <1>7

\* A route that covers the address is on its way.
LEMMA CoveringIsReached ==
  ASSUME NEW F, NEW address, FamilyOf(F, address), NEW r \in Covering(address)
  PROVE  /\ r \in ToSet(F)
         /\ LevelOf(r, SegmentLengths(F)) \in LevelsOf(F, address)
<1> DEFINE segments == SegmentLengths(F)
           L == LevelOf(r, segments)
<1>1. r \in ToSet(networkList) /\ Covers(r, address) /\ r.family = address.family
  BY DEF Covering, Covers
<1>2. r \in ToSet(F)
  BY <1>1 DEF FamilyOf
<1>3. segments \in Seq(Nat \ {0}) /\ r.len \in Nat
  BY <1>2 DEF FamilyOf
<1>4. L \in 0..Len(segments) /\ Eaten(segments, L) <= r.len /\ Eaten(segments, L) \in Nat
  BY <1>3, LevelFacts, EatenStep
<1>5. SameBits(r.addr, address.addr, 0, r.len)
  BY <1>1, CoversIsSame
<1>6. SameBits(r.addr, address.addr, 0, Eaten(segments, L))
  <2> HIDE DEF L, segments
  <2> QED
    BY <1>3, <1>4, <1>5 DEF SameBits
<1>7. NodeOf(segments, r) = PathOf(address.addr, segments, L)
  BY <1>2, <1>4, <1>6, NodeIsReached
<1>8. L \in LevelsOf(F, address)
  <2> HIDE DEF L, segments
  <2>1. L \in {k \in 0..Len(segments) :
                 PathOf(address.addr, segments, k) \in {NodeOf(segments, q) : q \in ToSet(F)}}
    BY <1>2, <1>4, <1>7
  <2> QED
    BY <2>1 DEF LevelsOf, segments
<1> QED
  BY <1>2, <1>8

\* The levels are bounded, and there is a route at each.
LEMMA LevelsFacts ==
  ASSUME NEW F, NEW address, FamilyOf(F, address)
  PROVE  /\ LevelsOf(F, address) \subseteq 0..Len(SegmentLengths(F))
         /\ \A k \in LevelsOf(F, address) : RoutesAt(F, address, k) # {}
         /\ LevelsOf(F, address) # {} =>
              /\ Max(LevelsOf(F, address)) \in LevelsOf(F, address)
              /\ \A k \in LevelsOf(F, address) : k <= Max(LevelsOf(F, address))
<1> DEFINE n == Len(SegmentLengths(F))
           D == LevelsOf(F, address)
<1>1. n \in Nat
  BY DEF FamilyOf
<1>2. D \subseteq 0..n
  BY DEF LevelsOf
<1>3. \A k \in D : RoutesAt(F, address, k) # {}
  BY DEF LevelsOf, RoutesAt
<1> HIDE DEF D, n
<1>4. D # {} => Max(D) \in D /\ \A k \in D : k <= Max(D)
  BY <1>1, <1>2, GreatestElement
<1> QED
  BY <1>2, <1>3, <1>4 DEF D, n

\* Of at most two, the routes found are the most specific that cover the address.
LEMMA DeepestIsLongest ==
  ASSUME NEW F, NEW address, FamilyOf(F, address), Len(F) <= 2
  PROVE  /\ LevelsOf(F, address) = {} <=> Covering(address) = {}
         /\ LevelsOf(F, address) # {} =>
              RoutesAt(F, address, Max(LevelsOf(F, address))) = Longest(address)
<1> DEFINE segments == SegmentLengths(F)
           L(r) == LevelOf(r, segments)
           D == LevelsOf(F, address)
           C == Covering(address)
           R(k) == RoutesAt(F, address, k)
<1>1. segments \in Seq(Nat \ {0})
  BY DEF FamilyOf
<1>2. ASSUME NEW r \in ToSet(F)
      PROVE  /\ r.len \in Nat /\ L(r) \in 0..Len(segments) /\ Eaten(segments, L(r)) = r.len
             /\ r \in C <=> SameBits(r.addr, address.addr, 0, r.len)
  <2>1. r.len \in Nat /\ ReadsUpTo(segments, r.len)
    BY DEF FamilyOf
  <2>2. r \in ToSet(networkList) /\ r.family = address.family
    BY DEF FamilyOf
  <2>3. L(r) \in 0..Len(segments) /\ Eaten(segments, L(r)) = r.len
    BY <1>1, <2>1, LevelFacts, LevelIsExact
  <2>4. r \in C <=> SameBits(r.addr, address.addr, 0, r.len)
    BY <2>2, CoversIsSame DEF Covering
  <2> QED
    BY <2>1, <2>3, <2>4
<1>3. ASSUME NEW k \in 0..Len(segments), NEW r \in ToSet(F)
      PROVE  r \in R(k) <=> k = L(r) /\ r \in C
  <2>1. NodeOf(segments, r) = PathOf(address.addr, segments, k)
          <=> k = L(r) /\ SameBits(r.addr, address.addr, 0, Eaten(segments, k))
    BY NodeIsReached
  <2>2. r \in R(k) <=> NodeOf(segments, r) = PathOf(address.addr, segments, k)
    BY DEF RoutesAt
  <2> HIDE DEF L, R, C, segments
  <2> QED
    BY <1>2, <2>1, <2>2
<1>4. /\ \A r \in C : r \in ToSet(F) /\ L(r) \in D
      /\ \A k : R(k) \subseteq ToSet(F)
  BY CoveringIsReached DEF RoutesAt
<1>5. /\ D \subseteq 0..Len(segments) /\ \A k \in D : R(k) # {}
      /\ D # {} => Max(D) \in D /\ \A k \in D : k <= Max(D)
  BY LevelsFacts
<1>6. \A j, k \in 0..Len(segments) : j < k => Eaten(segments, j) < Eaten(segments, k)
  BY <1>1, EatenGrows
<1>7. Longest(address) = {r \in C : \A q \in C : q.len <= r.len}
  BY DEF Longest
<1> HIDE DEF L, D, C, R, segments
<1>8. D = {} <=> C = {}
  BY <1>3, <1>4, <1>5
<1>9. ASSUME D # {}
      PROVE  R(Max(D)) = {r \in C : \A q \in C : q.len <= r.len}
  <2> DEFINE m == Max(D)
  <2>1. m \in D /\ m \in 0..Len(segments) /\ \A k \in D : k <= m
    BY <1>5, <1>9
  <2> HIDE DEF m
  <2>2. ASSUME NEW r \in C, NEW q \in C
        PROVE  q.len <= r.len <=> L(q) <= L(r)
    <3>1. /\ r.len \in Nat /\ L(r) \in 0..Len(segments) /\ Eaten(segments, L(r)) = r.len
          /\ q.len \in Nat /\ L(q) \in 0..Len(segments) /\ Eaten(segments, L(q)) = q.len
      BY <1>2, <1>4
    <3>2. /\ L(r) < L(q) => r.len < q.len
          /\ L(q) < L(r) => q.len < r.len
      BY <1>6, <3>1
    <3>3. L(r) = L(q) => r.len = q.len
      BY <3>1
    <3>4. L(r) \in Int /\ L(q) \in Int
      BY <3>1
    <3> QED
      BY <3>1, <3>2, <3>3, <3>4
  <2>3. PICK p \in ToSet(F) : p \in R(m)
    BY <1>4, <1>5, <2>1
  <2>4. p \in C /\ L(p) = m
    BY <1>3, <2>1, <2>3
  <2>5. ASSUME NEW r \in R(m)
        PROVE  r \in C /\ \A q \in C : q.len <= r.len
    <3>1. r \in C /\ L(r) = m
      BY <1>3, <1>4, <2>1
    <3>2. \A q \in C : L(q) <= m
      BY <1>4, <2>1
    <3> QED
      BY <2>2, <3>1, <3>2
  <2>6. ASSUME NEW r \in C, \A q \in C : q.len <= r.len
        PROVE  r \in R(m)
    <3>1. m <= L(r) /\ L(r) <= m
      BY <1>4, <2>1, <2>2, <2>4, <2>6
    <3>2. L(r) \in 0..Len(segments)
      BY <1>2, <1>4
    <3>3. L(r) = m
      BY <2>1, <3>1, <3>2
    <3> QED
      BY <1>3, <1>4, <2>1, <3>3
  <2>7. R(m) = {r \in C : \A q \in C : q.len <= r.len}
    BY <2>5, <2>6
  <2> QED
    BY <2>7 DEF m
<1> QED
  BY <1>7, <1>8, <1>9 DEF D, C, R

\* The lookup of addresses, from the invariant.
LEMMA LookupCovers == ClassifyInv => LookupFindsCovering
<1> SUFFICES ASSUME ClassifyInv, NEW address \in TypedAddresses
             PROVE  LET found == LookupRoutes(networkList, address)
                        best == LongestMatch(networkList, address)
                    IN /\ best # <<>> => found # <<>>
                       /\ Len(FamilyRoutes(networkList, address.family)) <= 2 => found = best
  BY DEF LookupFindsCovering
<1> DEFINE F == FamilyRoutes(networkList, address.family)
           found == LookupRoutes(networkList, address)
           best == LongestMatch(networkList, address)
           P == {r \in ToSet(networkList) : r.family = address.family}
           D == LevelsOf(F, address)
           G == RoutesAt(F, address, Max(D))
           B == Longest(address)
<1>1. networkList \in Seq(RouteChoices)
  BY DEF ClassifyInv
<1>2. FamilyOf(F, address)
  BY FamilyFacts
<1>3. F = Only(networkList, P)
  BY DEF FamilyRoutes
<1>4. F \in Seq(RouteChoices) /\ ToSet(F) = P /\ SegmentLengths(F) \in Seq(Nat \ {0})
  BY <1>2 DEF FamilyOf
<1>5. found = IF D = {} THEN <<>> ELSE Only(F, G)
  <2> HIDE DEF D
  <2>1. \A E : E = FamilyRoutes(networkList, address.family) /\ SegmentLengths(E) \in Seq(Nat \ {0})
          => found = IF LevelsOf(E, address) = {} THEN <<>>
                     ELSE Only(E, RoutesAt(E, address, Max(LevelsOf(E, address))))
    BY LookupIs
  <2> QED
    BY <1>4, <2>1 DEF D
<1>6. best = Only(networkList, B)
  BY BestIs
<1>7. /\ \A k \in D : RoutesAt(F, address, k) # {}
      /\ D # {} => Max(D) \in D
  BY <1>2, LevelsFacts
<1>8. G \subseteq P
  BY <1>4 DEF RoutesAt
<1>9. best \in Seq(RouteChoices) /\ ToSet(best) = ToSet(networkList) \cap B
  BY <1>1, <1>6, OnlyInSeq, OnlyRange
<1>10. Only(F, G) \in Seq(RouteChoices) /\ ToSet(Only(F, G)) = P \cap G
  BY <1>4, OnlyInSeq, OnlyRange
<1>11. \A r \in Covering(address) : LevelOf(r, SegmentLengths(F)) \in D
  BY <1>2, CoveringIsReached
<1>12. B \subseteq Covering(address) /\ Covering(address) \subseteq ToSet(networkList)
  BY DEF Longest, Covering
<1>13. Len(F) <= 2 => /\ D = {} <=> Covering(address) = {}
                      /\ D # {} => G = B
  BY <1>2, DeepestIsLongest
<1>14. Only(F, G) = Only(networkList, G)
  <2>1. Only(Only(networkList, P), G) = Only(networkList, P \cap G)
    BY <1>1, OnlyBoth
  <2>2. P \cap G = G
    BY <1>8
  <2> QED
    BY <1>3, <2>1, <2>2
<1> HIDE DEF F, found, best, P, D, G, B
<1>15. ASSUME best # <<>>
       PROVE  found # <<>>
  <2>1. ToSet(best) # {}
    <3>1. EmptyList(best) <=> ToSet(best) = {}
      BY <1>9, EmptyRange
    <3> QED
      BY <1>15, <3>1 DEF EmptyList
  <2>2. D # {}
    BY <1>9, <1>11, <1>12, <2>1
  <2>3. G # {}
    BY <1>7, <2>2 DEF G
  <2>4. ToSet(Only(F, G)) # {}
    BY <1>8, <1>10, <2>3
  <2>5. EmptyList(Only(F, G)) <=> ToSet(Only(F, G)) = {}
    BY <1>10, EmptyRange
  <2> QED
    BY <1>5, <2>2, <2>4, <2>5 DEF EmptyList
<1>16. ASSUME Len(F) <= 2
       PROVE  found = best
  <2>1. CASE D # {}
    BY <1>5, <1>6, <1>13, <1>14, <1>16, <2>1
  <2>2. CASE D = {}
    <3>1. Covering(address) = {}
      BY <1>13, <1>16, <2>2
    <3>2. ToSet(best) = {}
      BY <1>9, <1>12, <3>1
    <3>3. EmptyList(best) <=> ToSet(best) = {}
      BY <1>9, EmptyRange
    <3> QED
      BY <1>5, <2>2, <3>2, <3>3 DEF EmptyList
  <2> QED
    BY <2>1, <2>2
<1> QED
  BY <1>15, <1>16 DEF F, found, best

\* The lookup of names, from the invariant.
LEMMA ZonesFound == ClassifyInv => ZonesFoundBySuffix
<1> SUFFICES ASSUME ClassifyInv, NEW domain \in TypedDomains
             PROVE  LET found == LookupZones(domainList, domain)
                    IN /\ ToSet(found) = {z \in ToSet(domainList) : InZone(z, domain)}
                       /\ \A i, j \in DOMAIN found : i < j => Len(found[j].labels) <= Len(found[i].labels)
                       /\ LabelOf(domainList, found) = <<>> <=> found = <<>>
  BY DEF ZonesFoundBySuffix
<1> DEFINE Z == {z \in ToSet(domainList) : InZone(z, domain)}
           matches == Only(domainList, Z)
           v == [i \in DOMAIN matches |-> -ZoneLength(matches[i])]
           found == LookupZones(domainList, domain)
           n == Len(matches)
<1>1. domainList \in Seq(ZoneChoices)
  BY DEF ClassifyInv
<1>2. matches \in Seq(ZoneChoices) /\ ToSet(matches) = Z
  <2>1. matches \in Seq(ZoneChoices)
    BY <1>1, OnlyInSeq
  <2>2. ToSet(matches) = ToSet(domainList) \cap Z
    BY <1>1, OnlyRange
  <2> QED
    BY <2>1, <2>2
<1>3. found = SortedBy(matches, v)
  BY DEF LookupZones
<1> HIDE DEF Z, matches
<1>4. ASSUME NEW i \in 1..n
      PROVE  /\ v[i] = -ZoneLength(matches[i]) /\ v[i] \in Int
             /\ Len(matches[i].labels) \in Nat
             /\ ZoneLength(matches[i]) \in
                  (2 * Len(matches[i].labels) - 1)..(2 * Len(matches[i].labels))
  <2>1. i \in DOMAIN matches /\ matches[i] \in ZoneChoices
    BY <1>2
  <2>2. Len(matches[i].labels) \in Nat
    BY <2>1, ZonesHaveLabels
  <2> DEFINE l == Len(matches[i].labels)
  <2>3. ZoneLength(matches[i]) = 2 * l - (IF matches[i].dot THEN 0 ELSE 1)
    BY DEF ZoneLength
  <2>4. v[i] = -ZoneLength(matches[i])
    BY <2>1
  <2> HIDE DEF l, v
  <2>5. ZoneLength(matches[i]) \in (2 * l - 1)..(2 * l)
    <3>1. l \in Nat
      BY <2>2 DEF l
    <3>2. CASE matches[i].dot
      <4>1. ZoneLength(matches[i]) = 2 * l - 0
        BY <2>3, <3>2
      <4> QED
        BY <3>1, <4>1
    <3>3. CASE ~matches[i].dot
      <4>1. ZoneLength(matches[i]) = 2 * l - 1
        BY <2>3, <3>3
      <4> QED
        BY <3>1, <4>1
    <3> QED
      BY <3>2, <3>3
  <2> QED
    BY <2>2, <2>4, <2>5 DEF l
<1> HIDE DEF v, found
<1>5. PICK at : IsSortOf(found, matches, v, at)
  <2>1. \A i \in 1..Len(matches) : v[i] \in Int
    BY <1>4
  <2> QED
    BY <1>2, <1>3, <2>1, SortedByOrder
<1>6. /\ at \in [1..n -> 1..n] /\ found = [r \in 1..n |-> matches[at[r]]]
      /\ \A r, u \in 1..n : r < u => v[at[r]] <= v[at[u]]
  BY <1>5 DEF IsSortOf
<1>7. /\ found \in Seq(ZoneChoices) /\ ToSet(found) = ToSet(matches)
  <2>1. \A i \in 1..Len(matches) : v[i] \in Int
    BY <1>4
  <2> QED
    BY <1>2, <1>3, <2>1, SortedByPermutes
<1> HIDE DEF n
<1>8. ASSUME NEW i \in DOMAIN found, NEW j \in DOMAIN found, i < j
      PROVE  Len(found[j].labels) <= Len(found[i].labels)
  <2>1. i \in 1..n /\ j \in 1..n
    BY <1>6
  <2> DEFINE a == at[i]
             b == at[j]
  <2>2. a \in 1..n /\ b \in 1..n /\ found[i] = matches[a] /\ found[j] = matches[b] /\ v[a] <= v[b]
    BY <1>6, <1>8, <2>1
  <2> HIDE DEF a, b
  <2> DEFINE x == Len(matches[a].labels)
             y == Len(matches[b].labels)
             p == ZoneLength(matches[a])
             q == ZoneLength(matches[b])
  <2>3. /\ x \in Nat /\ y \in Nat /\ p \in (2 * x - 1)..(2 * x) /\ q \in (2 * y - 1)..(2 * y)
        /\ v[a] = -p /\ v[b] = -q
    BY <1>4, <2>2
  <2> HIDE DEF x, y, p, q
  <2>4. y <= x
    BY <2>2, <2>3
  <2> QED
    BY <2>2, <2>4 DEF x, y
<1>9. LabelOf(domainList, found) = <<>> <=> found = <<>>
  <2> DEFINE label == LabelOf(domainList, found)
  <2>1. label = Only(domainList, ToSet(found))
    BY DEF LabelOf
  <2>2. label \in Seq(ZoneChoices) /\ ToSet(label) = ToSet(domainList) \cap ToSet(found)
    BY <1>1, <2>1, OnlyInSeq, OnlyRange
  <2>3. ToSet(label) = ToSet(found)
    BY <1>2, <1>7, <2>2 DEF Z
  <2>4. /\ EmptyList(label) <=> ToSet(label) = {}
        /\ EmptyList(found) <=> ToSet(found) = {}
    BY <1>7, <2>2, EmptyRange
  <2> HIDE DEF label
  <2>5. label = <<>> <=> found = <<>>
    BY <2>3, <2>4 DEF EmptyList
  <2> QED
    BY <2>5 DEF label
<1>10. ToSet(found) = Z
  BY <1>2, <1>7
<1> QED
  BY <1>8, <1>9, <1>10 DEF found, Z

\* ClassifyInit establishes ClassifyInv.
LEMMA ClassifyInvInit == ClassifyInit => ClassifyInv
BY DEF ClassifyInit, ClassifyInv

\* ClassifyInv is inductive: a descriptor is appended.
LEMMA ClassifyInvStep == ClassifyInv /\ [ClassifyNext]_classifyVars => ClassifyInv'
<1> SUFFICES ASSUME ClassifyInv, [ClassifyNext]_classifyVars
             PROVE  ClassifyInv'
  OBVIOUS
<1>0. networkList \in Seq(RouteChoices) /\ domainList \in Seq(ZoneChoices)
  BY DEF ClassifyInv
<1>1. ASSUME NEW r \in RouteChoices, NetworkListFetched(r)
      PROVE  ClassifyInv'
  BY <1>0, <1>1 DEF NetworkListFetched, ClassifyInv
<1>2. ASSUME NEW z \in ZoneChoices, DomainListFetched(z)
      PROVE  ClassifyInv'
  BY <1>0, <1>2 DEF DomainListFetched, ClassifyInv
<1>3. CASE UNCHANGED classifyVars
  BY <1>0, <1>3 DEF classifyVars, ClassifyInv
<1> QED
  BY <1>1, <1>2, <1>3 DEF ClassifyNext

\* For any number of descriptors, bytes of any width and addresses of any length, an
\* address inside a described network is never without a name; of at most two networks
\* the most specific ones are found; and exactly the zones of a name are found, the
\* most specific first.
THEOREM FieldAlwaysLabelled == ClassifySpec => []FieldIsLabelled
<1>1. ClassifyInv => FieldIsLabelled
  BY LookupCovers, ZonesFound DEF FieldIsLabelled
<1> QED
  BY <1>1, ClassifyInvInit, ClassifyInvStep, PTL DEF ClassifySpec

=============================================================================
