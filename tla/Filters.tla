------------------------------ MODULE Filters ------------------------------
(***************************************************************************)
(* Array.prototype.filter, with the elements to keep given as a set, and   *)
(* Array.prototype.sort, with a number for each element.                   *)
(***************************************************************************)
EXTENDS Integers, Sequences, FiniteSets

\* The elements of s that are in S, in their order.
Only(s, S) ==
  LET kept[i \in 0..Len(s)] ==
        IF i = 0 THEN <<>>
        ELSE IF s[i] \in S THEN Append(kept[i - 1], s[i]) ELSE kept[i - 1]
  IN kept[Len(s)]

\* s by increasing v, where v[i] is the number of s[i].  The sort is stable: an
\* element comes after those with a lower number, and those before it with its own.
SortedBy(s, v) ==
  LET First(i, j) == v[i] < v[j] \/ (v[i] = v[j] /\ i < j)
  IN [r \in DOMAIN s |->
        s[CHOOSE j \in DOMAIN s : Cardinality({i \in DOMAIN s : First(i, j)}) = r - 1]]
=============================================================================
