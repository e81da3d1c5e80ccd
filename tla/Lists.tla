------------------------------- MODULE Lists -------------------------------
(***************************************************************************)
(* The list idioms the workflows are written with: Python's sorted(), the   *)
(* filtering comprehension [x for x in s if x not in R], and the bounded    *)
(* "keep the newest n" window.  They are defined by counting rather than by *)
(* recursion (SelectSeq and SetToSortSeq are recursive or enumerate), so    *)
(* that what they return can be proved for every argument: ListsProofs.     *)
(* MCUserQuota compares them with the standard operators on small inputs.   *)
(***************************************************************************)
EXTENDS Integers, FiniteSets, Sequences, Functions

\* How many elements of S are at most x.
Rank(S, x) == Cardinality({y \in S : y <= x})

\* sorted(S) for a finite set of numbers.
Sorted(S) == [k \in 1..Cardinality(S) |-> CHOOSE x \in S : Rank(S, x) = k]

\* [x for x in s if x not in R]
Without(s, R) ==
  LET kept == Sorted({i \in DOMAIN s : s[i] \notin R})
  IN  [k \in DOMAIN kept |-> s[kept[k]]]

\* [x for x in s if x in R]
Within(s, R) == Without(s, Range(s) \ R)

\* The newest n elements of s, oldest first.
Newest(s, n) ==
  IF Len(s) <= n THEN s ELSE SubSeq(s, Len(s) - n + 1, Len(s))

\* No element occurs twice in s.
NoRepeats(s) == \A i, j \in DOMAIN s : s[i] = s[j] => i = j
=============================================================================
