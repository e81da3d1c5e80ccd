---------------------------- MODULE MCUserQuota ----------------------------
(***************************************************************************)
(* Small instances of UserQuota.                                            *)
(***************************************************************************)
EXTENDS UserQuota

MCCost == [r \in Request |-> IF r = 2 THEN 2 ELSE 1]
MCGeneration == [r \in Request |-> IF r = 1 THEN 1 ELSE 2]
OneGeneration == [r \in Request |-> 1]

Headers(limit, left, reset) ==
  [in_scope |-> TRUE, limit |-> limit, remaining |-> left, reset_at |-> reset,
   retry_after |-> None, exhausted |-> FALSE]
Exhausted(reset, retry) ==
  [in_scope |-> TRUE, limit |-> None, remaining |-> None, reset_at |-> reset,
   retry_after |-> retry, exhausted |-> TRUE]
OtherScope == [Headers(5, 5, None) EXCEPT !.in_scope = FALSE]

\* Headers with and without a reset, an exhaustion with a late retry, and one
\* with no hint at all, and a report about another scope.
MCObservation ==
  {Headers(2, 1, 1), Exhausted(1, 2), Exhausted(None, None), OtherScope}

\* The provider never states its limit: a new window starts in probe mode.  An
\* exhaustion without a hint, and a report about another scope.
UnstatedLimit == {Headers(None, 1, 1), Exhausted(None, None), OtherScope}

\* The provider states its limit and one reset.
StatedLimit == {Headers(2, 0, 1)}

NoObservation == {}

\* Lists computes what the standard operators do.
ASSUME \A n \in 0..4 : \A s \in [1..n -> 1..3] : \A R \in SUBSET (1..3) :
         LET Keep(x) == x \notin R
             Kept(x) == x \in R
         IN Without(s, R) = SelectSeq(s, Keep) /\ Within(s, R) = SelectSeq(s, Kept)
ASSUME \A S \in SUBSET (1..5) :
         /\ Range(Sorted(S)) = S
         /\ \A i, j \in DOMAIN Sorted(S) : i < j => Sorted(S)[i] < Sorted(S)[j]
=============================================================================
