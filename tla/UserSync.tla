------------------------------ MODULE UserSync ------------------------------
(***************************************************************************)
(* UserSyncWorkflow and ResourceSyncWorkflow: one joined pass over each     *)
(* resource of a user that is not finished yet, and the cursors a later     *)
(* pass resumes from.  The fan-out is joined before anything is read from   *)
(* it, so a user sync is what its answers make of its input.                *)
(***************************************************************************)
EXTENDS Integers, FiniteSets

CONSTANTS None,
          PageCount   \* the resource types and how many pages each has

ASSUME PageCountAssumption ==
  None \notin Int /\ \A r \in DOMAIN PageCount : PageCount[r] \in Nat \ {0}

Resource == DOMAIN PageCount
EveryPage == UNION {{r} \X (1..PageCount[r]) : r \in Resource}

\* What is promised of the pass over each resource; ResourcePages implements it.
Pass(r) == INSTANCE ResourceCursor WITH Pages <- PageCount[r]

\* UserCursor, the part of a user's input that changes from one sync to the next.
FreshUser == [cursor |-> None, resource_cursors |-> <<>>, completed_resource_types |-> {}]

ResumeCursor(user, r) ==
  IF r \in DOMAIN user.resource_cursors THEN user.resource_cursors[r] ELSE user.cursor

Outstanding(user) == Resource \ user.completed_resource_types

\* The answers a pass over one resource can give, and those of all of them.
PassAnswers(user, r, limit) ==
  LET first == ResumeCursor(user, r)
  IN UNION {Pass(r)!Answers(first, limit, settled) : settled \in SUBSET Pass(r)!Span(first, limit)}
Outcomes(user, limit) ==
  LET answers == [r \in Outstanding(user) |-> PassAnswers(user, r, limit)]
  IN {f \in [Outstanding(user) -> UNION {answers[r] : r \in Outstanding(user)}] :
        \A r \in Outstanding(user) : f[r] \in answers[r]}

\* The pages a successful sync has settled.
SettledBy(user, limit, outcome) ==
  UNION {{r} \X Pass(r)!Span(ResumeCursor(user, r), limit) :
           r \in {q \in DOMAIN outcome : outcome[q].status = "succeeded"}}

\* An exception counts as an error, as the errors of an answer do.
\* Mutant: an exception does not count.
AnswersHaveErrors(outcome) == \E r \in DOMAIN outcome : outcome[r].status = "partial"
HasErrors(outcome) == \E r \in DOMAIN outcome : outcome[r].status # "succeeded"

\* The result of run(): a resource that raised keeps no cursor, and any error
\* makes the result partial.
UserResult(user, outcome) ==
  LET asked == DOMAIN outcome
      answered == {r \in asked : outcome[r].status # "raised"}
      finished == {r \in answered : outcome[r].finished}
      cursors == [r \in answered \cup DOMAIN user.resource_cursors |->
                    IF r \in answered THEN outcome[r].cursor ELSE user.resource_cursors[r]]
      open == {r \in DOMAIN cursors : cursors[r] # None}
      completed == user.completed_resource_types \cup finished
  IN [errors |-> HasErrors(outcome),
      finished |-> finished = asked /\ completed = Resource,
      user |-> [cursor |-> IF open = {} THEN None ELSE cursors[CHOOSE r \in open : TRUE],
                resource_cursors |-> cursors,
                completed_resource_types |-> completed]]
=============================================================================
