--------------------------- MODULE ResourceCursor ---------------------------
(***************************************************************************)
(* The pages of one resource, the provider's cursors, and the answers a     *)
(* pass over them may give.                                                 *)
(***************************************************************************)
EXTENDS Integers, FiniteSets

CONSTANTS Pages,   \* how many pages the resource has
          None

ASSUME PagesAssumption == Pages \in Nat \ {0} /\ None \notin Int

Page == 1..Pages

\* The provider's cursors.  None is the input cursor of the first page, and
\* also what the last page returns.
Cursor == {None} \cup 2..Pages
PageAt(cursor) == IF cursor = None THEN 1 ELSE cursor
NextCursor(page) == IF page = Pages THEN None ELSE page + 1

\* The last page a budget admits, and the pages of a pass.
Reach(first, limit) ==
  IF limit = None \/ PageAt(first) + limit > Pages THEN Pages ELSE PageAt(first) + limit - 1
Span(first, limit) == PageAt(first)..Reach(first, limit)

AnyAnswer ==
  [status : {"succeeded", "partial", "raised"}, cursor : Cursor, finished : BOOLEAN, pages : 0..Pages]
Raised == [status |-> "raised", cursor |-> None, finished |-> FALSE, pages |-> 0]

\* What a pass may answer when the pages in settled have been completed: that
\* its whole budget is, or a checkpoint that skips no unfinished page, or an
\* exception.
Success(first, limit, settled) ==
  [status |-> "succeeded", cursor |-> NextCursor(Reach(first, limit)),
   finished |-> Reach(first, limit) = Pages, pages |-> Cardinality(settled)]
Partial(cursor, settled) ==
  [status |-> "partial", cursor |-> cursor, finished |-> FALSE, pages |-> Cardinality(settled)]
Answers(first, limit, settled) ==
  {Raised}
  \cup {a \in {Success(first, limit, settled)} : settled = Span(first, limit)}
  \cup {Partial(c, settled) : c \in {d \in Cursor :
          /\ PageAt(d) \in Span(first, limit) \ settled
          /\ PageAt(first)..(PageAt(d) - 1) \subseteq settled}}
=============================================================================
