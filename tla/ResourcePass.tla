---------------------------- MODULE ResourcePass ----------------------------
(***************************************************************************)
(* What a pass over one resource promises its callers: from a cursor, over  *)
(* at most a budget of pages, to one answer.  "A failed page checkpoints    *)
(* the earliest failed page's input cursor; later work may be replayed but  *)
(* is idempotent": pages complete in any order, and no answer leads past    *)
(* one that did not.                                                        *)
(***************************************************************************)
EXTENDS ResourceCursor

VARIABLES first,     \* the input cursor
          limit,     \* the budget, or None
          settled,   \* the pages completed so far
          answer     \* the answer, or None
passVars == <<first, limit, settled, answer>>

PassInit ==
  /\ first \in Cursor
  /\ limit = None \/ limit \in Nat \ {0}
  /\ settled = {}
  /\ answer = None

Settle(page) ==
  /\ answer = None
  /\ page \in Span(first, limit) \ settled
  /\ settled' = settled \cup {page}
  /\ UNCHANGED <<first, limit, answer>>

Conclude ==
  /\ answer = None
  /\ answer' \in Answers(first, limit, settled)
  /\ UNCHANGED <<first, limit, settled>>

PassNext == Conclude \/ \E page \in Page : Settle(page)

PassSpec == PassInit /\ [][PassNext]_passVars
=============================================================================
