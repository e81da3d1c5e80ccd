------------------------ MODULE ResourcePagesProofs ------------------------
(***************************************************************************)
(* The window of one pass, for every number of pages, window, budget and    *)
(* bound on retries: its types, that a page starts once, and that it        *)
(* implements ResourcePass.                                                 *)
(*                                                                          *)
(* The argument: a run has a base page, the one its command starts at, and  *)
(* child s of the run has page base + s.  So the pages handed out are one   *)
(* interval, from the pass's first page up to the page the cursor names;    *)
(* those of earlier runs are all settled, because a run is only replaced    *)
(* when it has drained without a failure; and those of this run are settled *)
(* unless their child is still pending or has failed.                       *)
(***************************************************************************)
EXTENDS ResourcePages, ListsProofs

Base == PageAt(command.next_page_cursor)
Begin == PageAt(first)

\* The page after the last one that was started.
Ahead == Base + pages_started

\* Child s of this run has not settled its page.
Unsettled(s) ==
  \/ s \in DOMAIN pending /\ pending[s].status # "succeeded"
  \/ \E f \in failures : f[1] = s

Succeeded == {s \in DOMAIN pending : pending[s].status = "succeeded"}

\* The cursor names the next page, or there is none.
CursorOK ==
  /\ Begin <= Base /\ Ahead <= Pages + 1
  /\ Ahead <= Pages => PageAt(cursor) = Ahead
  /\ Ahead = Pages + 1 => cursor = None /\ ~may_fetch
  /\ started = Begin..(Ahead - 1)

\* Why the window stopped: the next run, a failure, the end or the budget.
BudgetOK ==
  /\ command.completed_page_count = Base - Begin
  /\ limit # None => Ahead - Begin <= limit
  /\ ~may_fetch => \/ stop_for_continue_as_new \/ failures # {} \/ Ahead = Pages + 1
                   \/ limit # None /\ Ahead - Begin = limit

ControlOK ==
  /\ pc \in {"permit", "fetch"} => may_fetch /\ ~ReachedLimit
  /\ stop_for_continue_as_new => ~may_fetch /\ Ahead <= Pages
  /\ failures # {} => ~may_fetch /\ ~stop_for_continue_as_new
  /\ pc = "closed" => DOMAIN pending = {}
  /\ pc # "closed" => answer = None

PendingOK ==
  /\ \A s \in DOMAIN pending : /\ s \in 0..(pages_started - 1)
                               /\ PageAt(pending[s].cursor) = Base + s
  /\ \A f \in failures : /\ f[1] \in 0..(pages_started - 1)
                         /\ f[1] \notin DOMAIN pending
                         /\ PageAt(f[2]) = Base + f[1]

SettledOK ==
  /\ settled \subseteq Begin..(Ahead - 1)
  /\ pc # "closed" =>
       /\ Begin..(Base - 1) \subseteq settled
       /\ \A s \in 0..(pages_started - 1) : Base + s \in settled <=> ~Unsettled(s)
       /\ command.completed_page_count + pages_completed + Cardinality(Succeeded)
            = Cardinality(settled)

WindowInv == CursorOK /\ BudgetOK /\ ControlOK /\ PendingOK /\ SettledOK

-----------------------------------------------------------------------------
(* Cursors and numbers *)

\* A cursor names a page, and the next cursor the next page.
LEMMA Cursors ==
  /\ Pages \in Nat /\ Pages >= 1
  /\ \A c \in Cursor : PageAt(c) \in Nat /\ 1 <= PageAt(c) /\ PageAt(c) <= Pages
  /\ \A c \in Cursor : PageAt(c) # 1 => c # None
  /\ \A p \in 1..Pages : /\ NextCursor(p) \in Cursor
                         /\ NextCursor(p) = None <=> p = Pages
                         /\ p # Pages => PageAt(NextCursor(p)) = p + 1
<1>1. Pages \in Nat /\ Pages >= 1 /\ None \notin Int
  BY PagesAssumption DEF PagesAssumption
<1>2. \A c \in Cursor : /\ PageAt(c) \in Nat /\ 1 <= PageAt(c) /\ PageAt(c) <= Pages
                        /\ PageAt(c) # 1 => c # None
  <2> SUFFICES ASSUME NEW c \in Cursor
               PROVE  /\ PageAt(c) \in Nat /\ 1 <= PageAt(c) /\ PageAt(c) <= Pages
                      /\ PageAt(c) # 1 => c # None
    OBVIOUS
  <2>1. CASE c = None
    BY <1>1, <2>1 DEF PageAt
  <2>2. CASE c # None
    BY <1>1, <2>2 DEF PageAt, Cursor
  <2>3. QED
    BY <2>1, <2>2
<1>3. ASSUME NEW p \in 1..Pages
      PROVE  /\ NextCursor(p) \in Cursor
             /\ NextCursor(p) = None <=> p = Pages
             /\ p # Pages => PageAt(NextCursor(p)) = p + 1
  <2>1. p \in Int /\ p + 1 \in Int /\ p + 1 # None
    BY <1>1
  <2>2. CASE p = Pages
    BY <2>2 DEF NextCursor, Cursor
  <2>3. CASE p # Pages
    <3>1. NextCursor(p) = p + 1 /\ p + 1 \in 2..Pages
      BY <1>1, <2>1, <2>3 DEF NextCursor
    <3>2. QED
      BY <2>1, <2>3, <3>1 DEF Cursor, PageAt
  <2>4. QED
    BY <2>2, <2>3
<1>4. QED
  BY <1>1, <1>2, <1>3

\* A non-empty finite set of numbers has a least one.
LEMMA Least ==
  ASSUME NEW S \in SUBSET Int, IsFiniteSet(S), S # {}
  PROVE  \E x \in S : \A y \in S : x <= y
<1>1. Cardinality(S) \in Nat /\ Cardinality(S) # 0
  BY FS_CardinalityType, FS_EmptySet
<1>2. PICK x \in S : Rank(S, x) = 1
  BY <1>1, RankOnto
<1>3. \A y \in S : Rank(S, y) \in Int /\ Rank(S, y) >= 1
  BY <1>1, RankProperties
<1>4. \A y \in S : ~(y < x)
  BY <1>2, <1>3, RankProperties
<1>5. QED
  BY <1>4

\* The positions of the pass are numbers.
LEMMA Positions ==
  ASSUME PagesTypeOK
  PROVE  /\ Base \in Nat /\ 1 <= Base /\ Base <= Pages
         /\ Begin \in Nat /\ 1 <= Begin /\ Begin <= Pages
         /\ pages_started \in Nat /\ Ahead \in Nat /\ Ahead = Base + pages_started
         /\ limit # None => limit \in Nat /\ limit > 0
         /\ command.completed_page_count \in Nat /\ command.next_page_cursor \in Cursor
         /\ ReachedLimit <=> limit # None /\ command.completed_page_count + pages_started >= limit
<1>1. /\ first \in Cursor /\ command.next_page_cursor \in Cursor /\ pages_started \in Nat
      /\ limit \in Limit /\ command.completed_page_count \in Nat
  BY DEF PagesTypeOK
<1>2. limit # None => limit \in Nat /\ limit > 0
  BY <1>1, WindowAssumption DEF WindowAssumption
<1>3. Base \in Nat /\ 1 <= Base /\ Base <= Pages /\ Begin \in Nat /\ 1 <= Begin /\ Begin <= Pages
  BY <1>1, Cursors DEF Base, Begin
<1>4. Ahead \in Nat /\ Ahead = Base + pages_started
  BY <1>1, <1>3 DEF Ahead
<1>5. QED
  BY <1>1, <1>2, <1>3, <1>4 DEF ReachedLimit

\* What is settled, and the children that have ended well, are finitely many.
LEMMA Counts ==
  ASSUME PagesTypeOK, WindowInv
  PROVE  /\ IsFiniteSet(settled) /\ Cardinality(settled) \in Nat /\ Cardinality(settled) <= Pages
         /\ IsFiniteSet(Succeeded) /\ Cardinality(Succeeded) \in Nat
         /\ IsFiniteSet(failures) /\ Cardinality(failures) \in Nat
         /\ Cardinality(failures) = 0 <=> failures = {}
<1>1. settled \in SUBSET (1..Pages)
  <2>1. /\ Begin \in Nat /\ 1 <= Begin /\ Ahead \in Nat /\ Ahead <= Pages + 1 /\ Pages \in Nat
        /\ settled \subseteq Begin..(Ahead - 1)
    BY Positions, Cursors DEF WindowInv, SettledOK, CursorOK
  <2>2. Begin..(Ahead - 1) \subseteq 1..Pages
    BY <2>1
  <2>3. QED
    BY <2>1, <2>2
<1>2. IsFiniteSet(1..Pages) /\ Cardinality(1..Pages) = Pages
  BY Cursors, FS_Interval
<1>3. IsFiniteSet(settled) /\ Cardinality(settled) \in Nat /\ Cardinality(settled) <= Pages
  BY <1>1, <1>2, FS_Subset, FS_CardinalityType
<1>4. Succeeded \in SUBSET (0..(Pages - 1))
  BY DEF PagesTypeOK, Succeeded
<1>5. IsFiniteSet(0..(Pages - 1))
  BY Cursors, FS_Interval
<1>6. IsFiniteSet(Succeeded) /\ Cardinality(Succeeded) \in Nat
  BY <1>4, <1>5, FS_Subset, FS_CardinalityType
<1>7. IsFiniteSet(2..Pages) /\ IsFiniteSet({None})
  <2>1. 2 \in Int /\ Pages \in Int
    BY Cursors
  <2>2. IsFiniteSet(2..Pages)
    BY <2>1, FS_Interval
  <2>3. QED
    BY <2>2, FS_Singleton
<1>8. IsFiniteSet(Cursor)
  BY <1>7, FS_Union DEF Cursor
<1>9. IsFiniteSet((0..(Pages - 1)) \X Cursor)
  BY <1>5, <1>8, FS_Product
<1>10. IsFiniteSet(failures)
  BY <1>9, FS_Subset DEF PagesTypeOK
<1>11. QED
  BY <1>3, <1>6, <1>10, FS_CardinalityType, FS_EmptySet

-----------------------------------------------------------------------------
(* The steps *)

\* What the steps between two children leave alone.
heldVars == <<inputVars, command, cursor, pending, failures, pages_started, pages_completed,
              answer, settled, started>>

\* The window stops at its budget, asks for a page and is granted or refused it,
\* waits, is cancelled, or learns that Continue-As-New is suggested.
LEMMA HoldKeeps ==
  ASSUME PagesTypeOK, WindowInv,
         \/ StopAtLimit \/ RequestPage \/ Granted \/ Denied \/ Exhausted \/ Wait \/ Cancel \/ Suggest
  PROVE  PagesTypeOK' /\ WindowInv'
<1>1. UNCHANGED heldVars
  BY DEF StopAtLimit, RequestPage, Granted, Denied, Exhausted, Wait, Cancel, Suggest, heldVars,
     windowVars, historyVars
<1>2. UNCHANGED <<Base, Begin, Ahead, Succeeded, ReachedLimit>>
      /\ \A s : Unsettled(s)' <=> Unsettled(s)
  BY <1>1 DEF heldVars, inputVars, Base, Begin, Ahead, Succeeded, ReachedLimit, Unsettled
<1>3. /\ may_fetch' \in BOOLEAN /\ stop_for_continue_as_new' \in BOOLEAN
      /\ page_fetch_attempt' \in 0..MaxAttempt
      /\ pc' \in {"window", "permit", "denied", "fetch", "wait", "canceling", "closed"}
      /\ suggested' \in BOOLEAN
  <2>1. MaxAttempt \in Nat
    BY WindowAssumption DEF WindowAssumption
  <2>2. /\ may_fetch \in BOOLEAN /\ stop_for_continue_as_new \in BOOLEAN /\ suggested \in BOOLEAN
        /\ page_fetch_attempt \in 0..MaxAttempt
        /\ pc \in {"window", "permit", "denied", "fetch", "wait", "canceling", "closed"}
    BY DEF PagesTypeOK
  <2>3. CASE Exhausted
    <3>1. page_fetch_attempt' = page_fetch_attempt + 1 /\ page_fetch_attempt < MaxAttempt
      BY <2>3 DEF Exhausted, AnsweredExhausted
    <3>2. page_fetch_attempt' \in 0..MaxAttempt
      BY <2>1, <2>2, <3>1
    <3>3. QED
      BY <2>2, <2>3, <3>2 DEF Exhausted
  <2>4. CASE StopAtLimit \/ RequestPage \/ Granted \/ Denied \/ Wait \/ Cancel \/ Suggest
    BY <2>2, <2>4 DEF StopAtLimit, RequestPage, Granted, Denied, Wait, Cancel, Suggest, windowVars
  <2>5. QED
    BY <2>3, <2>4
<1>4. PagesTypeOK'
  BY <1>1, <1>3 DEF PagesTypeOK, heldVars, inputVars
<1>5. pc' = "closed" <=> pc = "closed"
  BY DEF StopAtLimit, RequestPage, Granted, Denied, Exhausted, Wait, Cancel, Suggest, AnsweredExhausted
<1>6. PendingOK' /\ SettledOK'
  BY <1>1, <1>2, <1>5 DEF WindowInv, PendingOK, SettledOK, heldVars, inputVars
<1>7. /\ Begin <= Base /\ Ahead <= Pages + 1 /\ (Ahead <= Pages => PageAt(cursor) = Ahead)
      /\ started = Begin..(Ahead - 1) /\ command.completed_page_count = Base - Begin
      /\ limit # None => Ahead - Begin <= limit
  BY DEF WindowInv, CursorOK, BudgetOK
<1>8. /\ Base \in Nat /\ Begin \in Nat /\ Ahead \in Nat /\ Pages \in Nat
      /\ Ahead = Base + pages_started /\ pages_started \in Nat
      /\ limit # None => limit \in Nat
      /\ ReachedLimit <=> limit # None /\ Ahead - Begin >= limit
  <2>1. /\ Base \in Nat /\ Begin \in Nat /\ Ahead \in Nat /\ Pages \in Nat
        /\ Ahead = Base + pages_started /\ pages_started \in Nat
        /\ limit # None => limit \in Nat
        /\ ReachedLimit <=> limit # None /\ command.completed_page_count + pages_started >= limit
    BY Positions, Cursors
  <2>2. command.completed_page_count + pages_started = Ahead - Begin
    BY <1>7, <2>1
  <2>3. QED
    BY <2>1, <2>2
<1>9. CASE UNCHANGED <<may_fetch, stop_for_continue_as_new>>
  <2>1. pc' \in {"permit", "fetch"} => may_fetch /\ ~ReachedLimit
    BY <1>9 DEF WindowInv, ControlOK, StopAtLimit, RequestPage, Granted, Denied, Exhausted, Wait, Cancel,
       Suggest, HasRoom, AnsweredExhausted
  <2>2. QED
    BY <1>1, <1>2, <1>4, <1>5, <1>6, <1>9, <2>1
    DEF WindowInv, CursorOK, BudgetOK, ControlOK, heldVars, inputVars
<1>10. CASE StopAtLimit
  <2>1. /\ may_fetch /\ may_fetch' = FALSE /\ ReachedLimit /\ UNCHANGED stop_for_continue_as_new
        /\ pc' = "window"
    BY <1>10 DEF StopAtLimit, HasRoom, PagesTypeOK
  <2>2. limit # None /\ Ahead - Begin = limit
    BY <1>7, <1>8, <2>1
  <2>3. QED
    BY <1>1, <1>2, <1>4, <1>5, <1>6, <1>7, <2>1, <2>2
    DEF WindowInv, CursorOK, BudgetOK, ControlOK, heldVars, inputVars
<1>11. CASE Exhausted
  <2>1. /\ pc = "fetch" /\ may_fetch /\ ~ReachedLimit /\ failures = {}
        /\ may_fetch' = ~suggested
        /\ stop_for_continue_as_new' = (suggested \/ stop_for_continue_as_new)
        /\ pc' = IF suggested THEN "window" ELSE "permit"
        /\ ~stop_for_continue_as_new /\ suggested \in BOOLEAN
    BY <1>11 DEF Exhausted, AnsweredExhausted, WindowInv, ControlOK, PagesTypeOK
  <2>2. Ahead <= Pages
    BY <1>8, <2>1 DEF WindowInv, CursorOK
  <2>3. QED
    BY <1>1, <1>2, <1>4, <1>5, <1>6, <1>7, <1>8, <2>1, <2>2
    DEF WindowInv, CursorOK, BudgetOK, ControlOK, heldVars, inputVars
<1>12. QED
  BY <1>9, <1>10, <1>11 DEF RequestPage, Granted, Denied, Wait, Cancel, Suggest, windowVars

\* A page child ends: its page is settled, or its child is remembered as failed.
LEMMA PageEndsKeeps ==
  ASSUME PagesTypeOK, WindowInv, NEW s \in DOMAIN pending, PageEnds(s)
  PROVE  /\ PagesTypeOK' /\ WindowInv'
         /\ \/ UNCHANGED settled
            \/ /\ Base + s \in Begin..(Ahead - 1) /\ Base + s \notin settled
               /\ settled' = settled \cup {Base + s}
         /\ answer = None /\ UNCHANGED <<first, limit, answer>>
<1>1. PICK outcomes \in SUBSET DocumentOutcome :
        /\ pending' = [pending EXCEPT ![s].status = PageStatus(outcomes)]
        /\ settled' = IF PageStatus(outcomes) = "succeeded"
                      THEN settled \cup {PageAt(pending[s].cursor)} ELSE settled
  BY DEF PageEnds
<1> DEFINE status == PageStatus(outcomes)
<1>2. status \in {"succeeded", "failed"}
  BY DEF PageStatus
<1>3. pending' = [pending EXCEPT ![s].status = status]
      /\ settled' = IF status = "succeeded" THEN settled \cup {PageAt(pending[s].cursor)} ELSE settled
  BY <1>1
<1> HIDE DEF status
<1>4. /\ UNCHANGED <<inputVars, command, cursor, may_fetch, failures, pages_started,
                     page_fetch_attempt, stop_for_continue_as_new, pages_completed, pc, suggested,
                     answer, started, spent>>
      /\ pending[s].status = "running"
  BY DEF PageEnds
<1>5. /\ pending[s] \in [cursor : Cursor, status : {"running", "succeeded", "failed"}]
      /\ PageAt(pending[s].cursor) = Base + s /\ s \in 0..(pages_started - 1)
      /\ pc # "closed"
  BY DEF PagesTypeOK, WindowInv, PendingOK, ControlOK
<1>6. /\ DOMAIN pending' = DOMAIN pending
      /\ \A t \in DOMAIN pending :
           pending'[t] = IF t = s THEN [pending[s] EXCEPT !.status = status] ELSE pending[t]
  BY <1>3
<1>7. /\ \A t \in DOMAIN pending : t # s => pending'[t] = pending[t]
      /\ pending'[s].cursor = pending[s].cursor /\ pending'[s].status = status
      /\ pending'[s] \in [cursor : Cursor, status : {"running", "succeeded", "failed"}]
  BY <1>2, <1>5, <1>6
<1>8. UNCHANGED <<Base, Begin, Ahead, ReachedLimit>>
  BY <1>4 DEF inputVars, Base, Begin, Ahead, ReachedLimit
<1>9. PagesTypeOK'
  BY <1>4, <1>6, <1>7 DEF PagesTypeOK, inputVars
<1>10. CursorOK' /\ BudgetOK' /\ ControlOK' /\ PendingOK'
  BY <1>4, <1>5, <1>6, <1>7, <1>8
  DEF WindowInv, CursorOK, BudgetOK, ControlOK, PendingOK, inputVars
<1>11. /\ Begin \in Nat /\ Base \in Nat /\ Ahead = Base + pages_started /\ pages_started \in Nat
       /\ Begin <= Base
  BY Positions DEF WindowInv, CursorOK
<1>12. Base + s \in Begin..(Ahead - 1)
  BY <1>5, <1>11
<1>13. Unsettled(s) /\ Base + s \notin settled
  <2>1. Unsettled(s)
    BY <1>4 DEF Unsettled
  <2>2. QED
    BY <1>5, <2>1 DEF WindowInv, SettledOK
<1>14. \A t : t # s => (Unsettled(t)' <=> Unsettled(t))
  BY <1>4, <1>6, <1>7 DEF Unsettled
<1>15. \A f \in failures : f[1] # s
  BY DEF WindowInv, PendingOK
<1>16. \A t \in 0..(pages_started - 1) : t # s => Base + t # Base + s
  <2>1. \A a, b, c \in Int : b # c => a + b # a + c
    OBVIOUS
  <2>2. Base \in Int /\ s \in Int
    BY <1>5, <1>11
  <2>3. \A t \in 0..(pages_started - 1) : t \in Int
    OBVIOUS
  <2>4. QED
    BY <2>1, <2>2, <2>3
<1>17. CASE status = "succeeded"
  <2>1. settled' = settled \cup {Base + s}
    BY <1>3, <1>5, <1>17
  <2>2. ~Unsettled(s)'
    BY <1>4, <1>7, <1>15, <1>17 DEF Unsettled
  <2>3. Succeeded' = Succeeded \cup {s} /\ s \notin Succeeded
    BY <1>4, <1>6, <1>7, <1>17 DEF Succeeded
  <2>4. /\ Cardinality(Succeeded') = Cardinality(Succeeded) + 1
        /\ Cardinality(settled') = Cardinality(settled) + 1
    BY <1>13, <2>1, <2>3, Counts, FS_AddElement
  <2>5. command.completed_page_count + pages_completed + Cardinality(Succeeded) = Cardinality(settled)
        /\ command.completed_page_count \in Nat /\ pages_completed \in Nat
        /\ Cardinality(Succeeded) \in Nat /\ Cardinality(settled) \in Nat
    BY <1>5, Counts DEF WindowInv, SettledOK, PagesTypeOK
  <2>6. command.completed_page_count + pages_completed + (Cardinality(Succeeded) + 1)
          = Cardinality(settled) + 1
    BY <2>5
  <2>7. \A t \in 0..(pages_started - 1) : Base + t \in settled' <=> ~Unsettled(t)'
    BY <1>5, <1>14, <1>16, <2>1, <2>2 DEF WindowInv, SettledOK
  <2>8. SettledOK'
    BY <1>4, <1>5, <1>8, <1>12, <2>1, <2>4, <2>6, <2>7 DEF WindowInv, SettledOK
  <2>9. QED
    BY <1>4, <1>5, <1>9, <1>10, <1>12, <1>13, <2>1, <2>8 DEF WindowInv, ControlOK, inputVars
<1>18. CASE status = "failed"
  <2>1. UNCHANGED settled
    BY <1>3, <1>18
  <2>2. Unsettled(s)'
    BY <1>6, <1>7, <1>18 DEF Unsettled
  <2>3. UNCHANGED Succeeded
    BY <1>4, <1>6, <1>7, <1>18 DEF Succeeded
  <2>4. SettledOK'
    BY <1>4, <1>8, <1>13, <1>14, <2>1, <2>2, <2>3 DEF WindowInv, SettledOK
  <2>5. QED
    BY <1>4, <1>5, <1>9, <1>10, <2>1, <2>4 DEF WindowInv, ControlOK, inputVars
<1>19. QED
  BY <1>2, <1>17, <1>18

\* The page is there: it joins the window and the cursor moves on.
LEMMA FetchedKeeps ==
  ASSUME PagesTypeOK, WindowInv, Fetched
  PROVE  PagesTypeOK' /\ WindowInv' /\ PageAt(cursor) \notin started
         /\ UNCHANGED <<first, limit, settled, answer>>
<1> PICK n : n = pages_started
  OBVIOUS
<1>1. /\ pending' = [s \in DOMAIN pending \cup {n} |-> IF s = n THEN PageChild ELSE pending[s]]
      /\ started' = started \cup {PageAt(cursor)}
      /\ pages_started' = n + 1
      /\ cursor' = NextCursor(PageAt(cursor))
      /\ may_fetch' = (cursor' # None /\ ~suggested)
      /\ stop_for_continue_as_new' = IF suggested THEN cursor' # None ELSE stop_for_continue_as_new
      /\ page_fetch_attempt' = 0
      /\ pc = "fetch" /\ pc' = "window"
      /\ UNCHANGED <<inputVars, command, failures, pages_completed, suggested, answer, settled>>
  BY DEF Fetched
<1>2. /\ Base \in Nat /\ Begin \in Nat /\ Pages \in Nat /\ Ahead = Base + n /\ n \in Nat
      /\ Begin <= Base /\ 1 <= Base /\ Ahead \in Nat
      /\ limit # None => limit \in Nat
      /\ Ahead <= Pages + 1 /\ started = Begin..(Ahead - 1)
      /\ command.completed_page_count = Base - Begin
      /\ command.completed_page_count \in Nat
      /\ limit # None => Ahead - Begin <= limit
      /\ limit # None => ~(command.completed_page_count + n >= limit)
      /\ failures = {} /\ may_fetch /\ ~stop_for_continue_as_new
      /\ suggested \in BOOLEAN
  BY <1>1, Positions, Cursors DEF WindowInv, CursorOK, BudgetOK, ControlOK, PagesTypeOK
<1>20. /\ may_fetch' \in BOOLEAN /\ (may_fetch' <=> cursor' # None /\ ~suggested)
       /\ stop_for_continue_as_new' \in BOOLEAN
       /\ stop_for_continue_as_new' <=> suggested /\ cursor' # None
  <2>1. may_fetch' = (cursor' # None /\ ~suggested)
        /\ stop_for_continue_as_new' = (IF suggested THEN cursor' # None ELSE stop_for_continue_as_new)
    BY <1>1
  <2>2. stop_for_continue_as_new = FALSE
    BY <1>2 DEF PagesTypeOK
  <2>3. QED
    BY <2>1, <2>2, Zenon
<1>3. Ahead <= Pages /\ PageAt(cursor) = Ahead
  BY <1>2 DEF WindowInv, CursorOK
<1>4. UNCHANGED <<Base, Begin>> /\ Ahead' = Ahead + 1
  BY <1>1, <1>2 DEF Base, Begin, Ahead, inputVars
<1>5. /\ cursor' \in Cursor
      /\ cursor' = None <=> Ahead' = Pages + 1
      /\ Ahead' <= Pages => PageAt(cursor') = Ahead'
  <2>1. Ahead \in 1..Pages
    BY <1>2, <1>3
  <2>2. QED
    BY <1>1, <1>2, <1>3, <1>4, <2>1, Cursors
<1>6. n \notin DOMAIN pending
  BY <1>2 DEF WindowInv, PendingOK
<1>7. /\ DOMAIN pending' = DOMAIN pending \cup {n}
      /\ \A s \in DOMAIN pending : pending'[s] = pending[s]
      /\ pending'[n] = PageChild
  BY <1>1, <1>6
<1>8. PageChild.cursor = cursor /\ PageChild.status = "running"
      /\ PageChild \in [cursor : Cursor, status : {"running", "succeeded", "failed"}]
  BY DEF PageChild, PagesTypeOK
<1>9. n + 1 \in 0..Pages /\ n \in 0..(Pages - 1)
  BY <1>2, <1>3
<1>10. PagesTypeOK'
  <2>1. MaxAttempt \in Nat
    BY WindowAssumption DEF WindowAssumption
  <2>2. DOMAIN pending' \subseteq 0..(Pages - 1)
        /\ \A s \in DOMAIN pending' : pending'[s] \in [cursor : Cursor, status : {"running", "succeeded", "failed"}]
    BY <1>7, <1>8, <1>9 DEF PagesTypeOK
  <2>3. page_fetch_attempt' \in 0..MaxAttempt
    BY <1>1, <2>1
  <2>4. QED
    BY <1>1, <1>5, <1>9, <1>20, <2>2, <2>3 DEF PagesTypeOK, inputVars
<1>11. started' = Begin..(Ahead' - 1)
  BY <1>1, <1>2, <1>3, <1>4
<1>12. CursorOK'
  BY <1>2, <1>3, <1>4, <1>5, <1>11, <1>20 DEF CursorOK
<1>13. Ahead' - Begin <= limit \/ limit = None
  BY <1>2, <1>4
<1>14. BudgetOK'
  <2>1. UNCHANGED <<command, limit, failures>>
    BY <1>1 DEF inputVars
  <2>2. ~may_fetch' => stop_for_continue_as_new' \/ Ahead' = Pages + 1
    BY <1>5, <1>20
  <2>3. QED
    BY <1>2, <1>4, <1>13, <2>1, <2>2 DEF BudgetOK
<1>15. ControlOK'
  <2>1. UNCHANGED <<failures, answer>> /\ pc = "fetch" /\ pc' = "window"
    BY <1>1
  <2>2. stop_for_continue_as_new' => ~may_fetch' /\ Ahead' <= Pages
    BY <1>2, <1>3, <1>4, <1>5, <1>20
  <2>3. QED
    BY <1>2, <2>1, <2>2 DEF WindowInv, ControlOK
<1>16. PendingOK'
  <2>1. \A s \in DOMAIN pending : s \in 0..(n - 1) /\ PageAt(pending'[s].cursor) = Base + s
    BY <1>7 DEF WindowInv, PendingOK
  <2>2. \A s \in DOMAIN pending' : s \in 0..n /\ PageAt(pending'[s].cursor) = Base + s
    BY <1>2, <1>3, <1>7, <1>8, <2>1
  <2>3. n = (n + 1) - 1
    BY <1>2
  <2>4. QED
    BY <1>1, <1>2, <1>4, <2>2, <2>3 DEF PendingOK
<1>17. SettledOK'
  <2>1. Unsettled(n)' /\ \A s \in 0..(n - 1) : Unsettled(s)' <=> Unsettled(s)
    <3>1. UNCHANGED failures /\ \A s \in 0..(n - 1) : s # n
      BY <1>1, <1>2
    <3>2. \A s \in 0..(n - 1) : /\ s \in DOMAIN pending' <=> s \in DOMAIN pending
                                /\ s \in DOMAIN pending => pending'[s] = pending[s]
      BY <1>7, <3>1
    <3>3. Unsettled(n)'
      BY <1>7, <1>8 DEF Unsettled
    <3>4. \A s \in 0..(n - 1) : Unsettled(s)' <=> Unsettled(s)
      BY <3>1, <3>2 DEF Unsettled
    <3>5. QED
      BY <3>3, <3>4
  <2>2. UNCHANGED Succeeded
    BY <1>6, <1>7, <1>8 DEF Succeeded
  <2>3. Base + n \notin settled
    BY <1>2 DEF WindowInv, SettledOK
  <2>4. settled \subseteq Begin..(Ahead' - 1)
    BY <1>2, <1>4 DEF WindowInv, SettledOK
  <2>5. \A s \in 0..((n + 1) - 1) : s = n \/ s \in 0..(n - 1)
    BY <1>2
  <2>6. pc # "closed"
    BY <1>1
  <2>7. \A s \in 0..((n + 1) - 1) : Base + s \in settled <=> ~Unsettled(s)'
    <3>1. \A s \in 0..(n - 1) : Base + s \in settled <=> ~Unsettled(s)
      BY <2>6 DEF WindowInv, SettledOK
    <3>2. QED
      BY <2>1, <2>3, <2>5, <3>1
  <2>8. QED
    BY <1>1, <1>4, <2>2, <2>4, <2>6, <2>7 DEF WindowInv, SettledOK
<1>18. PageAt(cursor) \notin started
  BY <1>2, <1>3
<1>19. QED
  BY <1>1, <1>10, <1>12, <1>14, <1>15, <1>16, <1>17, <1>18 DEF WindowInv, inputVars

\* The children that have ended leave the window.
LEMMA JoinKeeps ==
  ASSUME PagesTypeOK, WindowInv, Join
  PROVE  PagesTypeOK' /\ WindowInv'
<1> PICK failed : failed = {s \in Done : pending[s].status = "failed"}
  OBVIOUS
<1>1. /\ failures' = failures \cup {<<s, pending[s].cursor>> : s \in failed}
      /\ pages_completed' = pages_completed + Cardinality(Done \ failed)
      /\ may_fetch' = (may_fetch /\ failed = {})
      /\ stop_for_continue_as_new' = (stop_for_continue_as_new /\ failed = {})
      /\ pending' = [s \in Open |-> pending[s]]
      /\ pc = "wait" /\ pc' = "window"
      /\ UNCHANGED <<inputVars, command, cursor, pages_started, page_fetch_attempt, suggested,
                     answer, historyVars>>
  BY DEF Join
<1>2. /\ may_fetch' \in BOOLEAN /\ (may_fetch' <=> may_fetch /\ failed = {})
      /\ stop_for_continue_as_new' \in BOOLEAN
      /\ stop_for_continue_as_new' <=> stop_for_continue_as_new /\ failed = {}
  BY <1>1, Zenon
<1>3. /\ Open \subseteq DOMAIN pending /\ failed \subseteq DOMAIN pending
      /\ \A s \in DOMAIN pending : /\ s \in Open <=> pending[s].status = "running"
                                   /\ s \in failed <=> pending[s].status = "failed"
                                   /\ pending[s].status \in {"running", "succeeded", "failed"}
                                   /\ pending[s].cursor \in Cursor
  BY DEF Open, Done, PagesTypeOK
<1>4. Done \ failed = Succeeded
  BY <1>3 DEF Done, Succeeded
<1>5. DOMAIN pending' = Open /\ \A s \in Open : pending'[s] = pending[s]
  BY <1>1
<1>6. UNCHANGED <<Base, Begin, Ahead, ReachedLimit>>
  BY <1>1 DEF inputVars, Base, Begin, Ahead, ReachedLimit
<1>7. /\ command.completed_page_count + pages_completed + Cardinality(Succeeded) = Cardinality(settled)
      /\ command.completed_page_count \in Nat /\ pages_completed \in Nat
      /\ Cardinality(Succeeded) \in Nat /\ Cardinality(settled) \in Nat
      /\ Cardinality(settled) <= Pages /\ Pages \in Nat
  BY <1>1, Counts, Cursors DEF WindowInv, SettledOK, PagesTypeOK
<1>8. pages_completed' \in 0..Pages
      /\ command.completed_page_count + pages_completed' = Cardinality(settled)
  <2>1. pages_completed' = pages_completed + Cardinality(Succeeded)
    BY <1>1, <1>4
  <2>2. \A a, b, c, d, e \in Nat : a + b + c = d /\ d <= e => b + c \in 0..e /\ a + (b + c) = d
    OBVIOUS
  <2>3. QED
    BY <1>7, <2>1, <2>2
<1>9. /\ \A f \in failures : f \in failures'
      /\ \A s \in failed : <<s, pending[s].cursor>> \in failures'
      /\ \A f \in failures' : f \in failures \/ \E s \in failed : f = <<s, pending[s].cursor>>
  BY <1>1
<1>10. /\ \A s \in failed : \E f \in failures' : f[1] = s
       /\ \A f \in failures' : f \in failures \/ (f[1] \in failed /\ f[2] = pending[f[1]].cursor)
  <2>1. \A s : \A c : <<s, c>>[1] = s /\ <<s, c>>[2] = c
    OBVIOUS
  <2>2. \A s \in failed : \E f \in failures' : f[1] = s
    BY <1>9, <2>1
  <2>3. ASSUME NEW f \in failures', f \notin failures
        PROVE  f[1] \in failed /\ f[2] = pending[f[1]].cursor
    <3>1. PICK s \in failed : f = <<s, pending[s].cursor>>
      BY <1>9, <2>3
    <3>2. QED
      BY <3>1
  <2>4. QED
    BY <2>2, <2>3
<1>11. PagesTypeOK'
  <2>1. /\ DOMAIN pending' \subseteq 0..(Pages - 1)
        /\ \A s \in DOMAIN pending' : pending'[s] \in [cursor : Cursor, status : {"running", "succeeded", "failed"}]
    BY <1>3, <1>5 DEF PagesTypeOK
  <2>2. failures' \subseteq (0..(Pages - 1)) \X Cursor
    BY <1>3, <1>9 DEF PagesTypeOK
  <2>3. QED
    BY <1>1, <1>2, <1>8, <2>1, <2>2 DEF PagesTypeOK, inputVars
<1>12. CursorOK'
  BY <1>1, <1>2, <1>6 DEF WindowInv, CursorOK, historyVars
<1>13. failures' = {} <=> failures = {} /\ failed = {}
  BY <1>9
<1>14. BudgetOK' /\ ControlOK'
  BY <1>1, <1>2, <1>6, <1>13 DEF WindowInv, BudgetOK, ControlOK, inputVars
<1>15. PendingOK'
  BY <1>1, <1>3, <1>5, <1>6, <1>10 DEF WindowInv, PendingOK
<1>16. SettledOK'
  <2>1. Succeeded' = {}
    BY <1>3, <1>5 DEF Succeeded
  <2>2. ASSUME NEW s PROVE Unsettled(s)' <=> Unsettled(s)
    <3>1. \A f \in failures : f[1] \notin DOMAIN pending
      BY DEF WindowInv, PendingOK
    <3>2. CASE s \in Open
      BY <1>3, <1>5, <3>2 DEF Unsettled
    <3>3. CASE s \in failed
      BY <1>3, <1>10, <3>3 DEF Unsettled
    <3>4. CASE s \in DOMAIN pending /\ s \notin Open /\ s \notin failed
      BY <1>3, <1>5, <1>10, <3>1, <3>4 DEF Unsettled
    <3>5. CASE s \notin DOMAIN pending
      BY <1>3, <1>5, <1>9, <1>10, <3>5 DEF Unsettled
    <3>6. QED
      BY <1>3, <3>2, <3>3, <3>4, <3>5
  <2>3. Cardinality(Succeeded') = 0
    BY <2>1, FS_EmptySet
  <2>4. command.completed_page_count + pages_completed' + 0 = Cardinality(settled)
    BY <1>7, <1>8
  <2>5. QED
    BY <1>1, <1>6, <2>2, <2>3, <2>4 DEF WindowInv, SettledOK, historyVars
<1>17. QED
  BY <1>11, <1>12, <1>14, <1>15, <1>16 DEF WindowInv

\* A drained window without a failure has settled everything it started.
LEMMA DrainedSettled ==
  ASSUME PagesTypeOK, WindowInv, Drained
  PROVE  /\ command.completed_page_count + pages_completed = Cardinality(settled)
         /\ failures = {} => /\ settled = Begin..(Ahead - 1)
                             /\ Cardinality(settled) = Ahead - Begin
<1>1. pc # "closed" /\ DOMAIN pending = {}
  BY DEF Drained
<1>2. Cardinality(Succeeded) = 0
  BY <1>1, FS_EmptySet DEF Succeeded
<1>3. command.completed_page_count + pages_completed + 0 = Cardinality(settled)
      /\ command.completed_page_count \in Nat /\ pages_completed \in Nat
  BY <1>1, <1>2 DEF WindowInv, SettledOK, PagesTypeOK
<1>4. ASSUME failures = {}
      PROVE  settled = Begin..(Ahead - 1) /\ Cardinality(settled) = Ahead - Begin
  <2>1. /\ Base \in Nat /\ Begin \in Nat /\ Ahead \in Nat /\ Ahead = Base + pages_started
        /\ pages_started \in Nat /\ Begin <= Base
    BY Positions DEF WindowInv, CursorOK
  <2>2. \A s \in 0..(pages_started - 1) : Base + s \in settled
    BY <1>1, <1>4 DEF WindowInv, SettledOK, Unsettled
  <2>3. ASSUME NEW p \in Begin..(Ahead - 1) PROVE p \in settled
    <3>1. CASE p < Base
      BY <1>1, <2>1, <3>1 DEF WindowInv, SettledOK
    <3>2. CASE p >= Base
      <4>1. p - Base \in 0..(pages_started - 1) /\ Base + (p - Base) = p
        BY <2>1, <3>2
      <4>2. QED
        BY <2>2, <4>1
    <3>3. QED
      BY <2>1, <3>1, <3>2
  <2>4. settled = Begin..(Ahead - 1)
    BY <2>3 DEF WindowInv, SettledOK
  <2>5. Cardinality(Begin..(Ahead - 1)) = IF Begin > Ahead - 1 THEN 0 ELSE (Ahead - 1) - Begin + 1
    BY <2>1, FS_Interval
  <2>6. QED
    BY <2>1, <2>4, <2>5
<1>5. QED
  BY <1>3, <1>4

\* The next run starts where this one stopped.
LEMMA ContinueAsNewKeeps ==
  ASSUME PagesTypeOK, WindowInv, ContinueAsNew
  PROVE  PagesTypeOK' /\ WindowInv'
<1>1. /\ Drained /\ stop_for_continue_as_new /\ failures = {}
      /\ command' = [next_page_cursor |-> cursor, page_fetch_attempt |-> page_fetch_attempt,
                     completed_page_count |-> command.completed_page_count + pages_completed,
                     prior_error_count |-> command.prior_error_count + Cardinality(failures)]
      /\ cursor' = cursor /\ may_fetch' = TRUE /\ pages_started' = 0 /\ pages_completed' = 0
      /\ stop_for_continue_as_new' = FALSE /\ suggested' = FALSE
      /\ UNCHANGED <<inputVars, pending, failures, page_fetch_attempt, pc, answer, historyVars>>
  BY DEF ContinueAsNew, NextRunCursor
<1>2. /\ Begin \in Nat /\ 1 <= Begin /\ Ahead \in Nat /\ Ahead <= Pages /\ PageAt(cursor) = Ahead
      /\ Begin <= Ahead /\ Pages \in Nat /\ cursor \in Cursor
      /\ started = Begin..(Ahead - 1) /\ (limit # None => Ahead - Begin <= limit)
  <2>1. Ahead <= Pages /\ PageAt(cursor) = Ahead
    BY <1>1 DEF WindowInv, CursorOK, ControlOK
  <2>2. /\ Base \in Nat /\ Begin \in Nat /\ 1 <= Begin /\ Ahead \in Nat /\ Pages \in Nat
        /\ Ahead = Base + pages_started /\ pages_started \in Nat
    BY Positions, Cursors
  <2>3. Begin <= Base /\ started = Begin..(Ahead - 1) /\ (limit # None => Ahead - Begin <= limit)
    BY DEF WindowInv, CursorOK, BudgetOK
  <2>4. Begin <= Ahead
    BY <2>2, <2>3
  <2>5. QED
    BY <2>1, <2>2, <2>3, <2>4 DEF PagesTypeOK
<1>3. /\ command.completed_page_count + pages_completed = Ahead - Begin
      /\ settled = Begin..(Ahead - 1) /\ Cardinality(settled) = Ahead - Begin
  BY <1>1, DrainedSettled
<1>4. command.prior_error_count + Cardinality(failures) = 0
  <2>1. Cardinality(failures) = 0 /\ command.prior_error_count = 0
    BY <1>1, FS_EmptySet DEF PagesTypeOK
  <2>2. QED
    BY <2>1
<1>5. command' = [next_page_cursor |-> cursor, page_fetch_attempt |-> page_fetch_attempt,
                  completed_page_count |-> Ahead - Begin, prior_error_count |-> 0]
  BY <1>1, <1>3, <1>4
<1>6. Base' = Ahead /\ UNCHANGED Begin /\ Ahead' = Ahead
  BY <1>1, <1>2, <1>5 DEF Base, Begin, Ahead, inputVars
<1>7. PagesTypeOK'
  <2>1. Ahead - Begin \in 0..Pages /\ 0 \in 0..Pages
    BY <1>2
  <2>2. command' \in [next_page_cursor : Cursor, page_fetch_attempt : 0..MaxAttempt,
                      completed_page_count : 0..Pages, prior_error_count : {0}]
    BY <1>2, <1>5, <2>1 DEF PagesTypeOK
  <2>3. QED
    BY <1>1, <2>1, <2>2 DEF PagesTypeOK, inputVars
<1>8. CursorOK'
  BY <1>1, <1>2, <1>6 DEF CursorOK, historyVars
<1>9. BudgetOK'
  BY <1>1, <1>2, <1>5, <1>6 DEF BudgetOK, inputVars
<1>10. ControlOK'
  BY <1>1 DEF WindowInv, ControlOK, Drained
<1>11. PendingOK'
  BY <1>1 DEF PendingOK, Drained
<1>12. SettledOK'
  <2>1. Succeeded' = {} /\ Cardinality({}) = 0
    BY <1>1, FS_EmptySet DEF Succeeded, Drained
  <2>2. (Ahead - Begin) + 0 + 0 = Cardinality(settled)
    BY <1>2, <1>3
  <2>3. 0..(0 - 1) = {}
    OBVIOUS
  <2>4. QED
    BY <1>1, <1>3, <1>5, <1>6, <2>1, <2>2, <2>3 DEF SettledOK, historyVars
<1>13. QED
  BY <1>7, <1>8, <1>9, <1>10, <1>11, <1>12 DEF WindowInv

\* The earliest failure names the first page that is not settled.
LEMMA EarliestFailureProperties ==
  ASSUME PagesTypeOK, WindowInv, Drained, failures # {}
  PROVE  /\ EarliestFailure \in Cursor
         /\ PageAt(EarliestFailure) \in (Begin..(Ahead - 1)) \ settled
         /\ Begin..(PageAt(EarliestFailure) - 1) \subseteq settled
<1> DEFINE numbers == {f[1] : f \in failures}
<1>1. /\ Base \in Nat /\ Begin \in Nat /\ Ahead \in Nat /\ Ahead = Base + pages_started
      /\ pages_started \in Nat /\ Begin <= Base
  BY Positions DEF WindowInv, CursorOK
<1>2. pc # "closed" /\ DOMAIN pending = {}
  BY DEF Drained
<1>3. \A f \in failures : /\ f[1] \in 0..(pages_started - 1) /\ f[1] \in Int
                          /\ f[2] \in Cursor /\ PageAt(f[2]) = Base + f[1]
  BY DEF PagesTypeOK, WindowInv, PendingOK
<1>4. PICK n \in numbers : \A m \in numbers : n <= m
  <2>1. numbers \in SUBSET (0..(pages_started - 1)) /\ numbers # {}
    BY <1>3
  <2> HIDE DEF numbers
  <2>2. 0 \in Int /\ pages_started - 1 \in Int
    BY <1>1
  <2>3. IsFiniteSet(0..(pages_started - 1))
    BY <2>2, FS_Interval
  <2>4. IsFiniteSet(numbers)
    BY <2>1, <2>3, FS_Subset
  <2>5. numbers \in SUBSET Int
    BY <2>1
  <2>6. QED
    BY <2>1, <2>4, <2>5, Least
<1>5. \E f \in failures : \A g \in failures : f[1] <= g[1]
  BY <1>4
<1>6. PICK f \in failures : f = (CHOOSE x \in failures : \A g \in failures : x[1] <= g[1])
                            /\ \A g \in failures : f[1] <= g[1]
  BY <1>5
<1>7. EarliestFailure = f[2]
  BY <1>6 DEF EarliestFailure
<1> PICK s : s = f[1]
  OBVIOUS
<1>8. /\ s \in 0..(pages_started - 1) /\ s \in Int
      /\ f[2] \in Cursor /\ PageAt(f[2]) = Base + s
  BY <1>3
<1>9. Base + s \in Begin..(Ahead - 1) /\ Base + s \notin settled
  <2>1. Unsettled(s)
    BY DEF Unsettled
  <2>2. QED
    BY <1>1, <1>2, <1>8, <2>1 DEF WindowInv, SettledOK
<1>10. ASSUME NEW p \in Begin..((Base + s) - 1) PROVE p \in settled
  <2>1. CASE p < Base
    BY <1>1, <1>2, <2>1 DEF WindowInv, SettledOK
  <2>2. CASE p >= Base
    <3>1. PICK t : t = p - Base
      OBVIOUS
    <3>2. t \in 0..(pages_started - 1) /\ t < s /\ Base + t = p
      BY <1>1, <1>8, <2>2, <3>1
    <3>3. \A g \in failures : g[1] # t
      BY <1>3, <1>6, <1>8, <3>2
    <3>4. ~Unsettled(t)
      BY <1>2, <3>3 DEF Unsettled
    <3>5. QED
      BY <1>2, <3>2, <3>4 DEF WindowInv, SettledOK
  <2>3. QED
    BY <1>1, <1>8, <2>1, <2>2
<1>11. Begin..((Base + s) - 1) \subseteq settled
  BY <1>10
<1>12. QED
  BY <1>7, <1>8, <1>9, <1>11

\* The pages of a window lie within the span of its pass, and a window that has
\* stopped without a failure has filled it.
LEMMA SpanFilled ==
  ASSUME PagesTypeOK, WindowInv
  PROVE  /\ Begin..(Ahead - 1) \subseteq Span(first, limit)
         /\ ~may_fetch /\ ~stop_for_continue_as_new /\ failures = {} =>
              /\ Span(first, limit) = Begin..(Ahead - 1)
              /\ NextCursor(Reach(first, limit)) = cursor
              /\ cursor = None <=> Reach(first, limit) = Pages
<1>1. /\ Base \in Nat /\ Begin \in Nat /\ 1 <= Begin /\ Ahead \in Nat /\ Pages \in Nat
      /\ Ahead <= Pages + 1 /\ cursor \in Cursor
      /\ limit # None => limit \in Nat /\ limit > 0 /\ Ahead - Begin <= limit
      /\ Ahead <= Pages => PageAt(cursor) = Ahead
      /\ Ahead = Pages + 1 => cursor = None
  BY Positions, Cursors DEF WindowInv, CursorOK, BudgetOK, PagesTypeOK
<1>2. Span(first, limit) = Begin..Reach(first, limit)
      /\ Reach(first, limit) = IF limit = None \/ Begin + limit > Pages THEN Pages
                               ELSE Begin + limit - 1
  BY DEF Span, Reach, Begin
<1>3. Ahead - 1 <= Reach(first, limit) /\ Reach(first, limit) \in Int
  <2>1. CASE limit = None \/ Begin + limit > Pages
    BY <1>1, <1>2, <2>1
  <2>2. CASE limit # None /\ ~(Begin + limit > Pages)
    BY <1>1, <1>2, <2>2
  <2>3. QED
    BY <2>1, <2>2
<1>4. Begin..(Ahead - 1) \subseteq Begin..Reach(first, limit)
  BY <1>1, <1>3
<1>5. ASSUME ~may_fetch, ~stop_for_continue_as_new, failures = {}
      PROVE  /\ Reach(first, limit) = Ahead - 1
             /\ NextCursor(Reach(first, limit)) = cursor
             /\ cursor = None <=> Reach(first, limit) = Pages
  <2>1. Ahead = Pages + 1 \/ (limit # None /\ Ahead - Begin = limit)
    BY <1>5 DEF WindowInv, BudgetOK
  <2>2. CASE Ahead = Pages + 1
    <3>1. Reach(first, limit) = Pages
      BY <1>1, <1>2, <2>2
    <3>2. QED
      BY <1>1, <2>2, <3>1 DEF NextCursor
  <2>3. CASE Ahead # Pages + 1 /\ limit # None /\ Ahead - Begin = limit
    <3>1. Reach(first, limit) = Ahead - 1 /\ Ahead <= Pages /\ Ahead # 1 /\ Ahead - 1 # Pages
          /\ Ahead - 1 + 1 = Ahead
      BY <1>1, <1>2, <2>3
    <3>2. cursor # None /\ cursor = Ahead
      BY <1>1, <3>1, Cursors DEF PageAt
    <3>3. QED
      BY <3>1, <3>2 DEF NextCursor
  <2>4. QED
    BY <2>1, <2>2, <2>3
<1>6. QED
  BY <1>2, <1>4, <1>5

\* The answer of a drained window is one its pass may give.
LEMMA ReturnKeeps ==
  ASSUME PagesTypeOK, WindowInv, Return
  PROVE  /\ PagesTypeOK' /\ WindowInv' /\ answer = None
         /\ answer' \in Answers(first, limit, settled)
         /\ UNCHANGED <<first, limit, settled, pages_started>>
<1>1. /\ Drained /\ ~(stop_for_continue_as_new /\ failures = {})
      /\ answer' = [status |-> IF command.prior_error_count + Cardinality(failures) > 0
                               THEN "partial" ELSE "succeeded",
                    cursor |-> IF failures # {} THEN EarliestFailure ELSE cursor,
                    finished |-> failures = {} /\ cursor = None,
                    pages |-> command.completed_page_count + pages_completed]
      /\ pc' = "closed"
      /\ UNCHANGED <<inputVars, command, windowVars, suggested, historyVars>>
  BY DEF Return
<1>2. command.completed_page_count + pages_completed = Cardinality(settled)
  BY <1>1, DrainedSettled
<1>3. /\ Cardinality(failures) \in Nat /\ (Cardinality(failures) = 0 <=> failures = {})
      /\ Cardinality(settled) \in 0..Pages /\ command.prior_error_count = 0
  BY Counts, Cursors DEF PagesTypeOK
<1>4. CASE failures # {}
  <2>1. command.prior_error_count + Cardinality(failures) > 0
    BY <1>3, <1>4
  <2>2. answer' = Partial(EarliestFailure, settled)
    BY <1>1, <1>2, <1>4, <2>1 DEF Partial
  <2>3. /\ EarliestFailure \in Cursor
        /\ PageAt(EarliestFailure) \in Span(first, limit) \ settled
        /\ Begin..(PageAt(EarliestFailure) - 1) \subseteq settled
    BY <1>1, <1>4, EarliestFailureProperties, SpanFilled
  <2>4. answer' \in Answers(first, limit, settled)
    BY <2>2, <2>3 DEF Answers, Begin
  <2>5. answer' \in AnyAnswer
    BY <1>3, <2>2, <2>3 DEF Partial, AnyAnswer
  <2>6. QED
    BY <1>1, <2>4, <2>5
    DEF PagesTypeOK, WindowInv, CursorOK, BudgetOK, ControlOK, PendingOK, SettledOK, inputVars,
        windowVars, historyVars, Base, Begin, Ahead, Drained, Unsettled, ReachedLimit
<1>5. CASE failures = {}
  <2>1. ~(command.prior_error_count + Cardinality(failures) > 0)
    BY <1>3, <1>5
  <2>2. ~may_fetch /\ ~stop_for_continue_as_new
    BY <1>1, <1>5 DEF Drained
  <2>3. /\ settled = Span(first, limit)
        /\ NextCursor(Reach(first, limit)) = cursor
        /\ cursor = None <=> Reach(first, limit) = Pages
    BY <1>1, <1>5, <2>2, DrainedSettled, SpanFilled
  <2>4. answer' = Success(first, limit, settled)
    BY <1>1, <1>2, <1>5, <2>1, <2>3 DEF Success
  <2>5. answer' \in Answers(first, limit, settled)
    BY <2>3, <2>4 DEF Answers
  <2>6. answer' \in AnyAnswer
    BY <1>3, <2>3, <2>4 DEF Success, AnyAnswer, PagesTypeOK
  <2>7. QED
    BY <1>1, <2>5, <2>6
    DEF PagesTypeOK, WindowInv, CursorOK, BudgetOK, ControlOK, PendingOK, SettledOK, inputVars,
        windowVars, historyVars, Base, Begin, Ahead, Drained, Unsettled, ReachedLimit
<1>6. QED
  BY <1>4, <1>5

\* An exception may always be the answer; no child outlives it.
LEMMA LeaveKeeps ==
  ASSUME PagesTypeOK, WindowInv, Leave, pc # "closed"
  PROVE  /\ PagesTypeOK' /\ WindowInv' /\ answer = None
         /\ answer' \in Answers(first, limit, settled)
         /\ UNCHANGED <<first, limit, settled, pages_started>>
<1>1. /\ pc' = "closed" /\ answer' = Raised /\ pending' = <<>>
      /\ UNCHANGED <<inputVars, command, cursor, may_fetch, failures, pages_started,
                     page_fetch_attempt, stop_for_continue_as_new, pages_completed, suggested,
                     settled, started>>
  BY DEF Leave
<1>2. DOMAIN pending' = {}
  BY <1>1
<1>3. Raised \in AnyAnswer /\ Raised \in Answers(first, limit, settled)
  BY Cursors DEF Raised, AnyAnswer, Answers, Cursor
<1>4. UNCHANGED <<Base, Begin, Ahead, ReachedLimit>>
  BY <1>1 DEF inputVars, Base, Begin, Ahead, ReachedLimit
<1>5. PagesTypeOK'
  BY <1>1, <1>2, <1>3 DEF PagesTypeOK, inputVars
<1>6. WindowInv'
  BY <1>1, <1>2, <1>4
  DEF WindowInv, CursorOK, BudgetOK, ControlOK, PendingOK, SettledOK, inputVars
<1>7. QED
  BY <1>1, <1>3, <1>5, <1>6 DEF WindowInv, ControlOK, inputVars

-----------------------------------------------------------------------------
(* The theorems *)

\* The operators of the pass mean what they mean here.
LEMMA PassOperators ==
  /\ \A x, l : Pass!Span(x, l) = Span(x, l)
  /\ \A x, l, s : Pass!Answers(x, l, s) = Answers(x, l, s)
<1>1. \A c : Pass!PageAt(c) = PageAt(c)
  BY DEF Pass!PageAt, PageAt
<1>2. \A x, l : Pass!Reach(x, l) = Reach(x, l)
  BY <1>1 DEF Pass!Reach, Reach
<1>3. \A x, l : Pass!Span(x, l) = Span(x, l)
  BY <1>1, <1>2 DEF Pass!Span, Span
<1>4. \A p : Pass!NextCursor(p) = NextCursor(p)
  BY DEF Pass!NextCursor, NextCursor
<1>5. \A s : Pass!Cardinality(s) = Cardinality(s)
  BY DEF Pass!Cardinality, Cardinality
<1>6. \A x, l, s : Pass!Success(x, l, s) = Success(x, l, s)
  BY <1>2, <1>4, <1>5 DEF Pass!Success, Success
<1>7. \A c, s : Pass!Partial(c, s) = Partial(c, s)
  BY <1>5 DEF Pass!Partial, Partial
<1>8. Pass!Raised = Raised /\ Pass!Cursor = Cursor
  BY DEF Pass!Raised, Raised, Pass!Cursor, Cursor
<1>9. ASSUME NEW x, NEW l, NEW s
      PROVE  Pass!Answers(x, l, s) = Answers(x, l, s)
  BY <1>1, <1>3, <1>6, <1>7, <1>8 DEF Pass!Answers, Answers
<1>10. QED
  BY <1>3, <1>9

\* A run of the Workflow starts with an empty window.
LEMMA InitKeeps ==
  ASSUME Init
  PROVE  PagesTypeOK /\ WindowInv /\ Pass!PassInit
<1>1. /\ first \in Cursor /\ limit \in Limit /\ metered \in BOOLEAN
      /\ command = [next_page_cursor |-> first, page_fetch_attempt |-> 0,
                    completed_page_count |-> 0, prior_error_count |-> 0]
      /\ cursor = first /\ may_fetch = TRUE /\ pending = <<>> /\ failures = {}
      /\ pages_started = 0 /\ pages_completed = 0 /\ page_fetch_attempt = 0
      /\ stop_for_continue_as_new = FALSE /\ pc = "window" /\ suggested = FALSE /\ answer = None
      /\ settled = {} /\ started = {} /\ spent = {}
  BY DEF Init
<1>2. DOMAIN pending = {}
  BY <1>1
<1>3. MaxAttempt \in Nat /\ Pages \in Nat /\ (limit # None => limit \in Nat \ {0})
  BY <1>1, WindowAssumption, Cursors DEF WindowAssumption
<1>4. PagesTypeOK
  <2>1. 0 \in 0..MaxAttempt /\ 0 \in 0..Pages
    BY <1>3
  <2>2. QED
    BY <1>1, <1>2, <2>1 DEF PagesTypeOK
<1>5. /\ Base = Begin /\ Ahead = Begin /\ Begin \in Nat /\ Begin >= 1 /\ Begin <= Pages
      /\ Begin = PageAt(cursor)
  <2>1. Base = Begin /\ Begin = PageAt(cursor)
    BY <1>1 DEF Base, Begin
  <2>2. QED
    BY <1>1, <1>4, <2>1, Positions
<1>6. Begin..(Ahead - 1) = {} /\ 0..(0 - 1) = {} /\ Begin..(Base - 1) = {}
  BY <1>5
<1>7. CursorOK
  BY <1>1, <1>3, <1>5, <1>6 DEF CursorOK
<1>8. BudgetOK
  BY <1>1, <1>3, <1>5 DEF BudgetOK
<1>9. ControlOK /\ PendingOK
  BY <1>1, <1>2 DEF ControlOK, PendingOK
<1>10. SettledOK
  <2>1. Succeeded = {} /\ Cardinality({}) = 0
    BY <1>2, FS_EmptySet DEF Succeeded
  <2>2. QED
    BY <1>1, <1>6, <2>1 DEF SettledOK
<1>11. Pass!PassInit
  BY <1>1, <1>3 DEF Pass!PassInit, Pass!Cursor, Cursor
<1>12. QED
  BY <1>4, <1>7, <1>8, <1>9, <1>10, <1>11 DEF WindowInv

\* Every step keeps the window's invariant, starts a new page if it starts one,
\* and is a step of the pass or none.
LEMMA StepKeeps ==
  ASSUME PagesTypeOK, WindowInv, [Next \/ Closed]_vars
  PROVE  /\ PagesTypeOK' /\ WindowInv'
         /\ pages_started' = pages_started + 1 => PageAt(cursor) \notin started
         /\ [Pass!PassNext]_(Pass!passVars)
<1>1. pages_started \in Nat
  BY Positions
<1>2. ASSUME answer = None, answer' \in Answers(first, limit, settled),
             UNCHANGED <<first, limit, settled>>
      PROVE  Pass!PassNext
  BY <1>2, PassOperators DEF Pass!PassNext, Pass!Conclude
<1>3. CASE StopAtLimit \/ RequestPage \/ Granted \/ Denied \/ Exhausted \/ Wait \/ Cancel \/ Suggest
  <2>1. UNCHANGED <<first, limit, settled, answer, pages_started>>
    BY <1>3 DEF StopAtLimit, RequestPage, Granted, Denied, Exhausted, Wait, Cancel, Suggest, inputVars,
       windowVars, historyVars
  <2>2. PagesTypeOK' /\ WindowInv'
    BY <1>3, HoldKeeps
  <2>3. QED
    BY <1>1, <2>1, <2>2 DEF Pass!passVars
<1>4. CASE \E s \in DOMAIN pending : PageEnds(s)
  <2>1. PICK s \in DOMAIN pending : PageEnds(s)
    BY <1>4
  <2>2. UNCHANGED pages_started
    BY <2>1 DEF PageEnds
  <2>3. /\ PagesTypeOK' /\ WindowInv'
        /\ \/ UNCHANGED settled
           \/ /\ Base + s \in Begin..(Ahead - 1) /\ Base + s \notin settled
              /\ settled' = settled \cup {Base + s}
        /\ answer = None /\ UNCHANGED <<first, limit, answer>>
    BY <2>1, PageEndsKeeps
  <2>4. CASE UNCHANGED settled
    BY <1>1, <2>2, <2>3, <2>4 DEF Pass!passVars
  <2>5. CASE /\ Base + s \in Begin..(Ahead - 1) /\ Base + s \notin settled
             /\ settled' = settled \cup {Base + s}
    <3>1. Base + s \in Span(first, limit) \ settled
      BY <2>5, SpanFilled
    <3>2. Base + s \in 1..Pages
      <4>1. /\ Begin \in Nat /\ Begin >= 1 /\ Ahead \in Nat /\ Ahead <= Pages + 1
            /\ Pages \in Nat
        BY Positions, Cursors DEF WindowInv, CursorOK
      <4>2. Begin..(Ahead - 1) \subseteq 1..Pages
        BY <4>1
      <4>3. QED
        BY <2>5, <4>2
    <3>3. Pass!Settle(Base + s)
      BY <2>3, <2>5, <3>1, PassOperators DEF Pass!Settle
    <3>4. Pass!PassNext
      BY <3>2, <3>3 DEF Pass!PassNext, Pass!Page
    <3>5. QED
      BY <1>1, <2>2, <2>3, <3>4
  <2>6. QED
    BY <2>3, <2>4, <2>5
<1>5. CASE Fetched
  <2>1. /\ PagesTypeOK' /\ WindowInv' /\ PageAt(cursor) \notin started
        /\ UNCHANGED <<first, limit, settled, answer>>
    BY <1>5, FetchedKeeps
  <2>2. QED
    BY <2>1 DEF Pass!passVars
<1>6. CASE Join
  <2>1. UNCHANGED <<first, limit, settled, answer, pages_started>>
    BY <1>6 DEF Join, inputVars, historyVars
  <2>2. QED
    BY <1>1, <1>6, <2>1, JoinKeeps DEF Pass!passVars
<1>7. CASE ContinueAsNew
  <2>1. UNCHANGED <<first, limit, settled, answer>> /\ pages_started' = 0
    BY <1>7 DEF ContinueAsNew, inputVars, historyVars
  <2>2. QED
    BY <1>1, <1>7, <2>1, ContinueAsNewKeeps DEF Pass!passVars
<1>8. CASE Return
  <2>1. /\ PagesTypeOK' /\ WindowInv' /\ answer = None
        /\ answer' \in Answers(first, limit, settled)
        /\ UNCHANGED <<first, limit, settled, pages_started>>
    BY <1>8, ReturnKeeps
  <2>2. QED
    BY <1>1, <1>2, <2>1
<1>9. CASE RequestFails \/ FetchFails \/ CancelEnds
  <2>1. Leave /\ pc # "closed"
    BY <1>9 DEF RequestFails, FetchFails, CancelEnds
  <2>2. /\ PagesTypeOK' /\ WindowInv' /\ answer = None
        /\ answer' \in Answers(first, limit, settled)
        /\ UNCHANGED <<first, limit, settled, pages_started>>
    BY <2>1, LeaveKeeps
  <2>3. QED
    BY <1>1, <1>2, <2>2
<1>10. CASE UNCHANGED vars
  <2>1. UNCHANGED <<inputVars, command, windowVars, pc, suggested, answer, historyVars>>
    BY <1>10 DEF vars
  <2>2. QED
    BY <1>1, <2>1
    DEF PagesTypeOK, WindowInv, CursorOK, BudgetOK, ControlOK, PendingOK, SettledOK, inputVars,
        windowVars, historyVars, Base, Begin, Ahead, Succeeded, Unsettled, ReachedLimit,
        Pass!passVars
<1>11. QED
  BY <1>3, <1>4, <1>5, <1>6, <1>7, <1>8, <1>9, <1>10 DEF Next, Progress, Step, Closed

\* The types of the window, and the positions of its pages.
THEOREM PagesTypeCorrect == Spec => [](PagesTypeOK /\ WindowInv)
<1>1. Init => PagesTypeOK /\ WindowInv
  BY InitKeeps
<1>2. PagesTypeOK /\ WindowInv /\ [Next \/ Closed]_vars => (PagesTypeOK /\ WindowInv)'
  BY StepKeeps
<1>3. QED
  BY <1>1, <1>2, PTL DEF Spec

\* A page is handed to a child once in a pass, whatever runs, failures and
\* retries it is split into.
THEOREM PageStartsOnceCorrect == Spec => PageStartsOnce
<1>1. PagesTypeOK /\ WindowInv /\ [Next \/ Closed]_vars
        => [pages_started' = pages_started + 1 => PageAt(cursor) \notin started]_vars
  BY StepKeeps
<1>2. QED
  BY <1>1, PagesTypeCorrect, PTL DEF Spec, PageStartsOnce

\* The window implements the promise of a pass: no answer leads past a page
\* that has not been completed.
THEOREM PassRefined == Spec => PassIsKept
<1>1. Init => Pass!PassInit
  BY InitKeeps
<1>2. PagesTypeOK /\ WindowInv /\ [Next \/ Closed]_vars => [Pass!PassNext]_(Pass!passVars)
  BY StepKeeps
<1>3. QED
  BY <1>1, <1>2, PagesTypeCorrect, PTL DEF Spec, PassIsKept, Pass!PassSpec
=============================================================================
