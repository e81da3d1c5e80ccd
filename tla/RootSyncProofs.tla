--------------------------- MODULE RootSyncProofs ---------------------------
(***************************************************************************)
(* A root sync and its remediations, for every listing, window, slice,      *)
(* batch and number of resources.                                           *)
(*                                                                          *)
(* The argument: a valid user of the listing is in exactly one place.  It   *)
(* is expected (on a page still to be listed), waiting in the buffer, open  *)
(* in the batch, synced, or handed to a remediation; and whatever has not   *)
(* been synced or handed over has not been touched.  So a user is handed    *)
(* over once, remediations never share a user, and when nothing is          *)
(* expected, waiting or open, the root has accounted for everyone.  Its     *)
(* cursors stand for pages that have been settled: those before a cursor,   *)
(* and all pages of a completed resource.                                   *)
(***************************************************************************)
EXTENDS RootSync, ListsProofs

\* The root has a batch: it waits for it, counts it, or hands its failures over.
Batching == {"join", "remediate", "advance"}
Counting == {"remediate", "advance"}

\* The pages of users that are still to be listed, and their users.
PageUsers(i) == Range(Listing[i]) \cap Valid
ComingPages ==
  IF pc \in {"finish", "closed"} \/ exhausted THEN {}
  ELSE IF mode = "ordinary" /\ pc \in Batching
  THEN (ListPage + 1)..Len(Listing)
  ELSE ListPage..Len(Listing)
From(page) == UNION {PageUsers(i) : i \in page..Len(Listing)}
Expected == UNION {PageUsers(i) : i \in ComingPages}

\* The users of the batch whose result has not been counted or handed over.
OpenResults ==
  CASE pc = "advance" -> {"unfinished"}
    [] pc = "remediate" -> {"unfinished", "failed"}
    [] OTHER -> {"none", "running", "finished", "unfinished", "failed"}
Opened == {u \in Range(active) : result[u] \in OpenResults}

Untouched == Expected \cup Range(buffered) \cup Opened
Handed == {u \in User : handed[u] = 1}

\* Counted as failed, and not handed over yet.
Failing == IF pc = "remediate" THEN With("failed") ELSE {}
Aborted == pc = "closed" /\ status \in {"failed", "canceled"}

\* Types that RootTypeOK does not state.
StateTypeOK ==
  /\ exhausted \in BOOLEAN /\ fresh \in BOOLEAN /\ suggested \in BOOLEAN /\ moved \in BOOLEAN
  /\ failed_remediated \in BOOLEAN
  /\ active \in Seq(User) /\ buffered \in Seq(User) /\ failed \in Seq(User)
  /\ synced \in SUBSET User /\ handed \in [User -> {0, 1}]
  /\ DOMAIN user = User /\ DOMAIN settled = User
  /\ result \in [User -> {"none", "running", "finished", "unfinished", "failed"}]
  /\ phase \in [User -> {"none", "recent", "backfill", "activated", "failed"}]
  /\ IsFiniteSet(spent) /\ user_page_attempt <= Cardinality(spent)
  /\ Cardinality(spent) <= MaxExhausted /\ user_page_attempt \in Nat
  /\ status = "running" <=> pc \notin {"closed", "denied"}
  /\ pc = "denied" => status = "failed"

\* Where the root is, and what its batch holds there.
ControlOK ==
  /\ pc = "carried" => ~failed_remediated
  /\ ~failed_remediated => \/ Aborted
                           \/ pc \in {"start", "carried"} /\ failed = Carried /\ failed # <<>>
  /\ mode = "ordinary" =>
       /\ ~exhausted /\ buffered = <<>> /\ pc # "refill"
       /\ pc \notin Batching => active = <<>>
       /\ \A u \in User : result[u] # "unfinished"
  /\ mode = "round" /\ pc = "list" => ~exhausted
  /\ pc \in {"finish", "closed"} => active = <<>> /\ buffered = <<>>
  /\ pc = "finish" /\ mode = "round" => exhausted
  /\ pc \in Batching =>
       \A u \in User : u \in Range(active) <=> result[u] # "none"
  /\ pc \in Counting => With("running") = {}

\* Every user is in one place.
PlacesOK ==
  /\ NoRepeats(active) /\ NoRepeats(buffered)
  /\ Range(active) \cap Range(buffered) = {}
  /\ Expected \cap (Range(active) \cup Range(buffered)) = {}
  /\ Range(active) \cup Range(buffered) \cup synced \subseteq Listed
  /\ \A u \in User : handed[u] = 0 => phase[u] = "none"
  /\ \A u \in User : ~(u \in synced /\ handed[u] = 1)
  /\ \A u \in Untouched : handed[u] = 0 /\ u \notin synced
  /\ ~failed_remediated => \A u \in Range(Carried) : handed[u] = 0
  /\ pc \in Counting => With("finished") \subseteq synced

\* No user is lost, and the numbers add up.
NumbersOK ==
  /\ ~Aborted =>
       /\ Listed \subseteq Untouched \cup synced \cup Handed
       /\ Range(failed) \subseteq Handed \cup Failing \cup CutOff
            \cup (IF failed_remediated THEN {} ELSE Range(Carried))
       /\ users_completed = Cardinality(synced)
       /\ users_failed = Cardinality((Handed \cap Listed) \cup Failing)
  /\ Aborted => users_completed = 0 /\ users_failed = 0

Remediations ==
  [users : SUBSET User, keys : Seq(User), errors : BOOLEAN,
   status : {"running", "completed", "failed", "canceled"}]

\* Remediations are numbered by the batch they come from, and share no user.
RemediationsOK ==
  /\ \A id \in DOMAIN remediation :
       /\ id[1] = "legacy" => failed_remediated
       /\ id[1] = "batch" => \/ id[2] < count \/ pc = "closed"
                             \/ id[2] = count /\ pc = "advance"
       /\ remediation[id] \in Remediations
       /\ remediation[id].users \subseteq Handed
       /\ remediation[id].keys \in Seq(remediation[id].users)
       /\ remediation[id].status \in {"running", "completed"} /\ ~remediation[id].errors =>
            \A u \in remediation[id].users :
              u \in Range(remediation[id].keys) \/ phase[u] = "activated"
       /\ remediation[id].status = "completed" =>
            ~remediation[id].errors /\ remediation[id].keys = <<>>
  /\ \A i, j \in DOMAIN remediation :
       i # j => remediation[i].users \cap remediation[j].users = {}

\* A cursor stands for the pages before it, and a completed resource for all.
PagesOf(r) == {r} \X (1..PageCount[r])
PagesBefore(r, cursor) == {r} \X (1..(Pass(r)!PageAt(cursor) - 1))
CursorsFit(cur) ==
  /\ cur.completed_resource_types \subseteq Resource
  /\ \A r \in Outstanding(cur) : ResumeCursor(cur, r) \in Pass(r)!Cursor
ResumesFit(cur, pages) ==
  /\ \A r \in cur.completed_resource_types : PagesOf(r) \subseteq pages
  /\ \A r \in Outstanding(cur) : PagesBefore(r, ResumeCursor(cur, r)) \subseteq pages

SettledOK ==
  \A u \in User :
    /\ CursorsFit(user[u])
    /\ settled[u] \subseteq EveryPage
    /\ ~moved => ResumesFit(user[u], settled[u])
    /\ phase[u] = "activated" => EveryPage \subseteq settled[u]
    /\ u \in synced /\ ~moved => EveryPage \subseteq settled[u]
    /\ pc \in Batching /\ result[u] = "finished" /\ ~moved => EveryPage \subseteq settled[u]

RootInv ==
  RootTypeOK /\ StateTypeOK /\ ControlOK /\ PlacesOK /\ NumbersOK /\ RemediationsOK /\ SettledOK

-----------------------------------------------------------------------------
(* The listing, and what a sync of a user settles *)

\* The pages of users share no valid user and repeat none.
LEMMA ListingPages ==
  /\ Len(Listing) \in Nat /\ Len(Listing) >= 1 /\ ListPages = 1..Len(Listing)
  /\ \A i \in ListPages : /\ Listing[i] \in Seq(User) /\ PageUsers(i) \subseteq Listed
                          /\ Within(Listing[i], Valid) \in Seq(User)
                          /\ Range(Within(Listing[i], Valid)) = PageUsers(i)
                          /\ NoRepeats(Within(Listing[i], Valid))
  /\ \A i, j \in ListPages : i # j => PageUsers(i) \cap PageUsers(j) = {}
  /\ Listed = UNION {PageUsers(i) : i \in ListPages}
  /\ Listed \in SUBSET User /\ IsFiniteSet(Listed)
  /\ Carried \in Seq(User) /\ Range(Carried) \cap Listed = {} /\ None \notin Int
<1>1. /\ IsFiniteSet(User) /\ Valid \subseteq User /\ Listing \in Seq(Seq(User))
      /\ Listing # <<>> /\ Carried \in Seq(User \ Listed) /\ None \notin Int
  BY RootAssumption, PageCountAssumption DEF RootAssumption, PageCountAssumption
<1>2. Len(Listing) \in Nat /\ ListPages = 1..Len(Listing) /\ \A i \in ListPages : Listing[i] \in Seq(User)
  BY <1>1, LenProperties, ElementOfSeq DEF ListPages
<1>3. Len(Listing) >= 1
  BY <1>1, <1>2, EmptySeq
<1>4. Listed = UNION {PageUsers(i) : i \in ListPages}
  BY DEF Listed, PageUsers
<1>5. ASSUME NEW i \in ListPages
      PROVE  /\ Within(Listing[i], Valid) \in Seq(User)
             /\ Range(Within(Listing[i], Valid)) = PageUsers(i)
             /\ NoRepeats(Within(Listing[i], Valid))
  <2>1. \A k, l \in DOMAIN Listing[i] : Listing[i][k] = Listing[i][l] /\ Listing[i][k] \in Valid => k = l
    BY ListedOnce DEF ListedOnce
  <2>2. PICK s : s = Listing[i]
    OBVIOUS
  <2>3. s \in Seq(User) /\ \A k, l \in DOMAIN s : s[k] = s[l] /\ s[k] \in Valid => k = l
    BY <1>2, <2>1, <2>2
  <2>4. /\ Within(s, Valid) \in Seq(User) /\ Range(Within(s, Valid)) = Range(s) \cap Valid
        /\ NoRepeats(Within(s, Valid))
    BY <2>3, WithinProperties
  <2>5. QED
    BY <2>2, <2>4 DEF PageUsers
<1>6. ASSUME NEW i \in ListPages, NEW j \in ListPages, NEW u \in PageUsers(i), u \in PageUsers(j)
      PROVE  i = j
  <2>1. PICK k \in DOMAIN Listing[i] : Listing[i][k] = u
    BY DEF PageUsers, Range
  <2>2. PICK l \in DOMAIN Listing[j] : Listing[j][l] = u
    BY <1>6 DEF PageUsers, Range
  <2>3. QED
    BY <2>1, <2>2, ListedOnce DEF ListedOnce, PageUsers
<1>7. Listed \in SUBSET User
  BY <1>1 DEF Listed
<1>8. IsFiniteSet(Listed)
  BY <1>1, <1>7, FS_Subset
<1>9. Carried \in Seq(User) /\ Range(Carried) \cap Listed = {}
  <2>1. \A i \in DOMAIN Carried : Carried[i] \in User \ Listed
    BY <1>1, ElementOfSeq, LenProperties
  <2>2. Carried \in Seq(User)
    BY <1>1
  <2>3. QED
    BY <2>1, <2>2 DEF Range
<1>10. QED
  BY <1>1, <1>2, <1>3, <1>4, <1>5, <1>6, <1>7, <1>8, <1>9

\* The users from a page on are those of the page and those after it.
LEMMA FromPage ==
  /\ \A p \in ListPages : From(p) = PageUsers(p) \cup From(p + 1) /\ PageUsers(p) \cap From(p + 1) = {}
  /\ From(1) = Listed /\ From(Len(Listing) + 1) = {}
<1>1. PICK n : n = Len(Listing)
  OBVIOUS
<1>2. n \in Nat /\ ListPages = 1..n
  BY <1>1, ListingPages
<1>3. \A p : From(p) = UNION {PageUsers(i) : i \in p..n}
  BY <1>1 DEF From
<1>4. ASSUME NEW p \in 1..n
      PROVE  From(p) = PageUsers(p) \cup From(p + 1) /\ PageUsers(p) \cap From(p + 1) = {}
  <2>1. p..n = {p} \cup (p + 1)..n /\ p \notin (p + 1)..n /\ (p + 1)..n \subseteq 1..n
    BY <1>2
  <2>2. From(p) = PageUsers(p) \cup From(p + 1)
    BY <1>3, <2>1
  <2>3. \A i \in (p + 1)..n : PageUsers(p) \cap PageUsers(i) = {}
    BY <1>2, <2>1, ListingPages
  <2>4. PageUsers(p) \cap From(p + 1) = {}
    BY <1>3, <2>3
  <2>5. QED
    BY <2>2, <2>4
<1>5. From(1) = Listed
  BY <1>2, <1>3, ListingPages
<1>6. From(n + 1) = {}
  <2>1. (n + 1)..n = {}
    BY <1>2
  <2>2. QED
    BY <1>3, <2>1
<1>7. QED
  BY <1>1, <1>2, <1>4, <1>5, <1>6

\* A fresh cursor stands for nothing.
LEMMA FreshFits ==
  CursorsFit(FreshUser) /\ \A pages : ResumesFit(FreshUser, pages)
<1>1. ASSUME NEW r \in Resource
      PROVE  ResumeCursor(FreshUser, r) = None /\ None \in Pass(r)!Cursor /\ Pass(r)!PageAt(None) = 1
  <2>1. ResumeCursor(FreshUser, r) = None
    BY DEF ResumeCursor, FreshUser
  <2>2. QED
    BY <2>1 DEF Pass!Cursor, Pass!PageAt
<1>2. FreshUser.completed_resource_types = {}
  BY DEF FreshUser
<1>3. \A r \in Outstanding(FreshUser) : r \in Resource
  BY DEF Outstanding
<1>4. 1..(1 - 1) = {}
  OBVIOUS
<1>5. \A r \in Resource : PagesBefore(r, ResumeCursor(FreshUser, r)) = {}
  BY <1>1, <1>4 DEF PagesBefore
<1>6. QED
  BY <1>1, <1>2, <1>3, <1>5 DEF CursorsFit, ResumesFit

\* An answer of a pass without an error stands for the pages it covers.
LEMMA AnswerCovers ==
  ASSUME NEW r \in Resource, NEW limit, limit = None \/ limit \in Nat \ {0},
         NEW first \in Pass(r)!Cursor, NEW pages, NEW answer \in Pass(r)!Answers(first, limit, pages),
         answer.status = "succeeded"
  PROVE  LET reach == Pass(r)!Reach(first, limit) IN
         /\ reach \in Int /\ 1 <= Pass(r)!PageAt(first) /\ Pass(r)!PageAt(first) \in Int
         /\ Pass(r)!PageAt(first) <= reach /\ reach <= PageCount[r]
         /\ Pass(r)!Span(first, limit) = Pass(r)!PageAt(first)..reach
         /\ answer.finished \in BOOLEAN
         /\ answer.finished <=> reach = PageCount[r]
         /\ ~answer.finished => /\ answer.cursor \in Pass(r)!Cursor
                                /\ Pass(r)!PageAt(answer.cursor) = reach + 1
         /\ limit = None => answer.finished
<1> PICK n : n = PageCount[r]
  OBVIOUS
<1> PICK reach : reach = Pass(r)!Reach(first, limit)
  OBVIOUS
<1> PICK p : p = Pass(r)!PageAt(first)
  OBVIOUS
<1>1. n \in Nat /\ n >= 1 /\ None \notin Int
  BY PageCountAssumption DEF PageCountAssumption, Resource
<1>2. p \in Int /\ 1 <= p /\ p <= n
  <2>1. CASE first = None
    BY <1>1, <2>1 DEF Pass!PageAt
  <2>2. CASE first # None
    BY <1>1, <2>2 DEF Pass!PageAt, Pass!Cursor
  <2>3. QED
    BY <2>1, <2>2
<1>3. reach = IF limit = None \/ p + limit > n THEN n ELSE p + limit - 1
  BY DEF Pass!Reach
<1>4. reach \in Int /\ p <= reach /\ reach <= n /\ (limit = None => reach = n)
  <2>1. CASE limit = None \/ p + limit > n
    BY <1>1, <1>2, <1>3, <2>1
  <2>2. CASE limit # None /\ ~(p + limit > n)
    BY <1>1, <1>2, <1>3, <2>2
  <2>3. QED
    BY <2>1, <2>2
<1>5. Pass(r)!Span(first, limit) = p..reach
  BY DEF Pass!Span
<1>6. answer.finished = (reach = n) /\ answer.cursor = Pass(r)!NextCursor(reach)
  <2>1. answer \in {Pass(r)!Success(first, limit, pages)}
    BY DEF Pass!Answers, Pass!Raised, Pass!Partial
  <2>2. QED
    BY <2>1 DEF Pass!Success
<1>7. ASSUME reach # n
      PROVE  answer.cursor \in Pass(r)!Cursor /\ Pass(r)!PageAt(answer.cursor) = reach + 1
  <2>1. answer.cursor = reach + 1
    BY <1>6, <1>7 DEF Pass!NextCursor
  <2>2. reach + 1 \in 2..n /\ reach + 1 \in Int
    BY <1>1, <1>2, <1>4, <1>7
  <2>3. QED
    BY <1>1, <2>1, <2>2 DEF Pass!Cursor, Pass!PageAt
<1>8. QED
  BY <1>2, <1>4, <1>5, <1>6, <1>7

\* A sync without an error settles what its resources' cursors say afterwards,
\* and one that says finished has settled everything.
LEMMA SyncSettles ==
  ASSUME NEW cur, NEW limit, limit = None \/ limit \in Nat \ {0},
         NEW outcome \in Outcomes(cur, limit), CursorsFit(cur), ~HasErrors(outcome),
         NEW pages
  PROVE  LET r == UserResult(cur, outcome)
             all == pages \cup SettledBy(cur, limit, outcome)
         IN /\ CursorsFit(r.user)
            /\ SettledBy(cur, limit, outcome) \subseteq EveryPage
            /\ ResumesFit(cur, pages) => /\ ResumesFit(r.user, all)
                                         /\ r.finished => EveryPage \subseteq all
            /\ limit = None => r.finished
<1> PICK by : by = SettledBy(cur, limit, outcome)
  OBVIOUS
<1> DEFINE asked == Outstanding(cur)
           Reached(q) == Pass(q)!Reach(ResumeCursor(cur, q), limit)
           First(q) == Pass(q)!PageAt(ResumeCursor(cur, q))
           finished == {q \in asked : outcome[q].finished}
<1>1. DOMAIN outcome = asked /\ \A q \in asked : outcome[q] \in PassAnswers(cur, q, limit)
  BY DEF Outcomes
<1>2. \A q \in asked : /\ q \in Resource /\ q \notin cur.completed_resource_types
                       /\ outcome[q].status = "succeeded"
                       /\ ResumeCursor(cur, q) \in Pass(q)!Cursor
  BY <1>1 DEF HasErrors, Outstanding, CursorsFit
<1>3. ASSUME NEW q \in asked
      PROVE  /\ Reached(q) \in Int /\ First(q) \in Int /\ 1 <= First(q)
             /\ First(q) <= Reached(q) /\ Reached(q) <= PageCount[q]
             /\ Pass(q)!Span(ResumeCursor(cur, q), limit) = First(q)..Reached(q)
             /\ outcome[q].finished \in BOOLEAN
             /\ outcome[q].finished <=> Reached(q) = PageCount[q]
             /\ ~outcome[q].finished => /\ outcome[q].cursor \in Pass(q)!Cursor
                                        /\ Pass(q)!PageAt(outcome[q].cursor) = Reached(q) + 1
             /\ limit = None => outcome[q].finished
  <2>1. PICK s : outcome[q] \in Pass(q)!Answers(ResumeCursor(cur, q), limit, s)
    BY <1>1 DEF PassAnswers
  <2>2. QED
    BY <1>2, <2>1, AnswerCovers
<1>4. \A q \in asked : {q} \X (First(q)..Reached(q)) \subseteq by
  BY <1>1, <1>2, <1>3 DEF SettledBy
<1>5. by \subseteq EveryPage
  <2>1. ASSUME NEW x \in by
        PROVE  x \in EveryPage
    <3>1. PICK q \in asked : x \in {q} \X (First(q)..Reached(q))
      BY <1>1, <1>2, <1>3 DEF SettledBy
    <3>2. First(q)..Reached(q) \subseteq 1..PageCount[q]
      <4>1. /\ Reached(q) \in Int /\ First(q) \in Int /\ 1 <= First(q) /\ Reached(q) <= PageCount[q]
            /\ PageCount[q] \in Int
        BY <1>2, <1>3, PageCountAssumption DEF PageCountAssumption, Resource
      <4>2. QED
        BY <4>1
    <3>3. QED
      BY <1>2, <3>1, <3>2 DEF EveryPage
  <2>2. QED
    BY <2>1
<1> PICK r : r = UserResult(cur, outcome)
  OBVIOUS
<1>6. {q \in asked : outcome[q].status # "raised"} = asked
  BY <1>2
<1>7. /\ r.finished = (finished = asked /\ cur.completed_resource_types \cup finished = Resource)
      /\ r.user.completed_resource_types = cur.completed_resource_types \cup finished
      /\ r.user.resource_cursors =
           [q \in asked \cup DOMAIN cur.resource_cursors |->
              IF q \in asked THEN outcome[q].cursor ELSE cur.resource_cursors[q]]
  BY <1>1, <1>6 DEF UserResult
<1>8. \A q \in asked : ResumeCursor(r.user, q) = outcome[q].cursor
  BY <1>7 DEF ResumeCursor
<1>9. Outstanding(r.user) = asked \ finished
  BY <1>7 DEF Outstanding
<1>10. CursorsFit(r.user)
  <2>1. cur.completed_resource_types \cup finished \subseteq Resource
    BY <1>2 DEF CursorsFit
  <2>2. QED
    BY <1>3, <1>7, <1>8, <1>9, <2>1 DEF CursorsFit
<1>11. ASSUME ResumesFit(cur, pages)
       PROVE  ResumesFit(r.user, pages \cup by) /\ (r.finished => EveryPage \subseteq pages \cup by)
  <2>1. ASSUME NEW q \in asked
        PROVE  {q} \X (1..Reached(q)) \subseteq pages \cup by
    <3>1. {q} \X (1..(First(q) - 1)) \subseteq pages
      BY <1>11 DEF ResumesFit, PagesBefore
    <3>2. 1..Reached(q) \subseteq (1..(First(q) - 1)) \cup (First(q)..Reached(q))
      BY <1>3
    <3>3. QED
      BY <1>4, <3>1, <3>2
  <2>2. \A q \in cur.completed_resource_types \cup finished : PagesOf(q) \subseteq pages \cup by
    BY <1>3, <1>11, <2>1 DEF ResumesFit, PagesOf
  <2>3. ASSUME NEW q \in asked \ finished
        PROVE  PagesBefore(q, outcome[q].cursor) \subseteq pages \cup by
    <3>1. Pass(q)!PageAt(outcome[q].cursor) - 1 = Reached(q)
      BY <1>3
    <3>2. QED
      BY <2>1, <3>1 DEF PagesBefore
  <2>4. ResumesFit(r.user, pages \cup by)
    BY <1>7, <1>8, <1>9, <2>2, <2>3 DEF ResumesFit
  <2>5. r.finished => EveryPage \subseteq pages \cup by
    BY <1>7, <2>2 DEF EveryPage, PagesOf
  <2>6. QED
    BY <2>4, <2>5
<1>12. limit = None => r.finished
  <2>1. limit = None => finished = asked
    BY <1>3
  <2>2. cur.completed_resource_types \cup asked = Resource
    BY DEF CursorsFit, Outstanding
  <2>3. QED
    BY <1>7, <2>1, <2>2
<1>13. QED
  BY <1>5, <1>10, <1>11, <1>12

-----------------------------------------------------------------------------
(* What steps leave alone *)

\* A step that settles nothing and finishes no user keeps what is settled.
LEMMA SettledFrame ==
  ASSUME SettledOK, UNCHANGED <<user, settled, moved, phase, synced>>,
         \A u \in User : pc' \in Batching /\ result'[u] = "finished" =>
                           pc \in Batching /\ result[u] = "finished"
  PROVE  SettledOK'
BY DEF SettledOK, CursorsFit, ResumesFit, Outstanding, Batching

\* A step that leaves the remediations alone, and moves the number of the batch
\* only past those that were started, keeps what is known of them.
LEMMA RemediationsFrame ==
  ASSUME RemediationsOK, UNCHANGED <<remediation, phase, handed>>,
         failed_remediated => failed_remediated',
         DOMAIN remediation \subseteq {"legacy", "batch"} \X Nat, count \in Nat,
         \/ pc' = "closed"
         \/ pc # "closed" /\ count' = count /\ (pc = "advance" => pc' = "advance")
         \/ pc # "closed" /\ count' = count + 1
  PROVE  RemediationsOK'
<1>1. UNCHANGED Handed
  BY DEF Handed
<1>2. ASSUME NEW id \in DOMAIN remediation, id[1] = "batch"
      PROVE  id[2] < count' \/ pc' = "closed" \/ (id[2] = count' /\ pc' = "advance")
  <2>1. id[2] \in Nat
    OBVIOUS
  <2>2. id[2] < count \/ pc = "closed" \/ (id[2] = count /\ pc = "advance")
    BY <1>2 DEF RemediationsOK
  <2>3. CASE count' = count + 1 /\ pc # "closed"
    BY <2>1, <2>2, <2>3
  <2>4. QED
    BY <2>2, <2>3
<1>3. QED
  BY <1>1, <1>2 DEF RemediationsOK

\* The places where the root has no batch under way and is not done.
Quiet == {"start", "carried", "list", "refill", "drain"}

\* What the steps that neither move nor count a user leave alone.
coreVars == <<mode, user_cursor, exhausted, active, buffered, count, result, users_completed,
              users_failed, failed, synced, remediation, phase, handed, failed_remediated,
              user, settled, status, moved>>

\* A run starts or asks for the next one, waits for remediations, or is told that
\* a listing must be tried again: nobody changes place.
LEMMA QuietKeeps ==
  ASSUME RootInv, Start \/ Suggest \/ ListExhausted \/ Drain \/ ContinueAsNew
  PROVE  RootInv'
<1>1. UNCHANGED coreVars
  BY DEF Start, Suggest, ListExhausted, Drain, ContinueAsNew, NewRun, coreVars, listVars, batchVars,
     countVars, remediationVars, userVars
<1>2. \/ pc' = pc
      \/ pc \in Quiet /\ pc' \in Quiet
  BY DEF Start, Suggest, ListExhausted, AnsweredExhausted, Drain, ContinueAsNew, NewRun, Quiet, Begin
<1>3. UNCHANGED <<ComingPages, Opened, Failing>>
  <2>1. UNCHANGED ComingPages
    BY <1>1, <1>2 DEF ComingPages, coreVars, ListPage, Quiet, Batching
  <2>2. \A v : UNCHANGED With(v)
    BY <1>1 DEF With, coreVars
  <2>3. UNCHANGED OpenResults
    BY <1>2 DEF OpenResults, Quiet
  <2>4. UNCHANGED Opened
    BY <1>1, <2>3 DEF Opened, coreVars
  <2>5. UNCHANGED Failing
    BY <1>2, <2>2 DEF Failing, Quiet
  <2>6. QED
    BY <2>1, <2>4, <2>5
<1>4. (pc' \in Batching <=> pc \in Batching) /\ (pc' \in Counting <=> pc \in Counting)
      /\ (pc' = "closed" <=> pc = "closed") /\ (pc' = "advance" <=> pc = "advance")
      /\ (pc' = "finish" <=> pc = "finish") /\ (pc' = "denied" <=> pc = "denied")
  BY <1>2 DEF Quiet, Batching, Counting
<1>5. UNCHANGED <<Expected, Untouched, Handed, Aborted, CutOff>> /\ \A v : UNCHANGED With(v)
  BY <1>1, <1>3, <1>4 DEF Expected, Untouched, Handed, Aborted, CutOff, coreVars, With
<1>6. PlacesOK' /\ NumbersOK'
  <2>1. PlacesOK'
    BY <1>1, <1>4, <1>5 DEF RootInv, PlacesOK, coreVars
  <2>2. NumbersOK'
    BY <1>1, <1>3, <1>5 DEF RootInv, NumbersOK, coreVars
  <2>3. QED
    BY <2>1, <2>2
<1>7. RemediationsOK'
  <2>1. DOMAIN remediation \subseteq {"legacy", "batch"} \X Nat /\ count \in Nat
    BY DEF RootInv, RootTypeOK
  <2>2. QED
    BY <1>1, <1>4, <2>1, RemediationsFrame DEF RootInv, coreVars
<1>8. SettledOK'
  BY <1>1, <1>4, SettledFrame DEF RootInv, coreVars
<1>9. ControlOK'
  <2>1. pc' = "carried" => ~failed_remediated
    BY DEF RootInv, ControlOK, Start, Suggest, ListExhausted, AnsweredExhausted, Drain, ContinueAsNew,
       NewRun, Begin
  <2>2. ~failed_remediated => Aborted \/ pc' \in {"start", "carried"}
    BY DEF RootInv, ControlOK, Start, Suggest, ListExhausted, AnsweredExhausted, Drain, ContinueAsNew,
       NewRun, Begin
  <2>3. mode = "ordinary" => pc' # "refill"
    BY DEF RootInv, ControlOK, Start, Suggest, ListExhausted, AnsweredExhausted, Drain, ContinueAsNew,
       NewRun, Begin
  <2>4. mode = "round" /\ pc' = "list" => ~exhausted
    BY DEF RootInv, ControlOK, Start, Suggest, ListExhausted, AnsweredExhausted, Drain, ContinueAsNew,
       NewRun, Begin
  <2>5. QED
    BY <1>1, <1>4, <1>5, <2>1, <2>2, <2>3, <2>4 DEF RootInv, ControlOK, coreVars
<1>10. spent' \in SUBSET ({ListId} \cup spent) /\ IsFiniteSet(spent')
       /\ user_page_attempt' <= Cardinality(spent') /\ Cardinality(spent') <= MaxExhausted
       /\ user_page_attempt' \in Nat
  <2>1. /\ IsFiniteSet(spent) /\ user_page_attempt <= Cardinality(spent)
        /\ Cardinality(spent) <= MaxExhausted /\ user_page_attempt \in Nat
        /\ Cardinality(spent) \in Nat /\ MaxExhausted \in Nat
    BY FS_CardinalityType, RootAssumption DEF RootInv, StateTypeOK, RootAssumption
  <2>2. CASE ListExhausted
    <3>1. /\ ListId \notin spent /\ Cardinality(spent) < MaxExhausted
          /\ spent' = spent \cup {ListId} /\ user_page_attempt' = user_page_attempt + 1
      BY <2>2 DEF ListExhausted, AnsweredExhausted
    <3>2. IsFiniteSet(spent') /\ Cardinality(spent') = Cardinality(spent) + 1
      BY <2>1, <3>1, FS_AddElement
    <3>3. QED
      BY <2>1, <3>1, <3>2
  <2>3. CASE UNCHANGED spent /\ (user_page_attempt' = 0 \/ UNCHANGED user_page_attempt)
    BY <2>1, <2>3
  <2>4. QED
    BY <2>2, <2>3 DEF Start, Suggest, Drain, ContinueAsNew, listVars
<1>11. /\ fresh' \in BOOLEAN /\ suggested' \in BOOLEAN
       /\ active_remediations' \in SUBSET active_remediations
  BY DEF RootInv, StateTypeOK, Start, Suggest, ListExhausted, Drain, ContinueAsNew, NewRun,
     batchVars, remediationVars
<1>12. StateTypeOK'
  BY <1>1, <1>4, <1>10, <1>11 DEF RootInv, StateTypeOK, coreVars
<1>13. RootTypeOK'
  <2>1. user_page_attempt' \in 0..MaxExhausted
    <3>1. Cardinality(spent') \in Nat /\ MaxExhausted \in Nat
      BY <1>10, FS_CardinalityType, RootAssumption DEF RootAssumption
    <3>2. QED
      BY <1>10, <3>1
  <2>2. pc' \in {"start", "carried", "list", "denied", "refill", "join", "advance", "remediate", "drain",
                 "finish", "closed"}
    BY <1>2 DEF RootInv, RootTypeOK, Quiet
  <2>3. QED
    BY <1>1, <1>11, <2>1, <2>2 DEF RootInv, RootTypeOK, coreVars
<1>14. QED
  BY <1>6, <1>7, <1>8, <1>9, <1>12, <1>13 DEF RootInv

\* A denied listing stops the root where it is: nobody changes place.
LEMMA ListDeniedKeeps ==
  ASSUME RootInv, ListDenied
  PROVE  RootInv'
<1>1. /\ pc = "list" /\ pc' = "denied" /\ status' = "failed"
      /\ UNCHANGED <<mode, listVars, batchVars, countVars, remediationVars, userVars, suggested, moved>>
  BY DEF ListDenied
<1>2. pc \notin Batching /\ pc' \notin Batching /\ pc \notin Counting /\ pc' \notin Counting
  BY <1>1 DEF Batching, Counting
<1>3. UNCHANGED <<ComingPages, OpenResults, Failing, Handed, CutOff>>
      /\ ~Aborted /\ ~Aborted' /\ \A v : UNCHANGED With(v)
  BY <1>1, <1>2 DEF ComingPages, OpenResults, Failing, Handed, CutOff, Aborted, ListPage, With,
     listVars, batchVars, remediationVars
<1>4. UNCHANGED <<Expected, Opened, Untouched>>
  BY <1>1, <1>3 DEF Expected, Opened, Untouched, batchVars
<1>5. PlacesOK'
  BY <1>1, <1>2, <1>3, <1>4 DEF RootInv, PlacesOK, batchVars, countVars, remediationVars
<1>6. NumbersOK'
  BY <1>1, <1>3, <1>4 DEF RootInv, NumbersOK, countVars, remediationVars
<1>7. RemediationsOK'
  <2>1. DOMAIN remediation \subseteq {"legacy", "batch"} \X Nat /\ count \in Nat
    BY DEF RootInv, RootTypeOK
  <2>2. QED
    BY <1>1, <2>1, RemediationsFrame DEF RootInv, batchVars, remediationVars
<1>8. SettledOK'
  BY <1>1, <1>2, SettledFrame DEF RootInv, countVars, remediationVars, userVars
<1>9. ControlOK'
  BY <1>1, <1>2, <1>3 DEF RootInv, ControlOK, listVars, batchVars, countVars, remediationVars
<1>10. StateTypeOK'
  BY <1>1 DEF RootInv, StateTypeOK, listVars, batchVars, countVars, remediationVars, userVars
<1>11. RootTypeOK'
  BY <1>1 DEF RootInv, RootTypeOK, listVars, batchVars, countVars, remediationVars, userVars
<1>12. QED
  BY <1>5, <1>6, <1>7, <1>8, <1>9, <1>10, <1>11 DEF RootInv

-----------------------------------------------------------------------------
(* Steps that settle pages *)

\* The user sync of one user has ended: its pages and its cursor fit again.
LEMMA SettleKeeps ==
  ASSUME RootInv, NEW u \in User, NEW limit, limit = None \/ limit \in Nat \ {0},
         NEW outcome \in Outcomes(user[u], limit), NEW failure \in BOOLEAN,
         HasErrors(outcome) => failure,
         user' = [user EXCEPT ![u] =
                    IF failure THEN FreshUser ELSE UserResult(user[u], outcome).user],
         Settle(u, limit, outcome, failure), UNCHANGED moved
  PROVE  /\ DOMAIN user' = User /\ DOMAIN settled' = User
         /\ \A v \in User : /\ CursorsFit(user'[v]) /\ settled'[v] \subseteq EveryPage
                            /\ ~moved => ResumesFit(user'[v], settled'[v])
                            /\ v # u => settled'[v] = settled[v]
         /\ ~failure /\ ~moved /\ (UserResult(user[u], outcome).finished \/ limit = None) =>
              EveryPage \subseteq settled'[u]
<1> PICK r : r = UserResult(user[u], outcome)
  OBVIOUS
<1> PICK by : by = SettledBy(user[u], limit, outcome)
  OBVIOUS
<1>1. /\ DOMAIN user = User /\ DOMAIN settled = User
      /\ \A v \in User : /\ CursorsFit(user[v]) /\ settled[v] \subseteq EveryPage
                         /\ ~moved => ResumesFit(user[v], settled[v])
  BY DEF RootInv, StateTypeOK, SettledOK
<1>2. /\ DOMAIN user' = User /\ DOMAIN settled' = User
      /\ user'[u] = IF failure THEN FreshUser ELSE r.user
      /\ settled'[u] = IF failure THEN {} ELSE IF moved THEN settled[u] ELSE settled[u] \cup by
      /\ \A v \in User : v # u => user'[v] = user[v] /\ settled'[v] = settled[v]
  BY <1>1 DEF Settle
<1>3. CASE failure
  <2>1. CursorsFit(user'[u]) /\ settled'[u] \subseteq EveryPage /\ ResumesFit(user'[u], settled'[u])
    BY <1>2, <1>3, FreshFits
  <2>2. QED
    BY <1>1, <1>2, <1>3, <2>1
<1>4. CASE ~failure
  <2>1. /\ CursorsFit(r.user) /\ by \subseteq EveryPage
        /\ ResumesFit(user[u], settled[u]) => /\ ResumesFit(r.user, settled[u] \cup by)
                                              /\ r.finished => EveryPage \subseteq settled[u] \cup by
        /\ limit = None => r.finished
    BY <1>1, <1>4, SyncSettles
  <2>2. user'[u] = r.user /\ settled'[u] = IF moved THEN settled[u] ELSE settled[u] \cup by
    BY <1>2, <1>4
  <2>3. CursorsFit(user'[u]) /\ settled'[u] \subseteq EveryPage
    BY <1>1, <2>1, <2>2
  <2>4. ~moved => ResumesFit(user'[u], settled'[u])
    BY <1>1, <2>1, <2>2
  <2>5. ~moved /\ (r.finished \/ limit = None) => EveryPage \subseteq settled'[u]
    BY <1>1, <2>1, <2>2
  <2>6. QED
    BY <1>1, <1>2, <2>3, <2>4, <2>5
<1>5. QED
  BY <1>3, <1>4

\* What the steps of one user's sync leave alone.
placeVars == <<mode, user_cursor, exhausted, active, buffered, count, users_completed,
               users_failed, failed, synced, remediation, handed, failed_remediated, status, moved,
               pc, user_page_attempt, spent, fresh, suggested, active_remediations>>

\* A user sync of the batch ends.
LEMMA UserEndsKeeps ==
  ASSUME RootInv, NEW u \in User, UserEnds(u)
  PROVE  RootInv'
<1>1. PICK outcome \in Outcomes(user[u], PageLimit) :
        LET r == UserResult(user[u], outcome)
            failure == r.errors \/ (mode = "ordinary" /\ ~r.finished)
        IN /\ result' = [result EXCEPT ![u] =
                IF failure THEN "failed" ELSE IF r.finished THEN "finished" ELSE "unfinished"]
           /\ user' = [user EXCEPT ![u] = IF failure THEN FreshUser ELSE r.user]
           /\ Settle(u, PageLimit, outcome, failure)
  BY DEF UserEnds
<1> PICK r : r = UserResult(user[u], outcome)
  OBVIOUS
<1> PICK failure : failure = (r.errors \/ (mode = "ordinary" /\ ~r.finished))
  OBVIOUS
<1>2. /\ result' = [result EXCEPT ![u] =
             IF failure THEN "failed" ELSE IF r.finished THEN "finished" ELSE "unfinished"]
      /\ user' = [user EXCEPT ![u] = IF failure THEN FreshUser ELSE r.user]
      /\ Settle(u, PageLimit, outcome, failure)
  BY <1>1
<1>3. failure \in BOOLEAN /\ (HasErrors(outcome) => failure) /\ (mode = "ordinary" /\ ~failure => r.finished)
  <2>1. r.errors = HasErrors(outcome)
    BY DEF UserResult
  <2>2. QED
    BY <2>1 DEF HasErrors
<1>4. pc = "join" /\ result[u] = "running" /\ UNCHANGED placeVars /\ UNCHANGED phase
  BY DEF UserEnds, placeVars, listVars, batchVars, countVars, remediationVars
<1>5. PageLimit = None \/ PageLimit \in Nat \ {0}
  BY RootAssumption DEF PageLimit, AtLeastOne, RootAssumption
<1>6. /\ DOMAIN user' = User /\ DOMAIN settled' = User
      /\ \A v \in User : /\ CursorsFit(user'[v]) /\ settled'[v] \subseteq EveryPage
                         /\ ~moved => ResumesFit(user'[v], settled'[v])
                         /\ v # u => settled'[v] = settled[v]
      /\ ~failure /\ ~moved /\ r.finished => EveryPage \subseteq settled'[u]
  <2>1. UNCHANGED moved
    BY <1>4 DEF placeVars
  <2>2. QED
    BY <1>2, <1>3, <1>5, <2>1, SettleKeeps
<1>7. /\ result \in [User -> {"none", "running", "finished", "unfinished", "failed"}]
      /\ result' \in [User -> {"none", "running", "finished", "unfinished", "failed"}]
      /\ \A v \in User : v # u => result'[v] = result[v]
      /\ result'[u] = IF failure THEN "failed" ELSE IF r.finished THEN "finished" ELSE "unfinished"
  BY <1>2 DEF RootInv, StateTypeOK
<1>8. UNCHANGED <<ComingPages, OpenResults, Failing, Expected, Handed, Aborted, CutOff>>
  BY <1>4 DEF ComingPages, OpenResults, Failing, Expected, Handed, Aborted, CutOff, placeVars,
     ListPage
<1>9. Opened = Range(active) /\ Opened' = Range(active)
  <2>1. Range(active) \subseteq User
    BY DEF RootInv, RootTypeOK
  <2>2. QED
    BY <1>4, <1>7, <2>1 DEF Opened, OpenResults, placeVars
<1>10. UNCHANGED Untouched
  BY <1>4, <1>8, <1>9 DEF Untouched, placeVars
<1>11. u \in Range(active) /\ handed[u] = 0 /\ u \notin synced /\ phase[u] = "none"
  BY <1>4, <1>9 DEF RootInv, ControlOK, PlacesOK, Untouched, Batching
<1>12. SettledOK'
  <2>1. ASSUME NEW v \in User
        PROVE  /\ phase[v] = "activated" => EveryPage \subseteq settled'[v]
               /\ v \in synced /\ ~moved => EveryPage \subseteq settled'[v]
               /\ result'[v] = "finished" /\ ~moved => EveryPage \subseteq settled'[v]
    <3>1. CASE v = u
      BY <1>6, <1>7, <1>11, <3>1
    <3>2. CASE v # u
      BY <1>4, <1>6, <1>7, <3>2 DEF RootInv, SettledOK, Batching
    <3>3. QED
      BY <3>1, <3>2
  <2>2. UNCHANGED <<phase, synced, moved>>
    BY <1>4 DEF placeVars
  <2>3. QED
    BY <1>6, <2>1, <2>2 DEF SettledOK, CursorsFit, ResumesFit, Outstanding
<1>13. PlacesOK'
  <2>1. pc' \notin Counting
    BY <1>4 DEF Counting, placeVars
  <2>2. QED
    BY <1>4, <1>8, <1>10, <2>1 DEF RootInv, PlacesOK, placeVars
<1>14. NumbersOK'
  BY <1>4, <1>8, <1>10 DEF RootInv, NumbersOK, placeVars
<1>15. RemediationsOK'
  BY <1>4, <1>8 DEF RootInv, RemediationsOK, placeVars
<1>16. ControlOK'
  <2>1. \A v \in User : v \in Range(active) <=> result'[v] # "none"
    BY <1>4, <1>7, <1>11 DEF RootInv, ControlOK, Batching
  <2>2. mode = "ordinary" => \A v \in User : result'[v] # "unfinished"
    BY <1>3, <1>7 DEF RootInv, ControlOK
  <2>3. pc' \notin Counting
    BY <1>4 DEF Counting, placeVars
  <2>4. QED
    BY <1>4, <1>8, <2>1, <2>2, <2>3 DEF RootInv, ControlOK, placeVars
<1>17. RootTypeOK' /\ StateTypeOK'
  <2>1. StateTypeOK'
    BY <1>4, <1>6, <1>7 DEF RootInv, StateTypeOK, placeVars
  <2>2. RootTypeOK'
    BY <1>4, <1>6, <1>7 DEF RootInv, RootTypeOK, placeVars
  <2>3. QED
    BY <2>1, <2>2
<1>18. QED
  BY <1>12, <1>13, <1>14, <1>15, <1>16, <1>17 DEF RootInv

\* A user that is handed over is neither synced nor a finished one of the batch.
LEMMA HandedApart ==
  ASSUME RootInv, NEW u \in User, handed[u] = 1
  PROVE  /\ u \notin synced /\ u \notin Untouched
         /\ ~(pc \in Batching /\ result[u] = "finished")
<1>1. u \notin synced /\ u \notin Untouched
  BY DEF RootInv, PlacesOK
<1>2. ASSUME pc \in Batching, result[u] = "finished"
      PROVE  FALSE
  <2>1. u \in Range(active)
    BY <1>2 DEF RootInv, ControlOK
  <2>2. CASE pc \in Counting
    <3>1. u \in With("finished")
      BY <1>2, <2>1 DEF With
    <3>2. QED
      BY <1>1, <2>2, <3>1 DEF RootInv, PlacesOK
  <2>3. CASE pc = "join"
    <3>1. u \in Opened
      BY <1>2, <2>1, <2>3 DEF Opened, OpenResults
    <3>2. QED
      BY <1>1, <3>1 DEF Untouched
  <2>4. QED
    BY <1>2, <2>2, <2>3 DEF Batching, Counting
<1>3. QED
  BY <1>1, <1>2

\* A wave of an activation ends.
LEMMA WaveKeeps ==
  ASSUME RootInv, NEW u \in User, ActivationStep(u)
  PROVE  RootInv'
<1>1. PICK limit, next :
        /\ Wave(u, limit, next) /\ phase[u] \in {"recent", "backfill"}
        /\ limit = None \/ limit \in Nat \ {0}
        /\ next \in {"backfill", "activated"} /\ (next = "activated" => limit = None)
  <2>1. AtLeastOne(RecentCap) \in Nat \ {0}
    BY RootAssumption DEF AtLeastOne, RootAssumption
  <2>2. CASE Recent(u)
    BY <2>1, <2>2 DEF Recent
  <2>3. CASE Backfill(u)
    BY <2>3 DEF Backfill
  <2>4. QED
    BY <2>2, <2>3 DEF ActivationStep
<1>2. PICK outcome \in Outcomes(user[u], limit) :
        LET r == UserResult(user[u], outcome) IN
        \E verdict \in IF r.errors \/ moved THEN {"failed"} ELSE {"failed", next} :
          /\ phase' = [phase EXCEPT ![u] = verdict]
          /\ user' = [user EXCEPT ![u] = IF verdict = "failed" THEN FreshUser ELSE r.user]
          /\ Settle(u, limit, outcome, verdict = "failed")
  BY <1>1 DEF Wave
<1> PICK r : r = UserResult(user[u], outcome)
  OBVIOUS
<1>3. PICK verdict \in IF r.errors \/ moved THEN {"failed"} ELSE {"failed", next} :
        /\ phase' = [phase EXCEPT ![u] = verdict]
        /\ user' = [user EXCEPT ![u] = IF verdict = "failed" THEN FreshUser ELSE r.user]
        /\ Settle(u, limit, outcome, verdict = "failed")
  BY <1>2
<1> PICK failure : failure = (verdict = "failed")
  OBVIOUS
<1>4. /\ failure \in BOOLEAN /\ (HasErrors(outcome) \/ moved => failure)
      /\ verdict \in {"failed", "backfill", "activated"}
      /\ verdict = "activated" => limit = None /\ ~failure
  <2>1. r.errors = HasErrors(outcome)
    BY DEF UserResult
  <2>2. QED
    BY <1>1, <2>1 DEF HasErrors
<1>5. UNCHANGED placeVars /\ UNCHANGED result
  BY <1>1 DEF Wave, placeVars, listVars, batchVars, countVars
<1>6. /\ DOMAIN user' = User /\ DOMAIN settled' = User
      /\ \A v \in User : /\ CursorsFit(user'[v]) /\ settled'[v] \subseteq EveryPage
                         /\ ~moved => ResumesFit(user'[v], settled'[v])
                         /\ v # u => settled'[v] = settled[v]
      /\ ~failure /\ ~moved /\ limit = None => EveryPage \subseteq settled'[u]
  <2>1. UNCHANGED moved
    BY <1>5 DEF placeVars
  <2>2. user' = [user EXCEPT ![u] = IF failure THEN FreshUser ELSE UserResult(user[u], outcome).user]
        /\ Settle(u, limit, outcome, failure)
    BY <1>3
  <2>3. QED
    BY <1>1, <1>4, <2>1, <2>2, SettleKeeps
<1>7. /\ phase \in [User -> {"none", "recent", "backfill", "activated", "failed"}]
      /\ phase' \in [User -> {"none", "recent", "backfill", "activated", "failed"}]
      /\ \A v \in User : v # u => phase'[v] = phase[v]
      /\ phase'[u] = verdict
  BY <1>3, <1>4 DEF RootInv, StateTypeOK
<1>8. handed[u] = 1
  BY <1>1 DEF RootInv, StateTypeOK, PlacesOK
<1>9. UNCHANGED <<ComingPages, OpenResults, Failing, Expected, Handed, Aborted, Opened, Untouched,
                  CutOff>>
      /\ \A v : UNCHANGED With(v)
  BY <1>5 DEF ComingPages, OpenResults, Failing, Expected, Handed, Aborted, Opened, Untouched,
     CutOff, placeVars, ListPage, With
<1>10. SettledOK'
  <2>1. ASSUME NEW v \in User
        PROVE  /\ phase'[v] = "activated" => EveryPage \subseteq settled'[v]
               /\ v \in synced /\ ~moved => EveryPage \subseteq settled'[v]
               /\ pc \in Batching /\ result[v] = "finished" /\ ~moved => EveryPage \subseteq settled'[v]
    <3>1. CASE v = u
      BY <1>4, <1>6, <1>7, <1>8, <3>1, HandedApart
    <3>2. CASE v # u
      BY <1>6, <1>7, <3>2 DEF RootInv, SettledOK
    <3>3. QED
      BY <3>1, <3>2
  <2>2. UNCHANGED <<result, synced, moved, pc>>
    BY <1>5 DEF placeVars
  <2>3. QED
    BY <1>6, <2>1, <2>2 DEF SettledOK, CursorsFit, ResumesFit, Outstanding
<1>11. PlacesOK'
  BY <1>5, <1>7, <1>8, <1>9 DEF RootInv, PlacesOK, placeVars
<1>12. NumbersOK'
  BY <1>5, <1>9 DEF RootInv, NumbersOK, placeVars
<1>13. RemediationsOK'
  <2>1. \A v \in User : phase[v] = "activated" => phase'[v] = "activated"
    BY <1>1, <1>7
  <2>2. Handed \in SUBSET User
    BY DEF Handed
  <2>3. UNCHANGED <<remediation, failed_remediated, count, pc, Handed>>
    BY <1>5, <1>9 DEF placeVars
  <2>4. QED
    BY <2>1, <2>2, <2>3 DEF RootInv, RemediationsOK
<1>14. ControlOK'
  BY <1>5, <1>9 DEF RootInv, ControlOK, placeVars
<1>15. RootTypeOK' /\ StateTypeOK'
  <2>1. StateTypeOK'
    BY <1>5, <1>6, <1>7 DEF RootInv, StateTypeOK, placeVars
  <2>2. RootTypeOK'
    BY <1>5, <1>6, <1>7 DEF RootInv, RootTypeOK, placeVars
  <2>3. QED
    BY <2>1, <2>2
<1>16. QED
  BY <1>10, <1>11, <1>12, <1>13, <1>14, <1>15 DEF RootInv

\* The generation of the store moves on.
LEMMA MoveKeeps ==
  ASSUME RootInv, Move
  PROVE  RootInv'
<1>1. /\ moved' = TRUE
      /\ settled' = [v \in User |-> IF phase[v] = "activated" THEN settled[v] ELSE {}]
      /\ UNCHANGED <<mode, pc, listVars, batchVars, countVars, remediationVars, user, suggested, status>>
  BY DEF Move
<1>2. UNCHANGED <<ComingPages, OpenResults, Failing, Expected, Handed, Aborted, Opened, Untouched,
                  CutOff>>
      /\ \A v : UNCHANGED With(v)
  BY <1>1 DEF ComingPages, OpenResults, Failing, Expected, Handed, Aborted, Opened, Untouched,
     CutOff, listVars, batchVars, countVars, remediationVars, ListPage, With
<1>3. SettledOK'
  BY <1>1 DEF RootInv, SettledOK, CursorsFit, ResumesFit, Outstanding, listVars, batchVars, countVars,
     remediationVars
<1>4. PlacesOK' /\ NumbersOK'
  <2>1. PlacesOK'
    BY <1>1, <1>2 DEF RootInv, PlacesOK, listVars, batchVars, countVars, remediationVars
  <2>2. NumbersOK'
    BY <1>1, <1>2 DEF RootInv, NumbersOK, listVars, batchVars, countVars, remediationVars
  <2>3. QED
    BY <2>1, <2>2
<1>5. RemediationsOK' /\ ControlOK'
  <2>1. RemediationsOK'
    BY <1>1, <1>2 DEF RootInv, RemediationsOK, batchVars, remediationVars
  <2>2. ControlOK'
    BY <1>1, <1>2 DEF RootInv, ControlOK, listVars, batchVars, countVars, remediationVars
  <2>3. QED
    BY <2>1, <2>2
<1>6. StateTypeOK' /\ RootTypeOK'
  <2>1. StateTypeOK'
    BY <1>1 DEF RootInv, StateTypeOK, listVars, batchVars, countVars, remediationVars
  <2>2. \A v \in User : settled'[v] \subseteq EveryPage
    BY <1>1 DEF RootInv, SettledOK
  <2>3. RootTypeOK'
    BY <1>1, <2>2 DEF RootInv, RootTypeOK, listVars, batchVars, countVars, remediationVars
  <2>4. QED
    BY <2>1, <2>3
<1>7. QED
  BY <1>3, <1>4, <1>5, <1>6 DEF RootInv

-----------------------------------------------------------------------------
(* Steps that move users *)

\* The page to be listed is one of the listing, and what is expected starts there.
LEMMA NextListing ==
  ASSUME RootInv
  PROVE  /\ ListPage \in ListPages /\ ListPage \in Nat /\ ListPage + 1 \in Nat
         /\ NextUserCursor \in {None} \cup 2..Len(Listing)
         /\ NextUserCursor = None <=> ListPage = Len(Listing)
         /\ NextUserCursor # None => NextUserCursor = ListPage + 1
         /\ Expected = IF pc \in {"finish", "closed"} \/ exhausted THEN {}
                       ELSE IF mode = "ordinary" /\ pc \in Batching THEN From(ListPage + 1)
                       ELSE From(ListPage)
<1>1. user_cursor \in {None} \cup 2..Len(Listing)
  BY DEF RootInv, RootTypeOK
<1>2. Len(Listing) \in Nat /\ Len(Listing) >= 1 /\ ListPages = 1..Len(Listing) /\ None \notin Int
  BY ListingPages
<1>3. ListPage \in 1..Len(Listing)
  BY <1>1, <1>2 DEF ListPage
<1>4. ListPage \in Nat /\ ListPage + 1 \in Nat /\ ListPage + 1 # None
  BY <1>2, <1>3
<1>5. /\ NextUserCursor \in {None} \cup 2..Len(Listing)
      /\ NextUserCursor = None <=> ListPage = Len(Listing)
      /\ NextUserCursor # None => NextUserCursor = ListPage + 1
  BY <1>2, <1>3, <1>4 DEF NextUserCursor
<1>6. QED
  BY <1>2, <1>3, <1>4, <1>5 DEF Expected, ComingPages, From

\* The batch is empty or open wherever it is not being counted.
LEMMA AllOpen ==
  ASSUME RootInv, pc \notin Counting
  PROVE  Opened = Range(active) /\ Failing = {}
<1>1. Range(active) \in SUBSET User /\ \A u \in User : result[u] \in OpenResults
  BY DEF RootInv, StateTypeOK, RootTypeOK, OpenResults, Counting
<1>2. QED
  BY <1>1 DEF Opened, Failing, Counting

\* A sequence without elements is the empty one.
LEMMA NoElements ==
  ASSUME NEW s \in Seq(User), Range(s) = {}
  PROVE  s = <<>>
<1>1. s # <<>> => 1 \in DOMAIN s
  BY EmptySeq, LenProperties
<1>2. QED
  BY <1>1 DEF Range

\* What a step leaves behind that moves users from the listing to the buffer, from
\* the buffer to the batch, or from one batch to the next.
Arranged ==
  /\ active' \in Seq(User) /\ buffered' \in Seq(User) /\ NoRepeats(active') /\ NoRepeats(buffered')
  /\ Range(active') \cap Range(buffered') = {}
  /\ Expected' \cap (Range(active') \cup Range(buffered')) = {}
  /\ Range(active') \cup Range(buffered') \subseteq Listed
  /\ Expected' \cup Range(buffered') \cup Opened' = Untouched
  /\ Failing' = {} /\ ControlOK' /\ pc' \notin Counting
  /\ pc' \in {"list", "refill", "join", "drain", "finish"}
  /\ user_cursor' \in {None} \cup 2..Len(Listing) /\ exhausted' \in BOOLEAN
  /\ result' \in [User -> {"none", "running", "finished", "unfinished", "failed"}]
  /\ \A u \in User : ~(pc' \in Batching /\ result'[u] = "finished")

\* Such a step loses no user and counts none.
LEMMA ShiftKeeps ==
  ASSUME RootInv, Arranged, Failing = {}, status = "running",
         user_page_attempt' \in {0, user_page_attempt},
         \/ count' = count /\ pc # "advance"
         \/ count' = count + 1,
         UNCHANGED <<mode, spent, fresh, users_completed, users_failed, failed, synced, remediation,
                     phase, handed, active_remediations, failed_remediated, user, settled, suggested,
                     status, moved>>
  PROVE  RootInv'
<1>1. /\ count \in Nat /\ count' \in Nat
      /\ pc \notin {"closed", "denied"} /\ pc' \notin {"closed", "denied"}
  BY DEF Arranged, RootInv, RootTypeOK, StateTypeOK
<1>2. Untouched' = Untouched /\ UNCHANGED <<Handed, Aborted, CutOff>>
  BY <1>1 DEF Arranged, Untouched, Handed, Aborted, CutOff
<1>3. PlacesOK'
  BY <1>2 DEF Arranged, RootInv, PlacesOK
<1>4. NumbersOK'
  BY <1>2 DEF Arranged, RootInv, NumbersOK
<1>5. RemediationsOK'
  <2>1. DOMAIN remediation \subseteq {"legacy", "batch"} \X Nat
    BY DEF RootInv, RootTypeOK
  <2>2. QED
    BY <1>1, <2>1, RemediationsFrame DEF RootInv
<1>6. SettledOK'
  BY SettledFrame DEF Arranged, RootInv
<1>7. user_page_attempt' \in Nat /\ user_page_attempt' <= Cardinality(spent)
      /\ user_page_attempt' \in 0..MaxExhausted
  <2>1. Cardinality(spent) \in Nat /\ MaxExhausted \in Nat
    BY FS_CardinalityType, RootAssumption DEF RootInv, StateTypeOK, RootAssumption
  <2>2. QED
    BY <2>1 DEF RootInv, StateTypeOK
<1>8. StateTypeOK'
  BY <1>1, <1>7 DEF Arranged, RootInv, StateTypeOK
<1>9. RootTypeOK'
  <2>1. Range(active') \subseteq User /\ Range(buffered') \subseteq User
    BY ListingPages DEF Arranged
  <2>2. QED
    BY <1>1, <1>7, <2>1 DEF Arranged, RootInv, RootTypeOK
<1>10. QED
  BY <1>3, <1>4, <1>5, <1>6, <1>8, <1>9 DEF Arranged, RootInv

\* A page of users is listed: they are no longer expected, but open or waiting.
LEMMA ListUsersKeeps ==
  ASSUME RootInv, ListUsers
  PROVE  RootInv'
<1> PICK users : users = Within(Listing[ListPage], Valid)
  OBVIOUS
<1>1. /\ pc = "list" /\ user_page_attempt' = 0
      /\ \/ /\ mode = "ordinary" /\ active' = users /\ result' = Running(users) /\ pc' = "join"
            /\ UNCHANGED <<user_cursor, exhausted, buffered>>
         \/ /\ mode = "round" /\ buffered' = buffered \o users /\ user_cursor' = NextUserCursor
            /\ exhausted' = (NextUserCursor = None) /\ pc' = "refill"
            /\ UNCHANGED <<active, result>>
      /\ UNCHANGED <<mode, spent, count, fresh, countVars, remediationVars, userVars, suggested,
                     status, moved>>
  BY DEF ListUsers
<1>2. /\ users \in Seq(User) /\ Range(users) = PageUsers(ListPage) /\ NoRepeats(users)
      /\ Range(users) \subseteq Listed
  BY NextListing, ListingPages
<1>3. /\ Expected = From(ListPage) /\ From(ListPage) = Range(users) \cup From(ListPage + 1)
      /\ Range(users) \cap From(ListPage + 1) = {}
      /\ failed_remediated /\ ~exhausted /\ status = "running"
  <2>1. ~exhausted
    BY <1>1 DEF RootInv, ControlOK
  <2>2. failed_remediated /\ status = "running"
    BY <1>1 DEF RootInv, ControlOK, StateTypeOK, Aborted
  <2>3. Expected = From(ListPage)
    BY <1>1, <2>1, NextListing DEF Batching
  <2>4. QED
    BY <1>2, <2>1, <2>2, <2>3, FromPage, NextListing
<1>4. Opened = Range(active) /\ Failing = {}
  BY <1>1, AllOpen DEF Counting
<1>5. /\ mode = "ordinary" => active = <<>> /\ buffered = <<>> /\ Range(active) = {}
      /\ mode \in {"ordinary", "round"}
  <2>1. Range(<<>>) = {}
    BY DEF Range
  <2>2. QED
    BY <1>1, <2>1 DEF RootInv, ControlOK, RootTypeOK, Batching
<1>6. /\ active \in Seq(User) /\ buffered \in Seq(User) /\ NoRepeats(active) /\ NoRepeats(buffered)
      /\ Range(active) \cap Range(buffered) = {}
      /\ Expected \cap (Range(active) \cup Range(buffered)) = {}
      /\ Range(active) \cup Range(buffered) \cup synced \subseteq Listed
  BY DEF RootInv, StateTypeOK, PlacesOK
<1>7. ASSUME mode = "ordinary" PROVE Arranged
  <2>1. /\ active' = users /\ result' = Running(users) /\ pc' = "join" /\ mode' = "ordinary"
        /\ UNCHANGED <<user_cursor, exhausted, buffered>>
    BY <1>1, <1>7
  <2>2. result' \in [User -> {"none", "running", "finished", "unfinished", "failed"}]
        /\ \A u \in User : result'[u] = IF u \in Range(users) THEN "running" ELSE "none"
    BY <2>1 DEF Running
  <2>3. Expected' = From(ListPage + 1)
    BY <1>3, <2>1 DEF Expected, ComingPages, From, Batching, ListPage
  <2>4. Opened' = Range(users) /\ Failing' = {}
    <3>1. Range(users) \in SUBSET User
      BY <1>2, ListingPages
    <3>2. \A u \in Range(users) : result'[u] = "running"
      BY <2>2, <3>1
    <3>3. "running" \in OpenResults'
      BY <2>1 DEF OpenResults
    <3>4. QED
      BY <2>1, <3>2, <3>3 DEF Opened, Failing
  <2>5. /\ active' \in Seq(User) /\ buffered' \in Seq(User) /\ NoRepeats(active') /\ NoRepeats(buffered')
        /\ Range(active') \cap Range(buffered') = {}
        /\ Expected' \cap (Range(active') \cup Range(buffered')) = {}
        /\ Range(active') \cup Range(buffered') \subseteq Listed
        /\ Expected' \cup Range(buffered') \cup Opened' = Untouched
    BY <1>2, <1>3, <1>4, <1>5, <1>6, <1>7, <2>1, <2>3, <2>4 DEF Untouched
  <2>6. ControlOK'
    <3>1. \A u \in User : u \in Range(active') <=> result'[u] # "none"
      BY <2>1, <2>2
    <3>2. \A u \in User : result'[u] # "unfinished"
      BY <2>2
    <3>3. pc' \notin Counting /\ failed_remediated' /\ ~exhausted' /\ buffered' = <<>>
      BY <1>1, <1>3, <1>5, <1>7, <2>1 DEF Counting, remediationVars
    <3>4. QED
      BY <2>1, <3>1, <3>2, <3>3 DEF ControlOK, Batching
  <2>7. \A u \in User : result'[u] # "finished"
    BY <2>2
  <2>8. pc' \notin Counting /\ pc' # "closed" /\ pc' # "advance"
    BY <2>1 DEF Counting
  <2>9. user_cursor' \in {None} \cup 2..Len(Listing) /\ exhausted' \in BOOLEAN
    BY <2>1 DEF RootInv, RootTypeOK, StateTypeOK
  <2>10. QED
    BY <2>1, <2>2, <2>4, <2>5, <2>6, <2>7, <2>8, <2>9 DEF Arranged
<1>8. ASSUME mode = "round" PROVE Arranged
  <2>1. /\ buffered' = buffered \o users /\ user_cursor' = NextUserCursor
        /\ exhausted' = (NextUserCursor = None) /\ pc' = "refill" /\ mode' = "round"
        /\ UNCHANGED <<active, result>>
    BY <1>1, <1>8
  <2>2. Expected' = From(ListPage + 1)
    <3>1. CASE NextUserCursor = None
      <4>1. Expected' = {}
        BY <2>1, <3>1 DEF Expected, ComingPages
      <4>2. QED
        BY <3>1, <4>1, NextListing, FromPage
    <3>2. CASE NextUserCursor # None
      BY <2>1, <3>2, NextListing DEF Expected, ComingPages, From, ListPage
    <3>3. QED
      BY <3>1, <3>2
  <2>3. buffered' \in Seq(User) /\ Range(buffered') = Range(buffered) \cup Range(users)
    BY <1>2, <1>6, <2>1, ConcatRange
  <2>4. NoRepeats(buffered')
    BY <1>2, <1>3, <1>6, <2>1, ConcatNoRepeats
  <2>5. Opened' = Range(active) /\ Failing' = {}
    <3>1. Range(active) \in SUBSET User
      BY DEF RootInv, RootTypeOK
    <3>2. QED
      BY <2>1, <3>1 DEF RootInv, StateTypeOK, Opened, OpenResults, Failing
  <2>6. /\ active' \in Seq(User) /\ NoRepeats(active')
        /\ Range(active') \cap Range(buffered') = {}
        /\ Expected' \cap (Range(active') \cup Range(buffered')) = {}
        /\ Range(active') \cup Range(buffered') \subseteq Listed
        /\ Expected' \cup Range(buffered') \cup Opened' = Untouched
    BY <1>2, <1>3, <1>4, <1>6, <2>1, <2>2, <2>3, <2>5 DEF Untouched
  <2>7. ControlOK'
    <3>1. pc' \notin Counting /\ pc' \notin Batching /\ failed_remediated'
      BY <1>1, <1>3, <2>1 DEF Counting, Batching, remediationVars
    <3>2. QED
      BY <2>1, <3>1 DEF ControlOK
  <2>8. pc' \notin Counting /\ pc' \notin Batching /\ pc' # "closed" /\ pc' # "advance"
    BY <2>1 DEF Counting, Batching
  <2>9. user_cursor' \in {None} \cup 2..Len(Listing) /\ exhausted' \in BOOLEAN
    BY <2>1, NextListing
  <2>10. result' \in [User -> {"none", "running", "finished", "unfinished", "failed"}]
    BY <2>1 DEF RootInv, StateTypeOK
  <2>11. QED
    BY <2>1, <2>3, <2>4, <2>5, <2>6, <2>7, <2>8, <2>9, <2>10 DEF Arranged
<1>9. Arranged
  BY <1>5, <1>7, <1>8
<1>10. UNCHANGED <<mode, spent, count, fresh, users_completed, users_failed, failed, synced,
                   remediation, phase, handed, active_remediations, failed_remediated, user, settled,
                   suggested, status, moved>>
  BY <1>1 DEF countVars, remediationVars, userVars
<1>11. QED
  BY <1>1, <1>3, <1>4, <1>9, <1>10, ShiftKeeps

\* The batch of a round is filled from the buffer: nobody is lost in between.
LEMMA RefillKeeps ==
  ASSUME RootInv, Refill
  PROVE  RootInv'
<1> PICK window : window = AtLeastOne(UserWindow)
  OBVIOUS
<1> PICK waiting : waiting = Len(buffered)
  OBVIOUS
<1> PICK room : room = window - Len(active)
  OBVIOUS
<1> PICK n : n = IF room < 0 THEN 0 ELSE IF room < waiting THEN room ELSE waiting
  OBVIOUS
<1> DEFINE full == ~(Len(active') < window /\ ~exhausted)
           turn == suggested /\ ~fresh /\ (active' # <<>> \/ buffered' # <<>> \/ ~exhausted)
<1>1. /\ pc = "refill"
      /\ active' = active \o SubSeq(buffered, 1, n)
      /\ buffered' = SubSeq(buffered, n + 1, Len(buffered))
      /\ IF ~full THEN pc' = "list" /\ UNCHANGED result
         ELSE IF turn THEN pc' = "drain" /\ UNCHANGED result
         ELSE IF active' # <<>> THEN pc' = "join" /\ result' = Running(active')
         ELSE pc' = "finish" /\ UNCHANGED result
      /\ UNCHANGED <<mode, listVars, count, fresh, countVars, remediationVars, userVars, suggested,
                     status, moved>>
  BY DEF Refill, KeepBeyond
<1>2. /\ active \in Seq(User) /\ buffered \in Seq(User) /\ NoRepeats(active) /\ NoRepeats(buffered)
      /\ Range(active) \cap Range(buffered) = {}
      /\ Expected \cap (Range(active) \cup Range(buffered)) = {}
      /\ Range(active) \cup Range(buffered) \subseteq Listed
      /\ result \in [User -> {"none", "running", "finished", "unfinished", "failed"}]
  BY DEF RootInv, StateTypeOK, PlacesOK
<1>3. /\ window \in Nat /\ window >= 1 /\ waiting \in Nat /\ Len(active) \in Nat
      /\ n \in Nat /\ n <= waiting
      /\ Len(active) = 0 /\ n = 0 => waiting = 0
  <2>1. window \in Nat /\ window >= 1
    BY RootAssumption DEF AtLeastOne, RootAssumption
  <2>2. waiting \in Nat /\ Len(active) \in Nat
    BY <1>2, LenProperties
  <2>3. QED
    BY <2>1, <2>2
<1>4. /\ SubSeq(buffered, 1, n) \in Seq(User) /\ Len(SubSeq(buffered, 1, n)) = n
      /\ buffered' \in Seq(User) /\ Len(buffered') = waiting - n
      /\ Range(buffered) = Range(SubSeq(buffered, 1, n)) \cup Range(buffered')
      /\ NoRepeats(SubSeq(buffered, 1, n)) /\ NoRepeats(buffered')
      /\ Range(SubSeq(buffered, 1, n)) \cap Range(buffered') = {}
  <2>1. n \in Nat /\ n <= Len(buffered) /\ buffered \in Seq(User) /\ NoRepeats(buffered)
    BY <1>2, <1>3
  <2>2. /\ SubSeq(buffered, 1, n) \in Seq(User) /\ Len(SubSeq(buffered, 1, n)) = n
        /\ SubSeq(buffered, n + 1, Len(buffered)) \in Seq(User)
        /\ Len(SubSeq(buffered, n + 1, Len(buffered))) = Len(buffered) - n
        /\ Range(buffered) = Range(SubSeq(buffered, 1, n))
                               \cup Range(SubSeq(buffered, n + 1, Len(buffered)))
        /\ NoRepeats(SubSeq(buffered, 1, n)) /\ NoRepeats(SubSeq(buffered, n + 1, Len(buffered)))
        /\ Range(SubSeq(buffered, 1, n)) \cap Range(SubSeq(buffered, n + 1, Len(buffered))) = {}
    BY ONLY <2>1, SplitProperties
  <2>3. QED
    BY <1>1, <2>2, Zenon
<1>5. /\ active' \in Seq(User) /\ Range(active') = Range(active) \cup Range(SubSeq(buffered, 1, n))
      /\ NoRepeats(active') /\ Len(active') = Len(active) + n
  <2>1. active' \in Seq(User) /\ Range(active') = Range(active) \cup Range(SubSeq(buffered, 1, n))
    <3>1. PICK taken : taken = SubSeq(buffered, 1, n)
      OBVIOUS
    <3>2. taken \in Seq(User) /\ active \in Seq(User) /\ active' = active \o taken
      BY <1>1, <1>2, <1>4, <3>1
    <3>3. QED
      BY ONLY <3>1, <3>2, ConcatRange
  <2>2. Range(active) \cap Range(SubSeq(buffered, 1, n)) = {}
    BY <1>2, <1>4
  <2>3. NoRepeats(active')
    BY <1>1, <1>2, <1>4, <2>2, ConcatNoRepeats
  <2>4. Len(active') = Len(active) + n
    BY <1>1, <1>2, <1>4, ConcatProperties
  <2>5. QED
    BY <2>1, <2>3, <2>4
<1>6. /\ Range(active') \cup Range(buffered') = Range(active) \cup Range(buffered)
      /\ Range(active') \cap Range(buffered') = {}
  BY <1>2, <1>4, <1>5
<1>7. mode = "round" /\ failed_remediated /\ status = "running" /\ pc \notin Counting
  BY <1>1 DEF RootInv, ControlOK, RootTypeOK, StateTypeOK, Aborted, Counting
<1>8. /\ UNCHANGED <<mode, user_cursor, exhausted, count, fresh, users_completed, users_failed, failed,
                     synced, remediation, phase, handed, active_remediations, failed_remediated, user,
                     settled, suggested, status, moved, spent, user_page_attempt>>
  BY <1>1 DEF listVars, countVars, remediationVars, userVars
<1>9. /\ pc' \in {"list", "join", "drain", "finish"}
      /\ pc' = "list" => ~exhausted
      /\ pc' = "finish" => active' = <<>> /\ buffered' = <<>> /\ exhausted
      /\ pc' = "join" => result' = Running(active')
      /\ pc' # "join" => result' = result
  <2>1. ASSUME active' = <<>>, full
        PROVE  exhausted /\ buffered' = <<>>
    <3>1. Len(active') = 0
      BY <1>5, <2>1, EmptySeq
    <3>2. Len(active) = 0 /\ n = 0
      BY ONLY <1>3, <1>5, <3>1
    <3>3. exhausted
      BY <1>3, <2>1, <3>1
    <3>4. Len(buffered') = 0
      BY <1>3, <1>4, <3>2
    <3>5. QED
      BY <1>4, <3>3, <3>4, EmptySeq
  <2>2. full \/ ~exhausted
    OBVIOUS
  <2>3. QED
    BY <1>1, <2>1, <2>2
<1>10. Expected' = Expected
  <2>1. CASE pc' = "finish"
    <3>1. exhausted
      BY <1>9, <2>1
    <3>2. QED
      BY <1>8, <2>1, <3>1 DEF Expected, ComingPages
  <2>2. CASE pc' # "finish"
    BY <1>1, <1>7, <1>8, <1>9, <2>2 DEF Expected, ComingPages, ListPage
  <2>3. QED
    BY <2>1, <2>2
<1>11. result' \in [User -> {"none", "running", "finished", "unfinished", "failed"}]
       /\ (pc' = "join" => \A u \in User : result'[u] = IF u \in Range(active') THEN "running" ELSE "none")
  BY <1>2, <1>9 DEF Running
<1>12. Opened = Range(active) /\ Failing = {}
  BY <1>7, AllOpen
<1>13. pc' \notin Counting /\ (pc' \in Batching => pc' = "join")
  BY <1>9 DEF Counting, Batching
<1>14. Opened' = Range(active') /\ Failing' = {}
  <2>1. \A u \in Range(active') : u \in User
    BY <1>2, <1>6, ListingPages
  <2>2. \A u \in Range(active') : result'[u] \in OpenResults'
    BY <1>9, <1>11, <2>1 DEF OpenResults
  <2>3. QED
    BY <1>9, <2>2 DEF Opened, Failing
<1>15. ControlOK'
  <2>1. pc' \in Batching => \A u \in User : u \in Range(active') <=> result'[u] # "none"
    BY <1>11, <1>13
  <2>2. QED
    BY <1>7, <1>8, <1>9, <1>13, <2>1 DEF ControlOK
<1>16. Expected' \cup Range(buffered') \cup Opened' = Untouched
  BY <1>6, <1>10, <1>12, <1>14 DEF Untouched
<1>17. user_cursor' \in {None} \cup 2..Len(Listing) /\ exhausted' \in BOOLEAN
  BY <1>8 DEF RootInv, RootTypeOK, StateTypeOK
<1>18. \A u \in User : ~(pc' \in Batching /\ result'[u] = "finished")
  BY <1>11, <1>13
<1>19. Arranged
  BY <1>2, <1>4, <1>5, <1>6, <1>9, <1>10, <1>11, <1>13, <1>14, <1>15, <1>16, <1>17, <1>18 DEF Arranged
<1>20. QED
  BY <1>1, <1>7, <1>8, <1>12, <1>19, ShiftKeeps

\* A batch or a round is over: those that are not finished go on to the next.
LEMMA NextBatchKeeps ==
  ASSUME RootInv, NextPage \/ NextRound
  PROVE  RootInv'
<1> PICK rest : rest = Within(active, With("unfinished"))
  OBVIOUS
<1>1. /\ pc = "advance" /\ count' = count + 1 /\ active' = rest
      /\ result' = [u \in User |-> "none"]
      /\ UNCHANGED <<mode, user_page_attempt, exhausted, spent, buffered, fresh, users_completed,
                     users_failed, failed, synced, remediation, phase, handed, active_remediations,
                     failed_remediated, user, settled, suggested, status, moved>>
  BY DEF NextPage, NextRound, NextBatch, countVars, remediationVars, userVars
<1>2. \/ /\ mode = "ordinary" /\ user_cursor' = NextUserCursor
         /\ pc' = IF NextUserCursor = None THEN "finish" ELSE IF suggested THEN "drain" ELSE "list"
      \/ mode = "round" /\ user_cursor' = user_cursor /\ pc' = "refill"
  BY DEF NextPage, NextRound
<1>3. /\ active \in Seq(User) /\ buffered \in Seq(User) /\ NoRepeats(active) /\ NoRepeats(buffered)
      /\ Range(active) \cap Range(buffered) = {}
      /\ Expected \cap (Range(active) \cup Range(buffered)) = {}
      /\ Range(active) \cup Range(buffered) \subseteq Listed
      /\ user_cursor \in {None} \cup 2..Len(Listing) /\ exhausted \in BOOLEAN
  BY DEF RootInv, StateTypeOK, PlacesOK, RootTypeOK
<1>4. rest \in Seq(User) /\ Range(rest) = Range(active) \cap With("unfinished") /\ NoRepeats(rest)
  BY <1>3, WithinProperties
<1>5. Range(rest) = Opened /\ Failing = {}
  BY <1>1, <1>4 DEF Opened, OpenResults, With, Failing
<1>6. failed_remediated /\ status = "running" /\ mode \in {"ordinary", "round"}
  BY <1>1 DEF RootInv, ControlOK, RootTypeOK, StateTypeOK, Aborted
<1>7. mode = "ordinary" => rest = <<>> /\ Range(rest) = {} /\ buffered = <<>> /\ ~exhausted
  <2>1. ASSUME mode = "ordinary"
        PROVE  Range(rest) = {}
    <3>1. \A u \in Range(active) : u \in User /\ result[u] # "unfinished"
      BY <1>3, <2>1, ListingPages DEF RootInv, ControlOK
    <3>2. QED
      BY <1>4, <3>1 DEF With
  <2>2. QED
    BY <1>4, <2>1, NoElements DEF RootInv, ControlOK
<1>8. Expected' = Expected /\ user_cursor' \in {None} \cup 2..Len(Listing)
  <2>1. CASE mode = "ordinary"
    <3>1. Expected = From(ListPage + 1)
      BY <1>1, <1>7, <2>1, NextListing DEF Batching
    <3>2. CASE NextUserCursor = None
      <4>1. Expected' = {}
        BY <1>2, <2>1, <3>2 DEF Expected, ComingPages
      <4>2. QED
        BY <1>2, <2>1, <3>1, <3>2, <4>1, NextListing, FromPage
    <3>3. CASE NextUserCursor # None
      <4>1. user_cursor' = ListPage + 1 /\ ListPage' = ListPage + 1 /\ user_cursor' \in 2..Len(Listing)
        BY <1>2, <2>1, <3>3, NextListing DEF ListPage
      <4>2. Expected' = UNION {PageUsers(i) : i \in (ListPage')..Len(Listing)}
        BY <1>1, <1>2, <1>7, <2>1, <3>3 DEF Expected, ComingPages, Batching
      <4>3. QED
        BY <3>1, <4>1, <4>2 DEF From
    <3>4. QED
      BY <3>2, <3>3
  <2>2. CASE mode = "round"
    <3>1. pc' = "refill" /\ UNCHANGED <<mode, exhausted, user_cursor>>
      BY <1>1, <1>2, <2>2
    <3>2. QED
      BY <1>1, <1>3, <2>2, <3>1 DEF Expected, ComingPages, ListPage
  <2>3. QED
    BY <1>6, <2>1, <2>2
<1>9. result' \in [User -> {"none", "running", "finished", "unfinished", "failed"}]
      /\ \A u \in User : result'[u] = "none"
  BY <1>1
<1>10. pc' \in {"list", "refill", "drain", "finish"} /\ pc' \notin Counting /\ pc' \notin Batching
       /\ (pc' = "finish" => mode = "ordinary") /\ (pc' = "list" => mode = "ordinary")
       /\ (pc' = "refill" => mode = "round")
  BY <1>2 DEF Counting, Batching
<1>11. Opened' = Range(rest) /\ Failing' = {}
  <2>1. \A u \in Range(rest) : u \in User /\ result'[u] \in OpenResults'
    BY <1>3, <1>4, <1>9, <1>10, ListingPages DEF OpenResults
  <2>2. QED
    BY <1>1, <1>10, <2>1 DEF Opened, Failing
<1>12. ControlOK'
  BY <1>1, <1>6, <1>7, <1>9, <1>10 DEF ControlOK
<1>13. /\ Range(active') \cap Range(buffered') = {}
       /\ Expected' \cap (Range(active') \cup Range(buffered')) = {}
       /\ Range(active') \cup Range(buffered') \subseteq Listed
       /\ Expected' \cup Range(buffered') \cup Opened' = Untouched
  BY <1>1, <1>3, <1>4, <1>5, <1>8, <1>11 DEF Untouched
<1>14. Arranged
  BY <1>1, <1>3, <1>4, <1>8, <1>9, <1>10, <1>11, <1>12, <1>13 DEF Arranged
<1>15. QED
  BY <1>1, <1>5, <1>6, <1>14, ShiftKeeps

\* The sizes of two disjoint sets of users add up.
LEMMA UsersApart ==
  ASSUME NEW S \in SUBSET User, NEW T \in SUBSET User, S \cap T = {}
  PROVE  /\ Cardinality(S) \in Nat /\ Cardinality(T) \in Nat
         /\ Cardinality(S \cup T) = Cardinality(S) + Cardinality(T)
         /\ Cardinality(S \cup T) \in 0..Cardinality(User)
<1>1. IsFiniteSet(User)
  BY RootAssumption DEF RootAssumption
<1>2. IsFiniteSet(S) /\ IsFiniteSet(T)
  BY <1>1, FS_Subset
<1>3. Cardinality(S) \in Nat /\ Cardinality(T) \in Nat /\ Cardinality(User) \in Nat
  BY <1>1, <1>2, FS_CardinalityType
<1>4. Cardinality(S \cap T) = 0
  BY FS_EmptySet
<1>5. Cardinality(S \cup T) = Cardinality(S) + Cardinality(T) - Cardinality(S \cap T)
  BY <1>2, FS_Union
<1>6. S \cup T \in SUBSET User
  OBVIOUS
<1>7. Cardinality(S \cup T) <= Cardinality(User)
  BY <1>1, <1>6, FS_Subset
<1>8. QED
  BY <1>3, <1>4, <1>5, <1>7

\* The batch is counted: its finished users are synced, its failed ones have to be
\* handed over, and nobody else changes place.
LEMMA JoinKeeps ==
  ASSUME RootInv, Join
  PROVE  RootInv'
<1> PICK fin : fin = With("finished")
  OBVIOUS
<1> PICK bad : bad = With("failed")
  OBVIOUS
<1> PICK mine : mine = Handed \cap Listed
  OBVIOUS
<1>1. /\ pc = "join" /\ With("running") = {}
      /\ users_completed' = users_completed + Cardinality(fin)
      /\ users_failed' = users_failed + Cardinality(bad)
      /\ failed' = failed \o Within(active, bad)
      /\ synced' = synced \cup fin
      /\ fresh' = FALSE
      /\ pc' = IF bad = {} THEN "advance" ELSE "remediate"
      /\ UNCHANGED <<mode, user_cursor, user_page_attempt, exhausted, spent, active, buffered, count,
                     result, remediation, phase, handed, active_remediations, failed_remediated, user,
                     settled, suggested, status, moved>>
  BY DEF Join, listVars, remediationVars, userVars
<1>2. /\ active \in Seq(User) /\ failed \in Seq(User) /\ Range(active) \cup synced \subseteq Listed
      /\ Listed \in SUBSET User /\ Range(active) \subseteq User
      /\ result \in [User -> {"none", "running", "finished", "unfinished", "failed"}]
      /\ \A u \in User : u \in Range(active) <=> result[u] # "none"
  BY <1>1, ListingPages DEF RootInv, StateTypeOK, RootTypeOK, PlacesOK, ControlOK, Batching
<1>3. /\ Opened = Range(active) /\ Failing = {} /\ status = "running" /\ failed_remediated
      /\ \A u \in Untouched : handed[u] = 0 /\ u \notin synced
  BY <1>1, AllOpen DEF RootInv, ControlOK, StateTypeOK, PlacesOK, Aborted, Counting
<1>4. /\ fin \in SUBSET User /\ bad \in SUBSET User /\ synced \in SUBSET User /\ mine \in SUBSET User
      /\ fin \subseteq Range(active) /\ bad \subseteq Range(active)
      /\ Range(active) \subseteq Untouched
      /\ \A v : UNCHANGED With(v)
  BY <1>1, <1>2, <1>3 DEF With, Handed, Untouched
<1>5. UNCHANGED <<Handed, Aborted, Expected>>
  <2>1. pc' \in Batching /\ pc \in Batching /\ pc # "finish" /\ pc # "closed"
        /\ pc' # "finish" /\ pc' # "closed"
    BY <1>1 DEF Batching
  <2>2. UNCHANGED <<Handed, Aborted>>
    BY <1>1 DEF Handed, Aborted
  <2>3. UNCHANGED ComingPages
    BY <1>1, <2>1 DEF ComingPages, ListPage
  <2>4. QED
    BY <2>2, <2>3 DEF Expected
<1>6. Failing' = bad
  BY <1>1, <1>4 DEF Failing
<1>7. Opened' = Range(active) \ fin
  <2>1. \A u \in Range(active) : result[u] \in {"finished", "unfinished", "failed"}
    BY <1>1, <1>2 DEF With
  <2>2. \A u \in Range(active) : u \in fin <=> result[u] = "finished"
    BY DEF With
  <2>3. \A u \in Range(active) : result[u] \in OpenResults' <=> result[u] # "finished"
    <3>1. CASE bad = {}
      <4>1. \A u \in Range(active) : result[u] # "failed"
        BY <3>1 DEF With
      <4>2. QED
        BY <1>1, <2>1, <3>1, <4>1 DEF OpenResults
    <3>2. CASE bad # {}
      BY <1>1, <2>1, <3>2 DEF OpenResults
    <3>3. QED
      BY <3>1, <3>2
  <2>4. QED
    BY <1>1, <2>2, <2>3 DEF Opened
<1>8. Untouched' = Untouched \ fin
  <2>1. fin \cap Range(buffered) = {} /\ fin \cap Expected = {}
    BY <1>4 DEF RootInv, PlacesOK
  <2>2. QED
    BY <1>1, <1>3, <1>5, <1>7, <2>1 DEF Untouched
<1>9. /\ synced \cap fin = {} /\ mine \cap bad = {}
      /\ \A u \in fin : handed[u] = 0 /\ u \notin synced
  BY <1>3, <1>4 DEF Handed
<1>10. failed' \in Seq(User) /\ Range(failed') = Range(failed) \cup bad
  <2>1. PICK w : w = Within(active, bad)
    OBVIOUS
  <2>2. w \in Seq(User) /\ Range(w) = Range(active) \cap bad
    BY <1>2, <2>1, WithinProperties
  <2>3. failed' = failed \o w
    BY <1>1, <2>1
  <2>4. failed' \in Seq(User) /\ Range(failed') = Range(failed) \cup Range(w)
    BY ONLY <1>2, <2>2, <2>3, ConcatRange
  <2>5. QED
    BY <1>4, <2>2, <2>4
<1>11. /\ users_completed' = Cardinality(synced') /\ users_completed' \in 0..Cardinality(User)
       /\ users_failed' = Cardinality((Handed' \cap Listed) \cup Failing')
       /\ users_failed' \in 0..Cardinality(User)
  <2>1. users_completed = Cardinality(synced) /\ users_failed = Cardinality(mine)
    <3>1. mine \cup {} = mine
      OBVIOUS
    <3>2. QED
      BY <1>3, <3>1 DEF RootInv, NumbersOK, Aborted
  <2>2. Cardinality(synced \cup fin) = Cardinality(synced) + Cardinality(fin)
        /\ Cardinality(synced \cup fin) \in 0..Cardinality(User)
    BY <1>4, <1>9, UsersApart
  <2>3. Cardinality(mine \cup bad) = Cardinality(mine) + Cardinality(bad)
        /\ Cardinality(mine \cup bad) \in 0..Cardinality(User)
    BY <1>4, <1>9, UsersApart
  <2>4. users_completed' = Cardinality(synced \cup fin) /\ synced' = synced \cup fin
    BY <1>1, <2>1, <2>2
  <2>5. users_failed' = Cardinality(mine \cup bad) /\ Handed' \cap Listed = mine
    BY <1>1, <1>5, <2>1, <2>3
  <2>6. QED
    BY <1>6, <2>2, <2>3, <2>4, <2>5
<1>12. PlacesOK'
  <2>1. \A u \in Untouched' : handed'[u] = 0 /\ u \notin synced'
    BY <1>1, <1>3, <1>8
  <2>2. \A u \in User : ~(u \in synced' /\ handed'[u] = 1)
    BY <1>1, <1>9 DEF RootInv, PlacesOK
  <2>3. With("finished")' \subseteq synced'
    BY <1>1, <1>4
  <2>4. Range(active') \cup Range(buffered') \cup synced' \subseteq Listed
    BY <1>1, <1>2, <1>4 DEF RootInv, PlacesOK
  <2>5. QED
    BY <1>1, <1>5, <2>1, <2>2, <2>3, <2>4 DEF RootInv, PlacesOK
<1>13. NumbersOK'
  <2>1. Listed \subseteq Untouched' \cup synced' \cup Handed'
    BY <1>1, <1>3, <1>5, <1>8 DEF RootInv, NumbersOK, Aborted
  <2>2. Range(failed') \subseteq Handed' \cup Failing' \cup CutOff'
    <3>1. CutOff' = CutOff
      BY <1>1 DEF CutOff
    <3>2. Range(failed) \subseteq Handed \cup Failing \cup CutOff
      BY <1>3 DEF RootInv, NumbersOK, Aborted
    <3>3. QED
      BY <1>3, <1>5, <1>6, <1>10, <3>1, <3>2
  <2>3. status' = "running" /\ failed_remediated'
    BY <1>1, <1>3
  <2>4. QED
    BY <1>11, <2>1, <2>2, <2>3 DEF NumbersOK, Aborted
<1>14. ControlOK'
  <2>1. pc' \in Batching /\ With("running")' = {} /\ pc' \notin {"finish", "closed", "carried", "list", "refill"}
    BY <1>1, <1>4 DEF Batching
  <2>2. QED
    BY <1>1, <1>2, <1>3, <2>1 DEF RootInv, ControlOK
<1>15. RemediationsOK'
  <2>1. DOMAIN remediation \subseteq {"legacy", "batch"} \X Nat /\ count \in Nat
    BY DEF RootInv, RootTypeOK
  <2>2. QED
    BY <1>1, <2>1, RemediationsFrame DEF RootInv
<1>16. SettledOK'
  <2>1. ASSUME NEW u \in fin, ~moved
        PROVE  EveryPage \subseteq settled[u]
    <3>1. result[u] = "finished" /\ u \in User
      BY <1>4 DEF With
    <3>2. QED
      BY <1>1, <2>1, <3>1 DEF RootInv, SettledOK, Batching
  <2>2. \A u \in User : u \in synced' /\ ~moved => EveryPage \subseteq settled[u]
    BY <1>1, <2>1 DEF RootInv, SettledOK
  <2>3. pc \in Batching
    BY <1>1 DEF Batching
  <2>4. QED
    BY <1>1, <2>2, <2>3 DEF RootInv, SettledOK, CursorsFit, ResumesFit, Outstanding
<1>17. StateTypeOK'
  BY <1>1, <1>3, <1>4, <1>10 DEF RootInv, StateTypeOK
<1>18. RootTypeOK'
  <2>1. Range(failed') \subseteq User /\ synced' \subseteq User
    <3>1. Range(failed) \subseteq User
      BY DEF RootInv, RootTypeOK
    <3>2. QED
      BY <1>1, <1>4, <1>10, <3>1
  <2>2. QED
    BY <1>1, <1>11, <2>1 DEF RootInv, RootTypeOK
<1>19. QED
  BY <1>12, <1>13, <1>14, <1>15, <1>16, <1>17, <1>18 DEF RootInv

\* A sequence is one of its own elements.
LEMMA OwnElements ==
  ASSUME NEW s \in Seq(User)
  PROVE  s \in Seq(Range(s))
<1>1. s \in [1..Len(s) -> User] /\ Len(s) \in Nat /\ DOMAIN s = 1..Len(s)
  BY LenProperties
<1>2. \A i \in 1..Len(s) : s[i] \in Range(s)
  BY <1>1 DEF Range
<1>3. s \in [1..Len(s) -> Range(s)]
  BY <1>1, <1>2
<1>4. QED
  BY <1>1, <1>3, SeqDef

\* The first batch of a remediation and the rest are the keys it was left with.
LEMMA BatchAndRest ==
  ASSUME NEW S, NEW keys \in Seq(S)
  PROVE  LET rest == SubSeq(keys, Len(FirstBatch(keys)) + 1, Len(keys)) IN
         /\ rest \in Seq(S)
         /\ Range(keys) = Range(FirstBatch(keys)) \cup Range(rest)
<1> PICK m : m = IF Len(keys) < BatchSize THEN Len(keys) ELSE BatchSize
  OBVIOUS
<1>1. m \in Nat /\ m <= Len(keys)
  BY RootAssumption, LenProperties DEF RootAssumption
<1>2. FirstBatch(keys) = SubSeq(keys, 1, m)
  BY DEF FirstBatch
<1>3. /\ Len(SubSeq(keys, 1, m)) = m /\ SubSeq(keys, m + 1, Len(keys)) \in Seq(S)
      /\ Range(keys) = Range(SubSeq(keys, 1, m)) \cup Range(SubSeq(keys, m + 1, Len(keys)))
  BY ONLY <1>1, keys \in Seq(S), SplitProperties
<1>4. QED
  BY <1>2, <1>3, Zenon

\* A sample holds users of what it is taken from.
LEMMA SampleProperties ==
  ASSUME NEW S, NEW keys \in Seq(S)
  PROVE  Sample(keys) \in Seq(S) /\ Range(Sample(keys)) \subseteq Range(keys)
<1> PICK m : m = IF Len(keys) < SampleLimit THEN Len(keys) ELSE SampleLimit
  OBVIOUS
<1>1. m \in Nat /\ m <= Len(keys)
  BY RootAssumption, LenProperties DEF RootAssumption
<1>2. Sample(keys) = SubSeq(keys, 1, m)
  BY DEF Sample
<1>3. /\ SubSeq(keys, 1, m) \in Seq(S)
      /\ Range(keys) = Range(SubSeq(keys, 1, m)) \cup Range(SubSeq(keys, m + 1, Len(keys)))
  BY ONLY <1>1, keys \in Seq(S), SplitProperties
<1>4. QED
  BY <1>2, <1>3, Zenon

\* Failed users are handed over: each for the first time, and nobody is left out
\* but those of an older input that a sample does not hold.
LEMMA StartRemediationKeeps ==
  ASSUME RootInv, StartRemediation
  PROVE  RootInv'
<1> PICK keys : keys = FailedUsers
  OBVIOUS
<1> PICK R : R = Range(keys)
  OBVIOUS
<1> PICK new : new = Partition
  OBVIOUS
<1>1. /\ pc \in {"carried", "remediate"}
      /\ remediation' = [id \in DOMAIN remediation \cup {new} |->
           IF id = new THEN NewRemediation ELSE remediation[id]]
      /\ handed' = [u \in User |-> handed[u] + IF u \in R THEN 1 ELSE 0]
      /\ phase' = [u \in User |-> IF u \in Range(FirstBatch(keys)) THEN "recent" ELSE phase[u]]
      /\ active_remediations' = active_remediations \cup {new}
      /\ failed_remediated' = TRUE
      /\ pc' = IF pc = "carried" THEN Begin ELSE "advance"
      /\ UNCHANGED <<mode, user_cursor, user_page_attempt, exhausted, spent, active, buffered, count,
                     fresh, result, users_completed, users_failed, failed, synced, user, settled,
                     suggested, status, moved>>
  BY DEF StartRemediation, Activating, Recorded, listVars, batchVars, countVars, userVars
<1>2. /\ handed \in [User -> {0, 1}] /\ status = "running" /\ Listed \in SUBSET User
      /\ Untouched \subseteq Listed /\ Range(active) \subseteq User
      /\ \A u \in Untouched : handed[u] = 0 /\ u \notin synced
      /\ mode \in {"ordinary", "round"} /\ count \in Nat
      /\ DOMAIN remediation \subseteq {"legacy", "batch"} \X Nat
  <2>1. Expected \subseteq Listed
    <3>1. ComingPages \subseteq ListPages
      <4>1. ListPage \in Nat /\ ListPage >= 1 /\ ListPages = 1..Len(Listing)
        BY NextListing, ListingPages
      <4>2. QED
        BY <4>1 DEF ComingPages
    <3>2. QED
      BY <3>1, ListingPages DEF Expected
  <2>2. Untouched \subseteq Listed
    BY <2>1 DEF RootInv, PlacesOK, Untouched, Opened
  <2>3. status = "running"
    BY <1>1 DEF RootInv, StateTypeOK
  <2>4. handed \in [User -> {0, 1}] /\ Range(active) \subseteq User
    BY DEF RootInv, StateTypeOK, RootTypeOK
  <2>5. QED
    BY <2>2, <2>3, <2>4, ListingPages DEF RootInv, RootTypeOK, PlacesOK
<1>3. ASSUME pc = "carried"
      PROVE  /\ Range(Carried) \subseteq R \cup CutOff /\ failed = Carried /\ ~failed_remediated
             /\ R \cap Listed = {} /\ new = <<"legacy", count>>
             /\ keys \in Seq(User) /\ \A u \in R : handed[u] = 0
             /\ Failing = {} /\ pc' = Begin
             /\ pc' \notin Batching /\ pc' \notin {"carried", "finish", "closed", "start"}
             /\ Untouched' = Untouched /\ Failing' = {}
  <2>1. ~failed_remediated /\ failed = Carried
    BY <1>2, <1>3 DEF RootInv, ControlOK, Aborted
  <2>2. /\ keys = IF mode = "round" THEN Sample(Carried) ELSE Carried
        /\ new = <<"legacy", count>> /\ pc' = Begin
    BY <1>1, <1>3, <2>1 DEF FailedUsers, Partition
  <2>3. pc' \notin Batching /\ pc' \notin Counting
        /\ pc' \notin {"carried", "finish", "closed", "start"} /\ pc \notin Batching /\ pc \notin Counting
    BY <1>3, <2>2 DEF Begin, Batching, Counting
  <2>4. Failing = {} /\ Failing' = {}
    BY <2>3 DEF Failing, Counting
  <2>5. UNCHANGED ComingPages
    BY <1>1, <1>3, <2>3 DEF ComingPages, ListPage
  <2>6. UNCHANGED OpenResults
    BY <2>3 DEF OpenResults, Counting
  <2>7. Untouched' = Untouched
    BY <1>1, <2>5, <2>6 DEF Untouched, Expected, Opened
  <2>8. \A u \in Range(Carried) : handed[u] = 0
    BY <2>1 DEF RootInv, PlacesOK
  <2>9. Carried \in Seq(User) /\ Sample(Carried) \in Seq(User)
        /\ Range(Sample(Carried)) \subseteq Range(Carried)
    BY ListingPages, SampleProperties
  <2>10. keys \in Seq(User) /\ R \subseteq Range(Carried) /\ Range(Carried) \subseteq R \cup CutOff
    BY <2>2, <2>9 DEF CutOff
  <2>11. QED
    BY <2>1, <2>2, <2>3, <2>4, <2>7, <2>8, <2>10, ListingPages
<1>4. ASSUME pc = "remediate"
      PROVE  /\ R = With("failed") /\ R \subseteq Untouched /\ new = <<"batch", count>>
             /\ keys \in Seq(User) /\ R \subseteq User /\ failed_remediated
             /\ Failing = R /\ pc' = "advance"
             /\ Untouched' = Untouched \ R /\ Failing' = {}
  <2>1. active \in Seq(User) /\ failed_remediated
    BY <1>2, <1>4 DEF RootInv, StateTypeOK, ControlOK, Aborted
  <2>2. keys = Within(active, With("failed")) /\ new = <<"batch", count>> /\ pc' = "advance"
    BY <1>1, <1>4 DEF FailedUsers, Partition
  <2>3. keys \in Seq(User) /\ R = Range(active) \cap With("failed")
    BY <2>1, <2>2, WithinProperties
  <2>4. R = With("failed") /\ R \subseteq User /\ R \subseteq Opened
    BY <1>2, <1>4, <2>3 DEF With, Opened, OpenResults
  <2>5. Failing = R /\ Failing' = {}
    BY <1>4, <2>2, <2>4 DEF Failing
  <2>6. UNCHANGED ComingPages
    BY <1>1, <1>4, <2>2 DEF ComingPages, ListPage, Batching
  <2>7. Opened' = Opened \ R
    <3>1. \A u \in Range(active) : u \in R <=> result[u] = "failed"
      BY <2>4 DEF With
    <3>2. OpenResults = {"unfinished", "failed"} /\ OpenResults' = {"unfinished"}
      BY <1>4, <2>2 DEF OpenResults
    <3>3. QED
      BY <1>1, <3>1, <3>2 DEF Opened
  <2>8. R \cap Range(buffered) = {} /\ R \cap Expected = {}
    BY <2>4 DEF RootInv, PlacesOK, Opened
  <2>9. Untouched' = Untouched \ R
    BY <1>1, <2>6, <2>7, <2>8 DEF Untouched, Expected
  <2>10. QED
    BY <2>1, <2>2, <2>3, <2>4, <2>5, <2>9 DEF Untouched
<1>5. /\ keys \in Seq(User) /\ R \subseteq User
      /\ \A u \in R : handed[u] = 0 /\ u \notin synced /\ u \notin Untouched'
      /\ Untouched' \subseteq Untouched
  <2>1. CASE pc = "carried"
    <3>1. synced \subseteq Listed
      BY DEF RootInv, PlacesOK
    <3>2. R \subseteq User
      BY <1>3, <2>1, LenProperties, ElementOfSeq DEF Range
    <3>3. QED
      BY <1>2, <1>3, <2>1, <3>1, <3>2
  <2>2. CASE pc = "remediate"
    BY <1>2, <1>4, <2>2
  <2>3. QED
    BY <1>1, <2>1, <2>2
<1>6. /\ handed' \in [User -> {0, 1}]
      /\ \A u \in User : handed'[u] = IF u \in R THEN 1 ELSE handed[u]
      /\ Handed' = Handed \cup R
  <2>1. \A u \in User : handed'[u] = IF u \in R THEN 1 ELSE handed[u]
    BY <1>1, <1>2, <1>5
  <2>2. DOMAIN handed' = User
    BY <1>1
  <2>3. \A u \in User : handed'[u] \in {0, 1}
    BY <1>2, <2>1
  <2>4. handed' \in [User -> {0, 1}]
    BY <1>1, <2>3
  <2>5. QED
    BY <1>5, <2>1, <2>4 DEF Handed
<1>7. /\ Range(FirstBatch(keys)) \subseteq R /\ keys \in Seq(R)
      /\ phase' \in [User -> {"none", "recent", "backfill", "activated", "failed"}]
      /\ \A u \in User : u \notin R => phase'[u] = phase[u]
      /\ \A u \in User : phase'[u] = "activated" => phase[u] = "activated"
  <2>1. Range(FirstBatch(keys)) \subseteq R
    BY <1>5, BatchAndRest
  <2>2. keys \in Seq(R)
    BY <1>5, OwnElements
  <2>3. QED
    BY <1>1, <2>1, <2>2 DEF RootInv, StateTypeOK
<1>8. new \notin DOMAIN remediation /\ new \in {"legacy", "batch"} \X Nat
  <2>1. CASE pc = "carried"
    BY <1>2, <1>3, <2>1 DEF RootInv, RemediationsOK
  <2>2. CASE pc = "remediate"
    BY <1>2, <1>4, <2>2 DEF RootInv, RemediationsOK
  <2>3. QED
    BY <1>1, <2>1, <2>2
<1>9. RemediationsOK'
  <2>1. /\ DOMAIN remediation' = DOMAIN remediation \cup {new}
        /\ remediation'[new] = NewRemediation
        /\ \A id \in DOMAIN remediation : remediation'[id] = remediation[id] /\ id # new
    BY <1>1, <1>8
  <2>2. /\ NewRemediation.users = R /\ NewRemediation.keys = keys /\ NewRemediation.errors = FALSE
        /\ NewRemediation.status = "running"
    BY DEF NewRemediation
  <2>3. \A id \in DOMAIN remediation : remediation[id].users \cap R = {} /\ remediation[id].users \subseteq User
    <3>1. \A id \in DOMAIN remediation : remediation[id].users \subseteq Handed
      BY DEF RootInv, RemediationsOK
    <3>2. Handed \cap R = {} /\ Handed \subseteq User
      BY <1>5 DEF Handed
    <3>3. QED
      BY <3>1, <3>2
  <2>4. /\ new[1] = "batch" => new[2] = count /\ pc' = "advance"
        /\ new[1] = "legacy" => failed_remediated'
    BY <1>1, <1>3, <1>4
  <2>5. ASSUME NEW id \in DOMAIN remediation, id[1] = "batch"
        PROVE  id[2] < count \/ (id[2] = count /\ pc' = "advance")
    BY <1>1, <2>5 DEF RootInv, RemediationsOK
  <2>6. ASSUME NEW id \in DOMAIN remediation'
        PROVE  /\ id[1] = "legacy" => failed_remediated'
               /\ id[1] = "batch" => \/ id[2] < count' \/ pc' = "closed"
                                     \/ id[2] = count' /\ pc' = "advance"
               /\ remediation'[id] \in Remediations
               /\ remediation'[id].users \subseteq Handed'
               /\ remediation'[id].keys \in Seq(remediation'[id].users)
               /\ remediation'[id].status \in {"running", "completed"} /\ ~remediation'[id].errors =>
                    \A u \in remediation'[id].users :
                      u \in Range(remediation'[id].keys) \/ phase'[u] = "activated"
               /\ remediation'[id].status = "completed" =>
                    ~remediation'[id].errors /\ remediation'[id].keys = <<>>
    <3>1. CASE id = new
      <4>1. /\ remediation'[id].users = R /\ remediation'[id].keys = keys
            /\ remediation'[id].errors = FALSE /\ remediation'[id].status = "running"
        BY <2>1, <2>2, <3>1
      <4>2. R \subseteq Handed' /\ keys \in Seq(R) /\ \A u \in R : u \in Range(keys)
        BY <1>6, <1>7
      <4>3. /\ id[1] = "legacy" => failed_remediated'
            /\ id[1] = "batch" => id[2] = count' /\ pc' = "advance"
        BY <1>1, <2>4, <3>1
      <4>4. /\ remediation'[id].users \subseteq Handed'
            /\ remediation'[id].keys \in Seq(remediation'[id].users)
        BY <4>1, <4>2
      <4>5. remediation'[id] \in Remediations
        <5>1. NewRemediation = [users |-> R, keys |-> keys, errors |-> FALSE, status |-> "running"]
          BY DEF NewRemediation
        <5>2. R \in SUBSET User /\ keys \in Seq(User) /\ remediation'[id] = NewRemediation
          BY <1>5, <2>1, <3>1
        <5>3. QED
          BY ONLY <5>1, <5>2 DEF Remediations
      <4>6. QED
        BY <4>1, <4>2, <4>3, <4>4, <4>5
    <3>2. CASE id \in DOMAIN remediation
      <4>1. remediation'[id] = remediation[id] /\ failed_remediated' /\ count' = count
        BY <1>1, <2>1, <3>2
      <4>2. \A u \in remediation[id].users : phase'[u] = phase[u]
        BY <1>7, <2>3, <3>2
      <4>3. QED
        BY <1>6, <2>5, <3>2, <4>1, <4>2 DEF RootInv, RemediationsOK
    <3>3. QED
      BY <2>1, <3>1, <3>2
  <2>7. \A i, j \in DOMAIN remediation' : i # j => remediation'[i].users \cap remediation'[j].users = {}
    BY <2>1, <2>2, <2>3 DEF RootInv, RemediationsOK
  <2>8. QED
    BY <2>6, <2>7 DEF RemediationsOK
<1>10. PlacesOK'
  <2>1. UNCHANGED Expected
    <3>1. CASE pc = "carried"
      BY <1>1, <1>3, <3>1 DEF Expected, ComingPages, ListPage, Batching
    <3>2. CASE pc = "remediate"
      BY <1>1, <1>4, <3>2 DEF Expected, ComingPages, ListPage, Batching
    <3>3. QED
      BY <1>1, <3>1, <3>2
  <2>2. \A u \in User : handed'[u] = 0 => phase'[u] = "none"
    BY <1>6, <1>7 DEF RootInv, PlacesOK
  <2>3. \A u \in User : ~(u \in synced' /\ handed'[u] = 1)
    BY <1>1, <1>5, <1>6 DEF RootInv, PlacesOK
  <2>4. \A u \in Untouched' : handed'[u] = 0 /\ u \notin synced'
    BY <1>1, <1>2, <1>5, <1>6
  <2>5. pc' \in Counting => With("finished")' \subseteq synced'
    <3>1. CASE pc = "carried"
      BY <1>3, <3>1 DEF Counting, Batching
    <3>2. CASE pc = "remediate"
      BY <1>1, <3>2 DEF RootInv, PlacesOK, Counting, With
    <3>3. QED
      BY <1>1, <3>1, <3>2
  <2>6. QED
    BY <1>1, <2>1, <2>2, <2>3, <2>4, <2>5 DEF RootInv, PlacesOK
<1>11. NumbersOK'
  <2>1. status' = "running" /\ failed_remediated' /\ Failing' = {}
    BY <1>1, <1>2, <1>3, <1>4
  <2>2. Listed \subseteq Untouched' \cup synced' \cup Handed'
    <3>1. Listed \subseteq Untouched \cup synced \cup Handed
      BY <1>2 DEF RootInv, NumbersOK, Aborted
    <3>2. Untouched \subseteq Untouched' \cup R
      BY <1>1, <1>3, <1>4
    <3>3. QED
      BY <1>1, <1>6, <3>1, <3>2
  <2>3. Range(failed') \subseteq Handed' \cup CutOff'
    <3>1. Range(failed) \subseteq Handed \cup Failing \cup CutOff
                                    \cup (IF failed_remediated THEN {} ELSE Range(Carried))
      BY <1>2 DEF RootInv, NumbersOK, Aborted
    <3>2. CutOff' = CutOff
      BY <1>1 DEF CutOff
    <3>3. CASE pc = "carried"
      BY <1>1, <1>3, <1>6, <3>1, <3>2, <3>3
    <3>4. CASE pc = "remediate"
      BY <1>1, <1>4, <1>6, <3>1, <3>2, <3>4
    <3>5. QED
      BY <1>1, <3>3, <3>4
  <2>4. (Handed' \cap Listed) \cup {} = (Handed \cap Listed) \cup Failing
    <3>1. CASE pc = "carried"
      BY <1>3, <1>6, <3>1
    <3>2. CASE pc = "remediate"
      BY <1>2, <1>4, <1>6, <3>2
    <3>3. QED
      BY <1>1, <3>1, <3>2
  <2>5. users_completed' = Cardinality(synced') /\ users_failed' = Cardinality((Handed' \cap Listed) \cup {})
    BY <1>1, <1>2, <2>4 DEF RootInv, NumbersOK, Aborted
  <2>6. QED
    BY <2>1, <2>2, <2>3, <2>5 DEF NumbersOK, Aborted
<1>12. ControlOK'
  <2>1. CASE pc = "carried"
    <3>1. mode = "ordinary" => pc' = "list"
      BY <1>3, <2>1 DEF Begin
    <3>2. mode = "round" => pc' = "refill"
      BY <1>3, <2>1 DEF Begin
    <3>3. pc \notin Batching /\ pc' \notin Counting
      BY <1>3, <2>1 DEF Batching, Counting
    <3>4. QED
      BY <1>1, <1>2, <1>3, <2>1, <3>1, <3>2, <3>3 DEF RootInv, ControlOK
  <2>2. CASE pc = "remediate"
    <3>1. pc \in Counting /\ pc \in Batching /\ pc' \in Batching
      BY <1>4, <2>2 DEF Batching, Counting
    <3>2. UNCHANGED With("running")
      BY <1>1 DEF With
    <3>3. QED
      BY <1>1, <1>2, <1>4, <2>2, <3>1, <3>2 DEF RootInv, ControlOK
  <2>3. QED
    BY <1>1, <2>1, <2>2
<1>13. SettledOK'
  <2>1. pc' \in Batching => pc \in Batching
    BY <1>1, <1>3 DEF Batching
  <2>2. QED
    BY <1>1, <1>7, <2>1 DEF RootInv, SettledOK, CursorsFit, ResumesFit, Outstanding
<1>14. StateTypeOK' /\ RootTypeOK'
  <2>1. pc' \in {"list", "refill", "advance"}
    BY <1>1 DEF Begin
  <2>2. StateTypeOK'
    BY <1>1, <1>6, <1>7, <2>1 DEF RootInv, StateTypeOK
  <2>3. \A id \in DOMAIN remediation' :
          remediation'[id].status \in {"running", "completed", "failed", "canceled"}
    BY <1>1 DEF RootInv, RootTypeOK, NewRemediation
  <2>4. /\ active_remediations' \subseteq DOMAIN remediation'
        /\ DOMAIN remediation' \subseteq {"legacy", "batch"} \X Nat
    BY <1>1, <1>8 DEF RootInv, RootTypeOK
  <2>5. RootTypeOK'
    BY <1>1, <1>7, <2>1, <2>3, <2>4 DEF RootInv, RootTypeOK
  <2>6. QED
    BY <2>2, <2>5
<1>15. QED
  BY <1>9, <1>10, <1>11, <1>12, <1>13, <1>14 DEF RootInv

-----------------------------------------------------------------------------
(* Steps of remediations, and the end of the root *)

\* A step of a remediation touches the users that have been handed over, and
\* activates none.
LEMMA RemediationSteps ==
  ASSUME RootInv, RemediationsOK', DOMAIN remediation' = DOMAIN remediation,
         phase' \in [User -> {"none", "recent", "backfill", "activated", "failed"}],
         \A u \in User : u \notin Handed => phase'[u] = phase[u],
         \A u \in User : phase'[u] = "activated" => phase[u] = "activated",
         UNCHANGED <<mode, pc, listVars, batchVars, countVars, handed, active_remediations,
                     failed_remediated, userVars, suggested, status, moved>>
  PROVE  RootInv'
<1>1. UNCHANGED <<mode, pc, user_cursor, user_page_attempt, exhausted, spent, active, buffered, count,
                  fresh, result, users_completed, users_failed, failed, synced, handed,
                  active_remediations, failed_remediated, user, settled, suggested, status, moved>>
  BY DEF listVars, batchVars, countVars, userVars
<1>2. UNCHANGED <<ComingPages, OpenResults, Failing, Expected, Handed, Aborted, Opened, Untouched,
                  CutOff>>
      /\ \A v : UNCHANGED With(v)
  BY <1>1 DEF ComingPages, OpenResults, Failing, Expected, Handed, Aborted, Opened, Untouched,
     CutOff, ListPage, With
<1>3. PlacesOK'
  <2>1. \A u \in User : handed[u] = 0 => phase'[u] = "none"
    BY DEF RootInv, PlacesOK, Handed
  <2>2. QED
    BY <1>1, <1>2, <2>1 DEF RootInv, PlacesOK
<1>4. NumbersOK' /\ ControlOK'
  <2>1. NumbersOK'
    BY <1>1, <1>2 DEF RootInv, NumbersOK
  <2>2. ControlOK'
    BY <1>1, <1>2 DEF RootInv, ControlOK
  <2>3. QED
    BY <2>1, <2>2
<1>5. SettledOK'
  BY <1>1 DEF RootInv, SettledOK, CursorsFit, ResumesFit, Outstanding
<1>6. StateTypeOK'
  BY <1>1 DEF RootInv, StateTypeOK
<1>7. RootTypeOK'
  <2>1. \A id \in DOMAIN remediation' :
          remediation'[id].status \in {"running", "completed", "failed", "canceled"}
    BY DEF RemediationsOK, Remediations
  <2>2. QED
    BY <1>1, <2>1 DEF RootInv, RootTypeOK
<1>8. QED
  BY <1>3, <1>4, <1>5, <1>6, <1>7 DEF RootInv

\* A batch of a remediation is joined: a user that leaves its keys is activated,
\* or the remediation remembers an error.
LEMMA RemediationJoinsKeeps ==
  ASSUME RootInv, NEW id \in DOMAIN remediation, RemediationJoins(id)
  PROVE  RootInv'
<1> PICK old : old = remediation[id]
  OBVIOUS
<1> PICK batch : batch = Range(FirstBatch(old.keys))
  OBVIOUS
<1> PICK rest : rest = SubSeq(old.keys, Len(FirstBatch(old.keys)) + 1, Len(old.keys))
  OBVIOUS
<1> PICK errors : errors = ErrorsSoFar(id, batch)
  OBVIOUS
<1> PICK verdict : verdict = IF rest # <<>> THEN "running" ELSE IF errors THEN "failed" ELSE "completed"
  OBVIOUS
<1>1. /\ old.status = "running" /\ \A u \in batch : phase[u] \in {"activated", "failed"}
      /\ remediation' = [remediation EXCEPT ![id] =
           [users |-> old.users, keys |-> rest, errors |-> errors, status |-> verdict]]
      /\ phase' = Activating(rest)
      /\ UNCHANGED <<mode, pc, listVars, batchVars, countVars, handed, active_remediations,
                     failed_remediated, userVars, suggested, status, moved>>
  BY DEF RemediationJoins
<1>2. /\ old \in Remediations /\ old.users \subseteq Handed /\ old.keys \in Seq(old.users)
      /\ ~old.errors => \A u \in old.users : u \in Range(old.keys) \/ phase[u] = "activated"
  BY <1>1 DEF RootInv, RemediationsOK
<1>3. rest \in Seq(old.users) /\ Range(old.keys) = batch \cup Range(rest)
  BY <1>2, BatchAndRest
<1>4. errors = (old.errors \/ \E u \in batch : phase[u] = "failed")
  BY DEF ErrorsSoFar
<1>5. errors \in BOOLEAN /\ (~errors => ~old.errors /\ \A u \in batch : phase[u] # "failed")
  BY <1>2, <1>4 DEF Remediations
<1>6. /\ DOMAIN remediation' = DOMAIN remediation
      /\ \A j \in DOMAIN remediation : j # id => remediation'[j] = remediation[j]
      /\ remediation'[id] = [users |-> old.users, keys |-> rest, errors |-> errors, status |-> verdict]
  BY <1>1
<1>7. /\ Range(FirstBatch(rest)) \subseteq Range(rest) /\ Range(rest) \subseteq old.users
      /\ old.users \subseteq User
  <2>1. Range(FirstBatch(rest)) \subseteq Range(rest)
    BY <1>3, BatchAndRest
  <2>2. Range(rest) \subseteq old.users
    <3>1. \A i \in DOMAIN rest : rest[i] \in old.users
      BY <1>3, LenProperties, ElementOfSeq
    <3>2. QED
      BY <3>1 DEF Range
  <2>3. QED
    BY <1>2, <2>1, <2>2 DEF Remediations
<1>8. /\ phase' \in [User -> {"none", "recent", "backfill", "activated", "failed"}]
      /\ \A u \in User : u \notin Range(rest) => phase'[u] = phase[u]
      /\ \A u \in User : phase'[u] = "activated" => phase[u] = "activated"
  BY <1>1, <1>7 DEF Activating, RootInv, StateTypeOK
<1>9. UNCHANGED <<Handed, failed_remediated, count, pc>>
  BY <1>1 DEF Handed, batchVars
<1>10. rest \in Seq(User)
  BY <1>3, <1>7, SeqMonotonic
<1>11. /\ remediation'[id] \in Remediations
       /\ remediation'[id].users \subseteq Handed
       /\ remediation'[id].keys \in Seq(remediation'[id].users)
       /\ remediation'[id].status \in {"running", "completed"} /\ ~remediation'[id].errors =>
            \A u \in remediation'[id].users :
              u \in Range(remediation'[id].keys) \/ phase'[u] = "activated"
       /\ remediation'[id].status = "completed" =>
            ~remediation'[id].errors /\ remediation'[id].keys = <<>>
  <2>1. remediation'[id] \in Remediations
    BY <1>2, <1>5, <1>6, <1>10 DEF Remediations
  <2>2. ASSUME ~errors, NEW u \in old.users
        PROVE  u \in Range(rest) \/ phase'[u] = "activated"
    <3>1. u \in Range(old.keys) \/ phase[u] = "activated"
      BY <1>2, <1>5, <2>2
    <3>2. u \in batch \/ u \in Range(rest) \/ phase[u] = "activated"
      BY <1>3, <3>1
    <3>3. u \in Range(rest) \/ phase[u] = "activated"
      BY <1>1, <1>5, <2>2, <3>2
    <3>4. QED
      BY <1>7, <1>8, <3>3
  <2>3. /\ remediation'[id].users = old.users /\ remediation'[id].keys = rest
        /\ remediation'[id].errors = errors
        /\ remediation'[id].status = verdict /\ (verdict = "completed" => ~errors /\ rest = <<>>)
    <3>1. verdict = "completed" => ~errors /\ rest = <<>>
      <4>1. CASE rest = <<>> /\ ~errors
        BY <4>1
      <4>2. CASE rest = <<>> /\ errors
        <5>1. verdict = "failed"
          BY <4>2
        <5>2. QED
          BY <5>1
      <4>3. CASE rest # <<>>
        <5>1. verdict = "running"
          BY <4>3
        <5>2. QED
          BY <5>1
      <4>4. QED
        BY <1>5, <4>1, <4>2, <4>3
    <3>2. /\ remediation'[id].users = old.users /\ remediation'[id].keys = rest
          /\ remediation'[id].status = verdict /\ remediation'[id].errors = errors
      BY ONLY <1>6
    <3>3. QED
      BY <3>1, <3>2, Zenon
  <2>4. QED
    BY <1>2, <1>3, <2>1, <2>2, <2>3
<1>12. \A j \in DOMAIN remediation : j # id => \A u \in remediation[j].users : phase'[u] = phase[u]
  <2>1. ASSUME NEW j \in DOMAIN remediation, j # id, NEW u \in remediation[j].users
        PROVE  u \in User /\ u \notin old.users
    BY <2>1 DEF RootInv, RemediationsOK, Remediations
  <2>2. QED
    BY <1>7, <1>8, <2>1
<1>13. RemediationsOK'
  <2>1. ASSUME NEW j \in DOMAIN remediation
        PROVE  /\ j[1] = "legacy" => failed_remediated
               /\ j[1] = "batch" => j[2] < count \/ pc = "closed" \/ (j[2] = count /\ pc = "advance")
               /\ remediation'[j] \in Remediations
               /\ remediation'[j].users \subseteq Handed
               /\ remediation'[j].keys \in Seq(remediation'[j].users)
               /\ remediation'[j].status \in {"running", "completed"} /\ ~remediation'[j].errors =>
                    \A u \in remediation'[j].users :
                      u \in Range(remediation'[j].keys) \/ phase'[u] = "activated"
               /\ remediation'[j].status = "completed" =>
                    ~remediation'[j].errors /\ remediation'[j].keys = <<>>
    <3>1. CASE j = id
      BY <1>11, <3>1 DEF RootInv, RemediationsOK
    <3>2. CASE j # id
      BY <1>6, <1>12, <3>2 DEF RootInv, RemediationsOK
    <3>3. QED
      BY <3>1, <3>2
  <2>2. \A j \in DOMAIN remediation : remediation'[j].users = remediation[j].users
    BY <1>6
  <2>3. QED
    BY <1>6, <1>9, <2>1, <2>2 DEF RootInv, RemediationsOK
<1>14. QED
  <2>1. \A u \in User : u \notin Handed => phase'[u] = phase[u]
    BY <1>2, <1>7, <1>8
  <2>2. QED
    BY <1>1, <1>6, <1>8, <1>13, <2>1, RemediationSteps

\* A remediation is cancelled: those of its users that are not active have failed.
LEMMA CancelRemediationKeeps ==
  ASSUME RootInv, NEW id \in DOMAIN remediation, CancelRemediation(id)
  PROVE  RootInv'
<1> PICK old : old = remediation[id]
  OBVIOUS
<1>1. /\ remediation' = [remediation EXCEPT ![id] =
           [users |-> old.users, keys |-> <<>>, errors |-> old.errors, status |-> "canceled"]]
      /\ phase' = [u \in User |->
           IF u \in old.users /\ phase[u] # "activated" THEN "failed" ELSE phase[u]]
      /\ UNCHANGED <<mode, pc, listVars, batchVars, countVars, handed, active_remediations,
                     failed_remediated, userVars, suggested, status, moved>>
  BY DEF CancelRemediation
<1>2. old \in Remediations /\ old.users \subseteq Handed
  BY DEF RootInv, RemediationsOK
<1>3. /\ DOMAIN remediation' = DOMAIN remediation
      /\ \A j \in DOMAIN remediation : j # id => remediation'[j] = remediation[j]
      /\ remediation'[id] = [users |-> old.users, keys |-> <<>>, errors |-> old.errors,
                             status |-> "canceled"]
  BY <1>1
<1>4. /\ phase' \in [User -> {"none", "recent", "backfill", "activated", "failed"}]
      /\ \A u \in User : u \notin old.users => phase'[u] = phase[u]
      /\ \A u \in User : phase'[u] = "activated" => phase[u] = "activated"
  BY <1>1 DEF RootInv, StateTypeOK
<1>5. UNCHANGED <<Handed, failed_remediated, count, pc>>
  BY <1>1 DEF Handed, batchVars
<1>6. /\ remediation'[id] \in Remediations
      /\ remediation'[id].users \subseteq Handed
      /\ remediation'[id].keys \in Seq(remediation'[id].users)
      /\ remediation'[id].status = "canceled"
  <2>1. <<>> \in Seq(User) /\ <<>> \in Seq(old.users)
    BY EmptySeq
  <2>2. QED
    BY <1>2, <1>3, <2>1 DEF Remediations
<1>7. \A j \in DOMAIN remediation : j # id => \A u \in remediation[j].users : phase'[u] = phase[u]
  <2>1. ASSUME NEW j \in DOMAIN remediation, j # id, NEW u \in remediation[j].users
        PROVE  u \in User /\ u \notin old.users
    BY <2>1 DEF RootInv, RemediationsOK, Remediations
  <2>2. QED
    BY <1>4, <2>1
<1>8. RemediationsOK'
  <2>1. ASSUME NEW j \in DOMAIN remediation
        PROVE  /\ j[1] = "legacy" => failed_remediated
               /\ j[1] = "batch" => j[2] < count \/ pc = "closed" \/ (j[2] = count /\ pc = "advance")
               /\ remediation'[j] \in Remediations
               /\ remediation'[j].users \subseteq Handed
               /\ remediation'[j].keys \in Seq(remediation'[j].users)
               /\ remediation'[j].status \in {"running", "completed"} /\ ~remediation'[j].errors =>
                    \A u \in remediation'[j].users :
                      u \in Range(remediation'[j].keys) \/ phase'[u] = "activated"
               /\ remediation'[j].status = "completed" =>
                    ~remediation'[j].errors /\ remediation'[j].keys = <<>>
    <3>1. CASE j = id
      BY <1>6, <3>1 DEF RootInv, RemediationsOK
    <3>2. CASE j # id
      BY <1>3, <1>7, <3>2 DEF RootInv, RemediationsOK
    <3>3. QED
      BY <3>1, <3>2
  <2>2. \A j \in DOMAIN remediation : remediation'[j].users = remediation[j].users
    BY <1>3
  <2>3. QED
    BY <1>3, <1>5, <2>1, <2>2 DEF RootInv, RemediationsOK
<1>9. QED
  <2>1. \A u \in User : u \notin Handed => phase'[u] = phase[u]
    BY <1>2, <1>4
  <2>2. QED
    BY <1>1, <1>3, <1>4, <1>8, <2>1, RemediationSteps

\* The root closes: what it kept is gone, and what it has counted and handed over
\* stays, unless it did not get to report it.
LEMMA CloseKeeps ==
  ASSUME RootInv, Finish \/ Abort
  PROVE  RootInv'
<1>1. PICK verdict \in {"succeeded", "partial", "failed", "canceled"} :
        /\ Close(verdict)
        /\ \/ /\ verdict \in {"succeeded", "partial"} /\ pc = "finish"
              /\ UNCHANGED <<count, users_completed, users_failed, failed, synced, settled>>
           \/ /\ verdict \in {"failed", "canceled"}
              /\ count' = 0 /\ users_completed' = 0 /\ users_failed' = 0 /\ failed' = <<>>
              /\ synced' = {}
              /\ settled' = [u \in User |-> IF handed[u] > 0 THEN settled[u] ELSE {}]
  <2>1. CASE Finish
    <3>1. (IF users_failed > 0 THEN "partial" ELSE "succeeded") \in {"succeeded", "partial"}
      OBVIOUS
    <3>2. pc = "finish" /\ UNCHANGED <<count, users_completed, users_failed, failed, synced, settled>>
          /\ Close(IF users_failed > 0 THEN "partial" ELSE "succeeded")
      BY <2>1 DEF Finish, countVars
    <3>3. QED
      BY <3>1, <3>2
  <2>2. CASE Abort
    BY <2>2 DEF Abort
  <2>3. QED
    BY <2>1, <2>2
<1>2. /\ status' = verdict /\ pc' = "closed"
      /\ user_cursor' = None /\ user_page_attempt' = 0 /\ exhausted' = FALSE /\ spent' = {}
      /\ active' = <<>> /\ buffered' = <<>> /\ fresh' = TRUE /\ suggested' = FALSE
      /\ result' = [u \in User |-> "none"]
      /\ user' = [u \in User |-> IF handed[u] > 0 THEN user[u] ELSE FreshUser]
      /\ active_remediations' = {}
      /\ UNCHANGED <<mode, remediation, phase, handed, failed_remediated, moved>>
  BY <1>1 DEF Close
<1>3. /\ handed \in [User -> {0, 1}] /\ DOMAIN user = User /\ DOMAIN settled = User
      /\ failed \in Seq(User) /\ synced \in SUBSET User /\ mode \in {"ordinary", "round"}
      /\ count \in Nat /\ DOMAIN remediation \subseteq {"legacy", "batch"} \X Nat
      /\ synced \subseteq Listed
  BY DEF RootInv, StateTypeOK, RootTypeOK, PlacesOK
<1>4. /\ <<>> \in Seq(User) /\ NoRepeats(<<>>) /\ Range(<<>>) = {}
  BY EmptySeq DEF NoRepeats, Range
<1>5. Expected' = {} /\ Opened' = {} /\ Untouched' = {} /\ Failing' = {} /\ Handed' = Handed
  BY <1>2, <1>4 DEF Expected, ComingPages, Opened, Untouched, Failing, Handed
<1>6. /\ pc' \notin Batching /\ pc' \notin Counting
  BY <1>2 DEF Batching, Counting
<1>7. verdict \in {"succeeded", "partial"} =>
        /\ failed_remediated /\ Untouched = {} /\ Failing = {} /\ ~Aborted
  <2>1. ASSUME pc = "finish"
        PROVE  failed_remediated /\ Untouched = {} /\ Failing = {} /\ ~Aborted
    <3>1. active = <<>> /\ buffered = <<>>
      BY <2>1 DEF RootInv, ControlOK
    <3>2. Expected = {} /\ Opened = {} /\ Failing = {}
      BY <1>4, <2>1, <3>1 DEF Expected, ComingPages, Opened, Failing
    <3>3. failed_remediated /\ ~Aborted
      BY <2>1 DEF RootInv, ControlOK, StateTypeOK, Aborted
    <3>4. QED
      BY <1>4, <3>1, <3>2, <3>3 DEF Untouched
  <2>2. QED
    BY <1>1, <2>1
<1>8. /\ synced' \in SUBSET synced /\ failed' \in Seq(User) /\ Range(failed') \subseteq User
      /\ users_completed' \in 0..Cardinality(User) /\ users_failed' \in 0..Cardinality(User)
      /\ count' \in Nat
  <2>1. Range(failed) \subseteq User /\ users_completed \in 0..Cardinality(User)
        /\ users_failed \in 0..Cardinality(User)
    BY DEF RootInv, RootTypeOK
  <2>2. Cardinality(User) \in Nat
    BY FS_CardinalityType, RootAssumption DEF RootAssumption
  <2>3. CASE verdict \in {"succeeded", "partial"}
    BY <1>1, <1>3, <2>1, <2>3
  <2>4. CASE verdict \in {"failed", "canceled"}
    <3>1. /\ count' = 0 /\ users_completed' = 0 /\ users_failed' = 0 /\ failed' = <<>> /\ synced' = {}
      BY <1>1, <2>4
    <3>2. 0 \in 0..Cardinality(User)
      BY <2>2
    <3>3. QED
      BY <1>4, <3>1, <3>2
  <2>5. QED
    BY <1>1, <2>3, <2>4
<1>9. PlacesOK'
  <2>1. \A u \in User : ~(u \in synced' /\ handed'[u] = 1)
    BY <1>2, <1>8 DEF RootInv, PlacesOK
  <2>2. QED
    BY <1>2, <1>3, <1>4, <1>5, <1>6, <1>8, <2>1 DEF RootInv, PlacesOK
<1>10. NumbersOK'
  <2>1. CASE verdict \in {"succeeded", "partial"}
    <3>1. UNCHANGED <<users_completed, users_failed, failed, synced>> /\ ~Aborted' /\ ~Aborted
      BY <1>1, <1>2, <1>7, <2>1 DEF Aborted
    <3>2. UNCHANGED <<Untouched, Failing, Handed, failed_remediated, CutOff>>
      BY <1>2, <1>5, <1>7, <2>1 DEF CutOff
    <3>3. QED
      BY <3>1, <3>2 DEF RootInv, NumbersOK
  <2>2. CASE verdict \in {"failed", "canceled"}
    BY <1>1, <1>2, <2>2 DEF NumbersOK, Aborted
  <2>3. QED
    BY <1>1, <2>1, <2>2
<1>11. RemediationsOK'
  BY <1>2, <1>3, RemediationsFrame DEF RootInv
<1>12. ControlOK'
  <2>1. ~failed_remediated => Aborted'
    BY <1>1, <1>2, <1>7 DEF Aborted
  <2>2. QED
    BY <1>2, <1>6, <2>1 DEF ControlOK
<1>13. SettledOK'
  <2>1. \A u \in User : settled'[u] = settled[u] \/ (handed[u] = 0 /\ settled'[u] = {} /\ synced' = {})
    BY <1>1, <1>3
  <2>2. \A u \in User : user'[u] = user[u] \/ user'[u] = FreshUser
    BY <1>2, <1>3
  <2>3. \A u \in User : handed[u] = 0 => user'[u] = FreshUser
    BY <1>2, <1>3
  <2>4. ASSUME NEW u \in User
        PROVE  /\ CursorsFit(user'[u]) /\ settled'[u] \subseteq EveryPage
               /\ ~moved' => ResumesFit(user'[u], settled'[u])
               /\ phase'[u] = "activated" => EveryPage \subseteq settled'[u]
               /\ u \in synced' /\ ~moved' => EveryPage \subseteq settled'[u]
    <3>1. CursorsFit(user'[u]) /\ settled'[u] \subseteq EveryPage
      BY <2>1, <2>2, FreshFits DEF RootInv, SettledOK
    <3>2. ~moved' => ResumesFit(user'[u], settled'[u])
      <4>1. CASE handed[u] = 0
        BY <2>3, <4>1, FreshFits
      <4>2. CASE handed[u] # 0
        <5>1. settled'[u] = settled[u]
          BY <2>1, <4>2
        <5>2. QED
          BY <1>2, <2>2, <5>1, FreshFits DEF RootInv, SettledOK
      <4>3. QED
        BY <4>1, <4>2
    <3>3. phase'[u] = "activated" => EveryPage \subseteq settled'[u]
      <4>1. phase[u] = "activated" => handed[u] # 0
        BY DEF RootInv, PlacesOK
      <4>2. QED
        BY <1>2, <2>1, <4>1 DEF RootInv, SettledOK
    <3>4. u \in synced' /\ ~moved' => EveryPage \subseteq settled'[u]
      BY <1>2, <1>8, <2>1 DEF RootInv, SettledOK
    <3>5. QED
      BY <3>1, <3>2, <3>3, <3>4
  <2>5. QED
    BY <1>6, <2>4 DEF SettledOK, CursorsFit, ResumesFit, Outstanding
<1>14. StateTypeOK'
  <2>1. IsFiniteSet(spent') /\ Cardinality(spent') = 0 /\ MaxExhausted \in Nat
    BY <1>2, FS_EmptySet, RootAssumption DEF RootAssumption
  <2>2. DOMAIN user' = User /\ DOMAIN settled' = User
    BY <1>1, <1>2, <1>3
  <2>3. status' # "running" /\ pc' = "closed"
    BY <1>1, <1>2
  <2>4. /\ exhausted' \in BOOLEAN /\ fresh' \in BOOLEAN /\ suggested' \in BOOLEAN
        /\ moved' \in BOOLEAN /\ failed_remediated' \in BOOLEAN
        /\ handed' \in [User -> {0, 1}] /\ synced' \in SUBSET User
    BY <1>2, <1>3, <1>8 DEF RootInv, StateTypeOK
  <2>5. /\ result' \in [User -> {"none", "running", "finished", "unfinished", "failed"}]
        /\ phase' \in [User -> {"none", "recent", "backfill", "activated", "failed"}]
    BY <1>2 DEF RootInv, StateTypeOK
  <2>6. /\ active' \in Seq(User) /\ buffered' \in Seq(User) /\ failed' \in Seq(User)
        /\ user_page_attempt' <= Cardinality(spent') /\ Cardinality(spent') <= MaxExhausted
        /\ user_page_attempt' \in Nat
    BY <1>2, <1>4, <1>8, <2>1
  <2>7. QED
    BY <2>1, <2>2, <2>3, <2>4, <2>5, <2>6 DEF StateTypeOK
<1>15. RootTypeOK'
  <2>1. \A u \in User : settled'[u] \subseteq EveryPage
    BY <1>13 DEF SettledOK
  <2>2. synced' \subseteq User /\ MaxExhausted \in Nat
    BY <1>3, <1>8, RootAssumption DEF RootAssumption
  <2>3. QED
    BY <1>1, <1>2, <1>3, <1>4, <1>8, <2>1, <2>2 DEF RootInv, RootTypeOK
<1>16. QED
  BY <1>9, <1>10, <1>11, <1>12, <1>13, <1>14, <1>15 DEF RootInv

-----------------------------------------------------------------------------
(* The theorems *)

\* Before anything has happened everybody listed is expected.
LEMMA RootInit ==
  ASSUME Init
  PROVE  RootInv
<1>1. /\ mode \in {"ordinary", "round"} /\ pc = "start" /\ user_cursor = None
      /\ user_page_attempt = 0 /\ exhausted = FALSE /\ active = <<>> /\ buffered = <<>> /\ count = 0
      /\ fresh = TRUE /\ users_completed = 0 /\ users_failed = 0
      /\ failed \in {<<>>, Carried} /\ failed_remediated = (failed = <<>>)
      /\ active_remediations = {} /\ suggested = FALSE /\ status = "running"
      /\ user = [u \in User |-> FreshUser] /\ result = [u \in User |-> "none"]
      /\ remediation = <<>> /\ phase = [u \in User |-> "none"] /\ moved = FALSE
      /\ settled = [u \in User |-> {}] /\ handed = [u \in User |-> 0] /\ synced = {} /\ spent = {}
  BY DEF Init
<1>2. /\ <<>> \in Seq(User) /\ NoRepeats(<<>>) /\ Range(<<>>) = {} /\ DOMAIN remediation = {}
      /\ Carried \in Seq(User) /\ Range(Carried) \subseteq User /\ Cardinality({}) = 0
      /\ IsFiniteSet({})
  <2>1. Carried \in Seq(User)
    BY ListingPages
  <2>2. Range(Carried) \subseteq User
    BY <2>1, LenProperties, ElementOfSeq DEF Range
  <2>3. QED
    BY <1>1, <2>1, <2>2, EmptySeq, FS_EmptySet DEF NoRepeats, Range
<1>3. /\ pc \notin Batching /\ pc \notin Counting /\ ~Aborted
  BY <1>1 DEF Batching, Counting, Aborted
<1>4. Expected = Listed
  <2>1. ListPage = 1
    BY <1>1 DEF ListPage
  <2>2. Expected = From(1)
    BY <1>1, <1>3, <2>1 DEF Expected, ComingPages, From
  <2>3. QED
    BY <2>2, FromPage
<1>5. Opened = {} /\ Failing = {} /\ Untouched = Listed /\ Handed = {}
  BY <1>1, <1>2, <1>4 DEF Opened, Failing, Untouched, Handed
<1>6. failed \in Seq(User) /\ Range(failed) \subseteq User /\ failed_remediated \in BOOLEAN
      /\ (~failed_remediated => failed = Carried /\ failed # <<>>)
      /\ (failed_remediated => failed = <<>>)
  BY <1>1, <1>2
<1>7. PlacesOK
  BY <1>1, <1>2, <1>3, <1>4, <1>5, ListingPages DEF PlacesOK
<1>8. NumbersOK
  <2>1. Range(failed) \subseteq IF failed_remediated THEN {} ELSE Range(Carried)
    BY <1>2, <1>6
  <2>2. users_failed = Cardinality((Handed \cap Listed) \cup Failing)
    <3>1. (Handed \cap Listed) \cup Failing = {}
      BY <1>5
    <3>2. QED
      BY <1>1, <1>2, <3>1
  <2>3. users_completed = Cardinality(synced)
    BY <1>1, <1>2
  <2>4. QED
    BY <1>3, <1>5, <2>1, <2>2, <2>3 DEF NumbersOK
<1>9. RemediationsOK
  BY <1>2 DEF RemediationsOK
<1>10. ControlOK
  BY <1>1, <1>3, <1>6 DEF ControlOK
<1>11. SettledOK
  BY <1>1, <1>3, FreshFits DEF SettledOK
<1>12. StateTypeOK
  <2>1. MaxExhausted \in Nat
    BY RootAssumption DEF RootAssumption
  <2>2. /\ exhausted \in BOOLEAN /\ fresh \in BOOLEAN /\ suggested \in BOOLEAN
        /\ moved \in BOOLEAN /\ failed_remediated \in BOOLEAN
        /\ active \in Seq(User) /\ buffered \in Seq(User) /\ failed \in Seq(User)
    BY <1>1, <1>2, <1>6
  <2>3. /\ handed \in [User -> {0, 1}] /\ synced \in SUBSET User
        /\ DOMAIN user = User /\ DOMAIN settled = User
        /\ result \in [User -> {"none", "running", "finished", "unfinished", "failed"}]
        /\ phase \in [User -> {"none", "recent", "backfill", "activated", "failed"}]
    BY <1>1
  <2>4. /\ IsFiniteSet(spent) /\ user_page_attempt <= Cardinality(spent)
        /\ Cardinality(spent) <= MaxExhausted /\ user_page_attempt \in Nat
    BY <1>1, <1>2, <2>1
  <2>5. status = "running" /\ pc \notin {"closed", "denied"}
    BY <1>1
  <2>6. QED
    BY <2>2, <2>3, <2>4, <2>5 DEF StateTypeOK
<1>13. RootTypeOK
  <2>1. MaxExhausted \in Nat /\ Cardinality(User) \in Nat
    BY FS_CardinalityType, RootAssumption DEF RootAssumption
  <2>2. QED
    BY <1>1, <1>2, <1>6, <2>1 DEF RootTypeOK
<1>14. QED
  BY <1>7, <1>8, <1>9, <1>10, <1>11, <1>12, <1>13 DEF RootInv

\* Every step keeps the invariant.
LEMMA RootStep ==
  ASSUME RootInv, [Next \/ Closed]_vars
  PROVE  RootInv'
<1>1. CASE Next
  <2>1. CASE Step
    BY <2>1, QuietKeeps, RefillKeeps, JoinKeeps, NextBatchKeeps, StartRemediationKeeps, CloseKeeps
       DEF Step
  <2>2. CASE \E u \in User : UserEnds(u) \/ ActivationStep(u)
    BY <2>2, UserEndsKeeps, WaveKeeps
  <2>3. CASE \E id \in DOMAIN remediation : RemediationJoins(id) \/ CancelRemediation(id)
    BY <2>3, RemediationJoinsKeeps, CancelRemediationKeeps
  <2>4. CASE Abort \/ Suggest \/ Move
    BY <2>4, CloseKeeps, QuietKeeps, MoveKeeps
  <2>5. CASE ListUsers \/ ListExhausted \/ ListDenied
    BY <2>5, ListUsersKeeps, QuietKeeps, ListDeniedKeeps
  <2>6. QED
    BY <1>1, <2>1, <2>2, <2>3, <2>4, <2>5 DEF Next, Progress
<1>2. CASE UNCHANGED vars
  <2>1. UNCHANGED <<mode, pc, listVars, batchVars, countVars, remediation, phase, handed,
                    active_remediations, failed_remediated, userVars, suggested, status, moved>>
    BY <1>2 DEF vars, remediationVars
  <2>2. RemediationsOK'
    <3>1. DOMAIN remediation \subseteq {"legacy", "batch"} \X Nat /\ count \in Nat
      BY DEF RootInv, RootTypeOK
    <3>2. pc' = pc /\ count' = count
      BY <2>1 DEF batchVars
    <3>3. QED
      BY <2>1, <3>1, <3>2, RemediationsFrame DEF RootInv
  <2>3. phase' \in [User -> {"none", "recent", "backfill", "activated", "failed"}]
    BY <2>1 DEF RootInv, StateTypeOK
  <2>4. QED
    BY <2>1, <2>2, <2>3, RemediationSteps
<1>3. QED
  BY <1>1, <1>2 DEF Closed

\* The inductive invariant holds in every reachable state.
THEOREM RootInvariant == Spec => []RootInv
<1>1. Init => RootInv
  BY RootInit
<1>2. RootInv /\ [Next \/ Closed]_vars => RootInv'
  BY RootStep
<1>3. QED
  BY <1>1, <1>2, PTL DEF Spec

\* The root's variables keep their types: its counts never exceed the number of
\* users, and it waits only for remediations it has started.
THEOREM RootTypeCorrect == Spec => []RootTypeOK
<1>1. RootInv => RootTypeOK
  BY DEF RootInv
<1>2. QED
  BY <1>1, RootInvariant, PTL

\* Through batches, rounds, both kinds of Continue-As-New and the users of an older
\* input: no user is handed over twice or counted and handed over, and a root that
\* completes has accounted for every valid user of the listing, and for every user
\* of an older input that round mode did not cut off.
THEOREM UsersAccounted == Spec => []EveryUserAccounted
<1>1. ASSUME RootInv
      PROVE  EveryUserAccounted
  <2>1. \A u \in User : handed[u] <= 1 /\ ~(u \in synced /\ handed[u] = 1)
    BY <1>1 DEF RootInv, StateTypeOK, PlacesOK
  <2>2. ASSUME status \in {"succeeded", "partial"}
        PROVE  /\ \A u \in (Listed \cup Range(failed)) \ CutOff : u \in synced \/ handed[u] = 1
               /\ users_completed = Cardinality(synced)
               /\ users_completed + users_failed = Cardinality(Listed)
    <3>1. pc = "closed" /\ ~Aborted /\ Failing = {}
      BY <1>1, <2>2 DEF RootInv, StateTypeOK, Aborted, Failing
    <3>2. failed_remediated /\ active = <<>> /\ buffered = <<>>
      BY <1>1, <3>1 DEF RootInv, ControlOK
    <3>3. Untouched = {}
      BY <3>1, <3>2 DEF Untouched, Expected, ComingPages, Opened, Range
    <3>4. /\ Listed \subseteq synced \cup Handed /\ Range(failed) \subseteq Handed \cup CutOff
          /\ users_completed = Cardinality(synced)
          /\ users_failed = Cardinality((Handed \cap Listed) \cup {})
      BY <1>1, <3>1, <3>2, <3>3 DEF RootInv, NumbersOK
    <3>5. synced \subseteq Listed /\ synced \cap Handed = {} /\ Listed \in SUBSET User
      BY <1>1, <2>1, ListingPages DEF RootInv, PlacesOK, Handed
    <3>6. synced \cup (Handed \cap Listed) = Listed /\ (Handed \cap Listed) \cup {} = Handed \cap Listed
      BY <3>4, <3>5
    <3>7. users_completed + users_failed = Cardinality(Listed)
      <4>1. Cardinality(synced \cup (Handed \cap Listed)) = Cardinality(synced) + Cardinality(Handed \cap Listed)
        BY <3>5, UsersApart
      <4>2. QED
        BY <3>4, <3>6, <4>1
    <3>8. QED
      BY <3>4, <3>7 DEF Handed
  <2>3. QED
    BY <2>1, <2>2 DEF EveryUserAccounted
<1>2. QED
  BY <1>1, RootInvariant, PTL

\* A user that counts as synced, or is activated, has had every page of every
\* resource settled, over however many rounds, resumed cursors and waves.
THEOREM NothingIsSkipped == Spec => []NothingSkipped
<1>1. RootInv => NothingSkipped
  BY DEF RootInv, SettledOK, NothingSkipped
<1>2. QED
  BY <1>1, RootInvariant, PTL

\* A remediation that reports COMPLETED has activated all its users, also those of
\* the batches and runs before its last one.
THEOREM RemediationsActivate == Spec => []CompletedRemediationActivatedAll
<1>1. ASSUME RootInv
      PROVE  CompletedRemediationActivatedAll
  <2>1. Range(<<>>) = {}
    BY DEF Range
  <2>2. QED
    BY <1>1, <2>1 DEF RootInv, RemediationsOK, CompletedRemediationActivatedAll
<1>2. QED
  BY <1>1, RootInvariant, PTL
=============================================================================
