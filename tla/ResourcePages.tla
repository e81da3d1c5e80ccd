--------------------------- MODULE ResourcePages ---------------------------
(***************************************************************************)
(* ResourcePagesWorkflow: a sliding window of FilesPageWorkflow children    *)
(* over one resource, with permits for the page fetches, an optional budget *)
(* of pages, Continue-As-New at a drained barrier, and a checkpoint.  The   *)
(* Workflow is one coroutine: pc is where it is, "window" between awaits,   *)
(* otherwise the await it is in.  Its children end while it awaits.         *)
(***************************************************************************)
EXTENDS ResourceCursor

CONSTANTS WindowSize,   \* files_page_window_size
          Limit,        \* the values of max_pages: None or a positive number
          MaxAttempt    \* bound: exhausted answers for one page

ASSUME WindowAssumption ==
  WindowSize \in Nat /\ MaxAttempt \in Nat /\ Limit \subseteq {None} \cup (Nat \ {0})

VARIABLES
  first, limit, metered,   \* next_page_cursor, max_pages, whether quota_scope is set
  command,                 \* what a Continue-As-New replaces in the input
  cursor, may_fetch, pending, failures, pages_started, page_fetch_attempt,
  stop_for_continue_as_new, pages_completed,
  pc,
  suggested,               \* is_continue_as_new_suggested()
  answer                   \* what the caller receives, or None
VARIABLES settled, started, spent   \* history: pages completed, pages started, permit requests ended

inputVars == <<first, limit, metered>>
windowVars == <<cursor, may_fetch, pending, failures, pages_started, page_fetch_attempt,
                stop_for_continue_as_new, pages_completed>>
historyVars == <<settled, started, spent>>
vars == <<inputVars, command, windowVars, pc, suggested, answer, historyVars>>

Init ==
  /\ first \in Cursor
  /\ limit \in Limit
  /\ metered \in BOOLEAN
  /\ command = [next_page_cursor |-> first, page_fetch_attempt |-> 0,
                completed_page_count |-> 0, prior_error_count |-> 0]
  /\ cursor = first
  /\ may_fetch = TRUE
  /\ pending = <<>>
  /\ failures = {}
  /\ pages_started = 0 /\ pages_completed = 0
  /\ page_fetch_attempt = 0
  /\ stop_for_continue_as_new = FALSE
  /\ pc = "window"
  /\ suggested = FALSE
  /\ answer = None
  /\ settled = {} /\ started = {} /\ spent = {}

-----------------------------------------------------------------------------
\* FilesPageWorkflow: its documents are joined, and the page fails unless each
\* was applied or fenced off by a newer generation.
DocumentOutcome == {"succeeded", "stale_generation", "rejected", "raised"}
PageStatus(outcomes) ==
  IF outcomes \subseteq {"succeeded", "stale_generation"} THEN "succeeded" ELSE "failed"

\* A page child ends.
PageEnds(s) ==
  /\ s \in DOMAIN pending
  /\ pending[s].status = "running"
  /\ \E outcomes \in SUBSET DocumentOutcome :
       LET status == PageStatus(outcomes) IN
       /\ pending' = [pending EXCEPT ![s].status = status]
       /\ settled' = IF status = "succeeded" THEN settled \cup {PageAt(pending[s].cursor)} ELSE settled
  /\ UNCHANGED <<inputVars, command, cursor, may_fetch, failures, pages_started,
                 page_fetch_attempt, stop_for_continue_as_new, pages_completed, pc, suggested,
                 answer, started, spent>>

\* The server suggests Continue-As-New.
Suggest ==
  /\ pc # "closed"
  /\ ~suggested
  /\ suggested' = TRUE
  /\ UNCHANGED <<inputVars, command, windowVars, pc, answer, historyVars>>

-----------------------------------------------------------------------------
\* The inner loop of run().
Open == {s \in DOMAIN pending : pending[s].status = "running"}
HasRoom == may_fetch /\ Cardinality(DOMAIN pending) < IF WindowSize > 1 THEN WindowSize ELSE 1

\* Mutant: a run counts only its own pages against the budget.
ReachedLimitOfRun == limit # None /\ pages_started >= limit
ReachedLimit == limit # None /\ command.completed_page_count + pages_started >= limit

StopAtLimit ==
  /\ pc = "window" /\ HasRoom /\ ReachedLimit
  /\ may_fetch' = FALSE
  /\ UNCHANGED <<inputVars, command, cursor, pending, failures, pages_started,
                 page_fetch_attempt, stop_for_continue_as_new, pages_completed, pc, suggested,
                 answer, historyVars>>

\* _fetch_manifest: a permit first, if the calls are metered.
RequestPage ==
  /\ pc = "window" /\ HasRoom /\ ~ReachedLimit
  /\ pc' = IF metered THEN "permit" ELSE "fetch"
  /\ UNCHANGED <<inputVars, command, windowVars, suggested, answer, historyVars>>

\* The coordinator does not answer an id that has ended before.
RequestId == <<cursor, page_fetch_attempt>>
Spend == spent' = IF metered THEN spent \cup {RequestId} ELSE spent

Granted ==
  /\ pc = "permit"
  /\ RequestId \notin spent
  /\ pc' = "fetch"
  /\ UNCHANGED <<inputVars, command, windowVars, suggested, answer, historyVars>>

\* A denial is raised as a RuntimeError, which is no failure of the Workflow: its
\* task fails and is retried, the Workflow stays open and gives no answer, and
\* its children run on.
Denied ==
  /\ pc = "permit"
  /\ RequestId \notin spent
  /\ pc' = "denied"
  /\ Spend
  /\ UNCHANGED <<inputVars, command, windowVars, suggested, answer, settled, started>>

\* An exception leaves run(): the children that are still open are terminated
\* with their parent.
Leave ==
  /\ pc' = "closed"
  /\ answer' = Raised
  /\ pending' = <<>>
  /\ UNCHANGED <<inputVars, command, cursor, may_fetch, failures, pages_started,
                 page_fetch_attempt, stop_for_continue_as_new, pages_completed, suggested,
                 settled, started>>

\* The request could not be sent: its Activity has failed for good.
RequestFails ==
  /\ pc = "permit"
  /\ Leave
  /\ Spend

\* The Activity has failed for good, or the child could not be started; the
\* permit is completed in a finally block.
FetchFails ==
  /\ pc = "fetch"
  /\ Leave
  /\ Spend

\* _start_page_child.
PageChild == [cursor |-> cursor, status |-> "running"]

\* The page is there: its permit is completed, its child started, and the
\* window moves on.
Fetched ==
  /\ pc = "fetch"
  /\ Spend
  /\ page_fetch_attempt' = 0
  /\ pending' = [s \in DOMAIN pending \cup {pages_started} |->
                   IF s = pages_started THEN PageChild ELSE pending[s]]
  /\ started' = started \cup {PageAt(cursor)}
  /\ pages_started' = pages_started + 1
  /\ cursor' = NextCursor(PageAt(cursor))
  /\ may_fetch' = (cursor' # None /\ ~suggested)
  /\ stop_for_continue_as_new' = IF suggested THEN cursor' # None ELSE stop_for_continue_as_new
  /\ pc' = "window"
  /\ UNCHANGED <<inputVars, command, failures, pages_completed, suggested, answer, settled>>

\* The Activity answers that the quota is exhausted; it raises instead when the
\* calls are not metered.
AnsweredExhausted == pc = "fetch" /\ metered /\ page_fetch_attempt < MaxAttempt

\* Then the same cursor is asked for again under a new attempt, in the next run
\* when Continue-As-New is suggested.
\* Mutant: the attempt is not counted on when the run rolls over.
ForgetfulExhausted ==
  /\ AnsweredExhausted
  /\ Spend
  /\ page_fetch_attempt' = IF suggested THEN page_fetch_attempt ELSE page_fetch_attempt + 1
  /\ may_fetch' = ~suggested
  /\ stop_for_continue_as_new' = (suggested \/ stop_for_continue_as_new)
  /\ pc' = IF suggested THEN "window" ELSE "permit"
  /\ UNCHANGED <<inputVars, command, cursor, pending, failures, pages_started, pages_completed,
                 suggested, answer, settled, started>>
Exhausted ==
  /\ AnsweredExhausted
  /\ Spend
  /\ page_fetch_attempt' = page_fetch_attempt + 1
  /\ may_fetch' = ~suggested
  /\ stop_for_continue_as_new' = (suggested \/ stop_for_continue_as_new)
  /\ pc' = IF suggested THEN "window" ELSE "permit"
  /\ UNCHANGED <<inputVars, command, cursor, pending, failures, pages_started, pages_completed,
                 suggested, answer, settled, started>>

-----------------------------------------------------------------------------
\* The outer loop: wait for the first child, then take all that have ended.
Wait ==
  /\ pc = "window" /\ ~HasRoom /\ DOMAIN pending # {}
  /\ pc' = "wait"
  /\ UNCHANGED <<inputVars, command, windowVars, suggested, answer, historyVars>>

Done == DOMAIN pending \ Open

Join ==
  /\ pc = "wait" /\ Done # {}
  /\ LET failed == {s \in Done : pending[s].status = "failed"} IN
     /\ failures' = failures \cup {<<s, pending[s].cursor>> : s \in failed}
     /\ pages_completed' = pages_completed + Cardinality(Done \ failed)
     /\ may_fetch' = (may_fetch /\ failed = {})
     /\ stop_for_continue_as_new' = (stop_for_continue_as_new /\ failed = {})
  /\ pending' = [s \in Open |-> pending[s]]
  /\ pc' = "window"
  /\ UNCHANGED <<inputVars, command, cursor, pages_started, page_fetch_attempt, suggested,
                 answer, historyVars>>

Drained == pc = "window" /\ ~may_fetch /\ DOMAIN pending = {}

\* Mutant: the next run starts where this one did.
RunCursor == command.next_page_cursor
NextRunCursor == cursor

ContinueAsNew ==
  /\ Drained /\ stop_for_continue_as_new /\ failures = {}
  /\ command' = [next_page_cursor |-> NextRunCursor, page_fetch_attempt |-> page_fetch_attempt,
                 completed_page_count |-> command.completed_page_count + pages_completed,
                 prior_error_count |-> command.prior_error_count + Cardinality(failures)]
  /\ cursor' = NextRunCursor
  /\ may_fetch' = TRUE
  /\ pages_started' = 0 /\ pages_completed' = 0
  /\ stop_for_continue_as_new' = FALSE
  /\ suggested' = FALSE
  /\ UNCHANGED <<inputVars, pending, failures, page_fetch_attempt, pc, answer, historyVars>>

\* Mutant: the last failed page.
LatestFailure == (CHOOSE f \in failures : \A g \in failures : f[1] >= g[1])[2]
\* Mutant: the number of the page, not its cursor.
FailureNumber == (CHOOSE f \in failures : \A g \in failures : f[1] <= g[1])[1]
EarliestFailure == (CHOOSE f \in failures : \A g \in failures : f[1] <= g[1])[2]

Return ==
  /\ Drained /\ ~(stop_for_continue_as_new /\ failures = {})
  /\ answer' = [status |-> IF command.prior_error_count + Cardinality(failures) > 0
                           THEN "partial" ELSE "succeeded",
                cursor |-> IF failures # {} THEN EarliestFailure ELSE cursor,
                finished |-> failures = {} /\ cursor = None,
                pages |-> command.completed_page_count + pages_completed]
  /\ pc' = "closed"
  /\ UNCHANGED <<inputVars, command, windowVars, suggested, historyVars>>

\* The Workflow is cancelled in an await: the permit is given back, the open
\* children are cancelled and awaited, and the exception is raised again.  A
\* Workflow whose task fails may or may not get that far.
Cancel ==
  /\ pc \in {"permit", "fetch", "wait", "denied"}
  /\ pc' = "canceling"
  /\ IF pc = "wait" THEN UNCHANGED spent ELSE Spend
  /\ UNCHANGED <<inputVars, command, windowVars, suggested, answer, settled, started>>

CancelEnds ==
  /\ pc = "canceling" /\ Open = {}
  /\ Leave
  /\ UNCHANGED spent

-----------------------------------------------------------------------------
Step ==
  \/ StopAtLimit \/ RequestPage \/ Fetched \/ FetchFails \/ Exhausted
  \/ Wait \/ Join \/ ContinueAsNew \/ Return \/ CancelEnds
Progress == Step \/ \E s \in DOMAIN pending : PageEnds(s)

Next == Progress \/ Granted \/ Denied \/ RequestFails \/ Cancel \/ Suggest

\* Deadlock is checked: only a closed Workflow may stop.
Closed == pc = "closed" /\ UNCHANGED vars

Spec == Init /\ [][Next \/ Closed]_vars

\* Temporal drives the coroutine, and Activities and children end (they have
\* timeouts and bounded retries).  What becomes of a permit request is not
\* assumed: the coordinator may leave it unanswered (the run quota_parked).
FairSpec == Spec /\ WF_vars(Progress)

-----------------------------------------------------------------------------
PagesTypeOK ==
  /\ first \in Cursor /\ limit \in Limit /\ metered \in BOOLEAN
  /\ command \in [next_page_cursor : Cursor, page_fetch_attempt : 0..MaxAttempt,
                  completed_page_count : 0..Pages, prior_error_count : {0}]
  /\ cursor \in Cursor
  /\ may_fetch \in BOOLEAN /\ stop_for_continue_as_new \in BOOLEAN
  /\ DOMAIN pending \subseteq 0..(Pages - 1)
  /\ \A s \in DOMAIN pending :
       pending[s] \in [cursor : Cursor, status : {"running", "succeeded", "failed"}]
  /\ failures \subseteq (0..(Pages - 1)) \X Cursor
  /\ pages_started \in 0..Pages /\ pages_completed \in 0..Pages
  /\ page_fetch_attempt \in 0..MaxAttempt
  /\ pc \in {"window", "permit", "denied", "fetch", "wait", "canceling", "closed"}
  /\ suggested \in BOOLEAN
  /\ answer \in {None} \cup AnyAnswer

\* The window, its budget and its Continue-As-New implement the promise of a
\* pass: pages that complete out of order, fail or are split over runs never
\* make an answer that skips an unfinished page, and a successful answer stands
\* for exactly the budget, as resource_pages.py:180 and :262 intend.
Pass == INSTANCE ResourcePass
PassIsKept == Pass!PassSpec

\* A page is handed to a child once in a pass, whatever runs the pass is split
\* into: the window moves the cursor before anything can fail (line 205).
PageStartsOnce == [][pages_started' = pages_started + 1 => PageAt(cursor) \notin started]_vars

\* The coordinator owes the pass an answer: the id it waits under is a fresh one.
AwaitsAnswer == pc = "permit" /\ RequestId \notin spent

\* Every pass ends for good, however the fetches, the pages, the suggestions and
\* a cancellation fall, unless it was denied a permit or the coordinator never
\* answers: each retry asks under a fresh id, and a drained window is never
\* waited for.
PassEnds == <>[](pc = "closed" \/ pc = "denied" \/ AwaitsAnswer)
=============================================================================
