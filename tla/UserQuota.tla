----------------------------- MODULE UserQuota -----------------------------
(***************************************************************************)
(* UserQuotaWorkflow: the long-lived coordinator of one provider quota      *)
(* scope (temporal/workflows/user_quota.py).  Callers ask for permits by    *)
(* Signal; the coordinator queues them in arrival order, reserves as many   *)
(* as the known balance and the in-flight limit allow, and answers each     *)
(* caller with a grant or a denial.                                         *)
(*                                                                          *)
(* The workflow is one coroutine.  Signal handlers run only where it awaits *)
(* (Awaiting), so every segment between two awaits is uninterrupted; the    *)
(* loops inside a segment take one step per iteration, during which nothing *)
(* but the loop can move.                                                   *)
(***************************************************************************)
EXTENDS Lists

CONSTANTS
  Request,          \* request ids; numbers, because the code sorts them
  Cost,             \* Cost[r]: the balance a permit for r takes
  Generation,       \* Generation[r]: the store and lifecycle generation of r
  Invalid,          \* requests refused on sight: empty id, cost or scope wrong
  Anonymous,        \* the invalid ones that name no requester workflow
  Observation,      \* the quota observations callers may report
  InitialLimit,     \* configured limit at start; None when unknown
  MaxInFlight,      \* USER_QUOTA_MAX_IN_FLIGHT
  MaxPending,       \* the effective pending cap (at most 350)
  DedupWindow,      \* USER_QUOTA_DEDUP_WINDOW_SIZE
  ProbeDelay,       \* DEFAULT_UNKNOWN_RESET_PROBE_DELAY
  None,             \* Python's None
  \* bounds of the model
  MaxTime, MaxWindows, MaxDeferred, MaxDenials

Optional(S) == S \cup {None}

ASSUME RequestAssumption ==
  /\ Request \subseteq Nat
  /\ IsFiniteSet(Request)
  /\ Cost \in [Request -> Nat \ {0}]
  /\ Invalid \subseteq Request
  /\ Anonymous \subseteq Invalid

ASSUME LimitAssumption ==
  /\ None \notin Int
  /\ InitialLimit \in Optional(Nat)
  /\ MaxInFlight \in Nat \ {0}
  /\ MaxPending \in Nat /\ MaxInFlight <= MaxPending
  /\ DedupWindow \in Nat /\ MaxInFlight <= DedupWindow
  /\ ProbeDelay \in Nat

ASSUME ObservationAssumption ==
  Observation \subseteq
    [in_scope: BOOLEAN, limit: Optional(Int), remaining: Optional(Int),
     reset_at: Optional(Nat), retry_after: Optional(Int), exhausted: BOOLEAN]

ASSUME BoundAssumption ==
  /\ MaxTime \in Nat /\ MaxWindows \in Nat
  /\ MaxDeferred \in Nat /\ MaxDenials \in Nat

Generations == Range(Generation)

Message ==
       [type: {"request", "cancel"}, request: Request]
  \cup [type: {"complete"}, request: Request, window: Nat]
  \cup [type: {"cancel_generation"}, generation: Generations]
  \cup [type: {"observe"}, observation: Observation, at: Nat]
  \cup [type: {"disable"}]

Permit == [request: Request, window: Nat]

VARIABLES
  \* UserQuotaState, carried across Continue-As-New
  configured_limit, remaining, reset_at, blocked_until,
  in_flight, disabled,
  pending,          \* pending and pending_order: the ids in arrival order
  reservations,     \* the window each id was granted in, None when it has none
  recent_terminal,  \* recent_terminal_request_ids, oldest first
  window,           \* quota_window_id; a fresh id is the next number
  \* one run of the workflow
  pc, dirty,
  rollover,         \* a reason to continue as new: window, message count, server
  deferred,         \* Signals that came before the state was initialised
  pending_denials,  \* denials not yet taken by the delivery loop
  grants, denials,  \* what this round still has to deliver
  sending,          \* the grant or denial whose Signal is being awaited
  \* the world
  now,              \* workflow.now()
  caller,           \* what the workflow that owns the id is doing
  \* history
  ahead,            \* ahead[r]: the requests that queued before r did and wait still
  issued,           \* permits ever reserved
  refilled_at,      \* the boundary the last new window was opened for
  evicted,          \* ids that fell out of the dedup window
  fenced            \* generations cancelled by a deactivation

stateVars == <<configured_limit, remaining, reset_at, blocked_until, in_flight,
               disabled, pending, reservations, recent_terminal, window>>
runVars   == <<pc, dirty, rollover, deferred, pending_denials, grants, denials,
               sending>>
histVars  == <<ahead, issued, refilled_at, evicted, fenced>>
vars      == <<stateVars, runVars, now, caller, histVars>>

-----------------------------------------------------------------------------
(* Reading the state *)

Reserved  == {r \in Request : reservations[r] # None}
Pending   == Range(pending)
Terminal  == Range(recent_terminal)
\* Mutant: finished ids are not looked up.
KnownIfLive == Pending \cup Reserved
Known     == Pending \cup Reserved \cup Terminal

\* Signal handlers run only while the coroutine awaits.
Awaiting == pc \in {"start", "sending", "wait"}

NonNegative(n) == IF n < 0 THEN 0 ELSE n

\* The later of two optional instants.
Later(s, t) ==
  IF s = None THEN t ELSE IF t = None THEN s ELSE IF s >= t THEN s ELSE t

Due(t) == t # None /\ t <= now

\* No grant may be made now.
Blocked == disabled \/ (blocked_until # None /\ ~Due(blocked_until))

\* Mutant: any positive balance is taken to be enough.
AffordableIfAny(r) == remaining # None => remaining > 0

\* The known balance covers the cost of r.
Affordable(r) == remaining # None => remaining >= Cost[r]



\* Whose turn it is: strictly the head, even when a cheaper request would fit.
Turn == Head(pending)

\* Mutant: one slot too many.
CanGrantOneMore ==
  /\ ~Blocked
  /\ pending # <<>>
  /\ in_flight <= MaxInFlight
  /\ Affordable(Turn)

\* The guard of the granting loop.
CanGrant ==
  /\ ~Blocked
  /\ pending # <<>>
  /\ in_flight < MaxInFlight
  /\ Affordable(Turn)

\* Mutant: only the reset timer is set, not the one for a blocked scope.
TimerDueForResetOnly == Due(reset_at)

\* The next boundary the run loop sets a timer for has passed.
TimerDue == Due(blocked_until) \/ Due(reset_at)

-----------------------------------------------------------------------------
(* Forgetting: the bounded window of finished ids *)

\* Mutant: finished ids are not remembered.
MarkNothing(ids) == UNCHANGED <<recent_terminal, evicted>>

\* Record finished ids, newest last, evicting the oldest.  The code skips an
\* id already in the window; every caller has checked that or, for a batch,
\* takes ids still pending or reserved, which never are.
MarkTerminal(ids) ==
  LET all == recent_terminal \o ids
  IN  /\ recent_terminal' = Newest(all, DedupWindow)
      /\ evicted' = evicted \cup (Range(all) \ Range(Newest(all, DedupWindow)))

\* Mutant: a slot is given back for an id that held none.
ReleaseReservationsAlways(ids) ==
  /\ reservations' = [r \in Request |-> IF r \in ids THEN None ELSE reservations[r]]
  /\ in_flight' = NonNegative(in_flight - Cardinality(ids))

\* Drop the reservations of ids and free their slots; the balance they took is
\* not given back.
ReleaseReservations(ids) ==
  /\ reservations' = [r \in Request |-> IF r \in ids THEN None ELSE reservations[r]]
  /\ in_flight' = NonNegative(in_flight - Cardinality(ids \cap Reserved))

-----------------------------------------------------------------------------
(* What each Signal does once the state exists *)

\* Mutant: a new request goes to the front.
EnqueueFirst(r) == <<r>> \o pending

\* A new request goes to the end of the queue.
Enqueue(r) == Append(pending, r)

\* History: ids leave the queue, and nobody waits behind them any more.
LeaveLine(ids) ==
  ahead' = [r \in Request |-> IF r \in ids THEN {} ELSE ahead[r] \ ids]

\* A new request is denied when it is malformed, the scope is disabled, or
\* the queue is full; it is queued otherwise.  A known id is ignored.
ApplyRequest(r) ==
  LET denied == r \in Invalid \/ disabled \/ Len(pending) >= MaxPending
  IN  /\ IF r \in Known \/ denied
         THEN UNCHANGED <<pending, ahead>>
         ELSE pending' = Enqueue(r) /\ ahead' = [ahead EXCEPT ![r] = Pending]
      /\ pending_denials' =
           IF r \notin Known /\ denied /\ r \notin Anonymous
           THEN Append(pending_denials, r) ELSE pending_denials
      /\ UNCHANGED <<configured_limit, remaining, reset_at, blocked_until,
                     in_flight, disabled, reservations, recent_terminal, window,
                     evicted, fenced>>

\* Cancel a pending or granted request, or leave a tombstone that a request
\* still on its way will meet.
ApplyCancel(r) ==
  /\ IF r \in Terminal
     THEN UNCHANGED <<pending, ahead, reservations, in_flight, recent_terminal, evicted>>
     ELSE /\ pending' = Without(pending, {r})
          /\ LeaveLine({r})
          /\ IF r \in Pending
             THEN UNCHANGED <<reservations, in_flight>>
             ELSE ReleaseReservations({r})
          /\ MarkTerminal(<<r>>)
  /\ UNCHANGED <<configured_limit, remaining, reset_at, blocked_until,
                 disabled, window, pending_denials, fenced>>

\* Invalidate everything one fenced generation still has here.
ApplyCancelGeneration(g) ==
  LET canceled == {r \in Pending \cup Reserved : Generation[r] = g}
  IN  /\ pending' = Without(pending, canceled)
      /\ LeaveLine(canceled)
      /\ ReleaseReservations(canceled)
      /\ MarkTerminal(Sorted(canceled))
      /\ fenced' = fenced \cup {g}
      /\ UNCHANGED <<configured_limit, remaining, reset_at, blocked_until,
                     disabled, window, pending_denials>>

\* Only the permit now reserved for r gives its slot back.
ApplyComplete(r, w) ==
  /\ IF r \notin Terminal /\ r \in Reserved /\ reservations[r] = w
     THEN ReleaseReservations({r}) /\ MarkTerminal(<<r>>)
     ELSE UNCHANGED <<reservations, in_flight, recent_terminal, evicted>>
  /\ UNCHANGED <<configured_limit, remaining, reset_at, blocked_until,
                 disabled, pending, ahead, window, pending_denials, fenced>>

\* Mutant: the latest header wins.
LatestBalance(o) == IF o.remaining = None THEN remaining ELSE NonNegative(o.remaining)

\* Headers arrive out of order: the lower balance wins.
LowerBalance(o) ==
  IF o.remaining = None THEN remaining
  ELSE IF remaining = None \/ remaining > NonNegative(o.remaining)
       THEN NonNegative(o.remaining) ELSE remaining

\* When to try again after an exhaustion: as told, or after a short delay when
\* the provider gives no hint at all.
RetryAt(o, at) ==
  IF o.retry_after # None THEN at + NonNegative(o.retry_after)
  ELSE IF o.reset_at = None THEN at + ProbeDelay ELSE None

\* Take provider headers, or an exhaustion, at their most conservative.
ApplyObservation(o, at) ==
  LET retry == RetryAt(o, at)
  IN  /\ IF o.in_scope
         THEN /\ configured_limit' =
                   IF o.limit # None THEN NonNegative(o.limit) ELSE configured_limit
              /\ remaining' = IF o.exhausted THEN 0 ELSE LowerBalance(o)
              /\ reset_at' = Later(reset_at, o.reset_at)
              /\ blocked_until' = IF o.exhausted
                                  THEN Later(blocked_until, Later(o.reset_at, retry))
                                  ELSE blocked_until
         ELSE UNCHANGED <<configured_limit, remaining, reset_at, blocked_until>>
      /\ UNCHANGED <<in_flight, disabled, pending, ahead, reservations,
                     recent_terminal, window, pending_denials, evicted, fenced>>

\* Stop for good: every queued request is finished and owed a denial.
ApplyDisable ==
  /\ disabled' = TRUE
  /\ IF disabled
     THEN UNCHANGED <<pending, ahead, recent_terminal, evicted, pending_denials>>
     ELSE /\ pending' = <<>>
          /\ LeaveLine(Pending)
          /\ MarkTerminal(pending)
          /\ pending_denials' = pending_denials \o pending
  /\ UNCHANGED <<configured_limit, remaining, reset_at, blocked_until,
                 in_flight, reservations, window, fenced>>

\* _apply_message
Apply(m) ==
  /\ \/ m.type = "request" /\ ApplyRequest(m.request)
     \/ m.type = "cancel" /\ ApplyCancel(m.request)
     \/ m.type = "cancel_generation" /\ ApplyCancelGeneration(m.generation)
     \/ m.type = "complete" /\ ApplyComplete(m.request, m.window)
     \/ m.type = "observe" /\ ApplyObservation(m.observation, m.at)
     \/ m.type = "disable" /\ ApplyDisable
  /\ dirty' = TRUE

\* _apply_or_defer: a Signal is handled at once, or kept until the state exists.
Receive(m) ==
  /\ Awaiting
  /\ IF pc = "start"
     THEN /\ Len(deferred) < MaxDeferred
          /\ deferred' = Append(deferred, m)
          /\ dirty' = TRUE
          /\ UNCHANGED <<stateVars, ahead, pending_denials, evicted, fenced>>
     ELSE Apply(m) /\ UNCHANGED deferred
  /\ UNCHANGED <<pc, rollover, grants, denials, sending, now, issued, refilled_at>>

-----------------------------------------------------------------------------
(* The Signals, and what their senders are doing *)

\* The first Signal of a request, or a late or repeated one: the bridge
\* Activity that sends it is retried.
RequestPermit(r) ==
  /\ Len(pending_denials) < MaxDenials
  /\ Receive([type |-> "request", request |-> r])
  /\ caller' = [caller EXCEPT ![r] = IF @ = "idle" THEN "waiting" ELSE @]

\* The caller gives up; its request may not have arrived yet.
CancelPermit(r) ==
  /\ caller[r] # "done"
  /\ Receive([type |-> "cancel", request |-> r])
  /\ caller' = [caller EXCEPT ![r] = "done"]

PermitCompleted(p) ==
  /\ p \in issued
  /\ caller[p.request] = "holding"
  /\ Receive([type |-> "complete", request |-> p.request, window |-> p.window])
  /\ caller' = [caller EXCEPT ![p.request] = "done"]

CancelGeneration(g) ==
  /\ Receive([type |-> "cancel_generation", generation |-> g])
  /\ UNCHANGED caller

\* Bounded: every boundary it sets passes before the clock stops.
ObserveQuota(o) ==
  /\ window < MaxWindows
  /\ \A t \in {o.reset_at, IF o.exhausted THEN RetryAt(o, now) ELSE None} \ {None} :
       t <= MaxTime
  /\ Receive([type |-> "observe", observation |-> o, at |-> now])
  /\ UNCHANGED caller

DisableScope ==
  /\ Receive([type |-> "disable"])
  /\ UNCHANGED caller

-----------------------------------------------------------------------------
(* The run loop *)

\* compact_quota_state: recount the slots and trim the window.
Compact ==
  /\ in_flight' = Cardinality(Reserved)
  /\ recent_terminal' = Newest(recent_terminal, DedupWindow)
  /\ evicted' = evicted \cup (Terminal \ Range(Newest(recent_terminal, DedupWindow)))

\* _initialize: the state is normalised, then the deferred Signals are applied.
Initialize ==
  /\ pc = "start"
  /\ pc' = "init"
  /\ Compact
  /\ UNCHANGED <<configured_limit, remaining, reset_at, blocked_until, disabled,
                 pending, reservations, window, dirty, rollover, deferred,
                 pending_denials, grants, denials, sending, now, caller, ahead,
                 issued, refilled_at, fenced>>

ApplyDeferred ==
  /\ pc = "init"
  /\ deferred # <<>>
  /\ Apply(Head(deferred))
  /\ deferred' = Tail(deferred)
  /\ UNCHANGED <<pc, rollover, grants, denials, sending, now, caller, issued,
                 refilled_at>>

\* advance_due_quota_window: a boundary that has passed opens a new window
\* with the configured balance.
AdvanceWindow ==
  LET resetDue == Due(reset_at)
      early    == Due(blocked_until) /\ reset_at # None /\ ~resetDue
      blockDue == Due(blocked_until) /\ ~early
  IN  IF blockDue \/ resetDue
      THEN /\ window' = window + 1
           /\ remaining' = configured_limit
           /\ blocked_until' = IF blockDue THEN None ELSE blocked_until
           /\ reset_at' = IF resetDue THEN None ELSE reset_at
           /\ rollover' = TRUE
           /\ refilled_at' = Later(IF blockDue THEN blocked_until ELSE None,
                                   IF resetDue THEN reset_at ELSE None)
      ELSE /\ blocked_until' = IF early THEN reset_at ELSE blocked_until
           /\ UNCHANGED <<window, remaining, reset_at, rollover, refilled_at>>

\* The top of the loop, reached at start or when the wait ends: something was
\* Signalled, a rollover is due, or the reset timer fired.
BeginRound ==
  /\ \/ pc = "init" /\ deferred = <<>>
     \/ pc = "wait" /\ (dirty \/ rollover \/ TimerDue)
  /\ AdvanceWindow
  /\ pc' = "grant"
  /\ UNCHANGED <<configured_limit, in_flight, disabled, pending, reservations,
                 recent_terminal, dirty, deferred, pending_denials, grants,
                 denials, sending, now, caller, ahead, issued, evicted, fenced>>

\* One iteration of grant_available_permits: reserve the head of the queue.
Grant ==
  /\ pc = "grant"
  /\ CanGrant
  /\ LET r == Turn
         p == [request |-> r, window |-> window]
     IN  /\ pending' = Tail(pending)
         /\ LeaveLine({r})
         /\ reservations' = [reservations EXCEPT ![r] = window]
         /\ in_flight' = in_flight + 1
         /\ remaining' = IF remaining = None THEN None ELSE remaining - Cost[r]
         /\ grants' = Append(grants, p)
         /\ issued' = issued \cup {p}
  /\ UNCHANGED <<configured_limit, reset_at, blocked_until, disabled,
                 recent_terminal, window, pc, dirty, rollover, deferred,
                 pending_denials, denials, sending, now, caller, refilled_at,
                 evicted, fenced>>

\* Nothing more to grant: take the queued denials and clear the flag before
\* the first await.
BeginDelivery ==
  /\ pc = "grant"
  /\ ~CanGrant
  /\ denials' = pending_denials
  /\ pending_denials' = <<>>
  /\ dirty' = FALSE
  /\ pc' = "deliver"
  /\ UNCHANGED <<stateVars, rollover, deferred, grants, sending, now, caller,
                 histVars>>

\* _deliver_grant up to its await: a reservation that is gone is skipped.
SendGrant ==
  /\ pc = "deliver"
  /\ grants # <<>>
  /\ grants' = Tail(grants)
  /\ IF Head(grants).request \in Reserved
     THEN pc' = "sending" /\ sending' = <<"grant", Head(grants).request>>
     ELSE UNCHANGED <<pc, sending>>
  /\ UNCHANGED <<stateVars, dirty, rollover, deferred, pending_denials, denials,
                 now, caller, histVars>>

\* _deliver_denial up to its await.
SendDenial ==
  /\ pc = "deliver"
  /\ grants = <<>>
  /\ denials # <<>>
  /\ denials' = Tail(denials)
  /\ pc' = "sending"
  /\ sending' = <<"denial", Head(denials)>>
  /\ UNCHANGED <<stateVars, dirty, rollover, deferred, pending_denials, grants,
                 now, caller, histVars>>

\* The Signal reached the caller, who takes it if it is still waiting.
Delivered ==
  /\ pc = "sending"
  /\ pc' = "deliver"
  /\ sending' = None
  /\ LET r == sending[2]
     IN  caller' = [caller EXCEPT ![r] =
                     IF @ # "waiting" THEN @
                     ELSE IF sending[1] = "grant" THEN "holding" ELSE "done"]
  /\ UNCHANGED <<stateVars, dirty, rollover, deferred, pending_denials, grants,
                 denials, now, histVars>>

\* The Signal could not be delivered, because the caller is gone.  A grant that
\* failed is cancelled; a denial that failed is only logged.
DeliveryFailed ==
  /\ pc = "sending"
  /\ pc' = "deliver"
  /\ sending' = None
  /\ caller' = [caller EXCEPT ![sending[2]] = "done"]
  /\ \/ sending[1] = "grant" /\ ApplyCancel(sending[2]) /\ dirty' = TRUE
     \/ sending[1] = "denial" /\ UNCHANGED <<stateVars, pending_denials, dirty,
                                             ahead, evicted, fenced>>
  /\ UNCHANGED <<rollover, deferred, grants, denials, now, issued, refilled_at>>

DeliveryDone == pc = "deliver" /\ grants = <<>> /\ denials = <<>>

\* Mutant: the run may end with denials still queued.
MayContinueAtOnce == rollover

\* Denials queued while the deliveries were awaited would be lost with the run.
MayContinueAsNew == rollover /\ pending_denials = <<>>

\* continue_as_new: the state survives, the rest of the run does not.
ContinueAsNew ==
  /\ DeliveryDone
  /\ MayContinueAsNew
  /\ Compact
  /\ pc' = "start"
  /\ dirty' = TRUE
  /\ rollover' = FALSE
  /\ pending_denials' = <<>>
  /\ UNCHANGED <<configured_limit, remaining, reset_at, blocked_until, disabled,
                 pending, reservations, window, deferred,
                 grants, denials, sending, now, caller, ahead, issued,
                 refilled_at, fenced>>

\* Mutant: the flag is cleared after the deliveries, not before them.
WaitAfterClearing ==
  /\ DeliveryDone
  /\ ~MayContinueAsNew
  /\ pc' = "wait"
  /\ dirty' = FALSE
  /\ UNCHANGED <<stateVars, rollover, deferred, pending_denials, grants,
                 denials, sending, now, caller, histVars>>

\* wait_condition
Wait ==
  /\ DeliveryDone
  /\ ~MayContinueAsNew
  /\ pc' = "wait"
  /\ UNCHANGED <<stateVars, dirty, rollover, deferred, pending_denials, grants,
                 denials, sending, now, caller, histVars>>

\* The message count reaches its threshold, or the server suggests a rollover.
SuggestContinueAsNew ==
  /\ Awaiting
  /\ ~rollover
  /\ rollover' = TRUE
  /\ UNCHANGED <<stateVars, pc, dirty, deferred, pending_denials, grants,
                 denials, sending, now, caller, histVars>>

Tick ==
  /\ Awaiting
  /\ now < MaxTime
  /\ now' = now + 1
  /\ UNCHANGED <<stateVars, runVars, caller, histVars>>

-----------------------------------------------------------------------------

Init ==
  /\ configured_limit = InitialLimit
  /\ remaining = InitialLimit
  /\ reset_at = None
  /\ blocked_until = None
  /\ in_flight = 0
  /\ disabled = FALSE
  /\ pending = <<>>
  /\ reservations = [r \in Request |-> None]
  /\ recent_terminal = <<>>
  /\ window = 0
  /\ pc = "start"
  /\ dirty = TRUE
  /\ rollover = FALSE
  /\ deferred = <<>>
  /\ pending_denials = <<>>
  /\ grants = <<>>
  /\ denials = <<>>
  /\ sending = None
  /\ now = 0
  /\ caller = [r \in Request |-> "idle"]
  /\ ahead = [r \in Request |-> {}]
  /\ issued = {}
  /\ refilled_at = None
  /\ evicted = {}
  /\ fenced = {}

Signals ==
  \/ \E r \in Request : RequestPermit(r) \/ CancelPermit(r)
  \/ \E p \in issued : PermitCompleted(p)
  \/ \E g \in Generations : CancelGeneration(g)
  \/ \E o \in Observation : ObserveQuota(o)
  \/ DisableScope

Loop ==
  \/ Initialize \/ ApplyDeferred \/ BeginRound \/ Grant \/ BeginDelivery
  \/ SendGrant \/ SendDenial \/ Delivered \/ DeliveryFailed
  \/ ContinueAsNew \/ Wait

Next == Signals \/ Loop \/ SuggestContinueAsNew \/ Tick

Spec == Init /\ [][Next]_vars

-----------------------------------------------------------------------------
(* Properties *)

\* Every variable keeps its type; in particular the balance is never negative.
TypeOK ==
  /\ configured_limit \in Optional(Nat)
  /\ remaining \in Optional(Nat)
  /\ reset_at \in Optional(Nat)
  /\ blocked_until \in Optional(Nat)
  /\ in_flight \in Nat
  /\ disabled \in BOOLEAN
  /\ pending \in Seq(Request)
  /\ reservations \in [Request -> Optional(Nat)]
  /\ recent_terminal \in Seq(Request)
  /\ window \in Nat
  /\ pending_denials \in Seq(Request)
  /\ evicted \in SUBSET Request
  /\ fenced \in SUBSET Generations
  /\ pc \in {"start", "init", "grant", "deliver", "sending", "wait"}
  /\ dirty \in BOOLEAN
  /\ rollover \in BOOLEAN
  /\ deferred \in Seq(Message)
  /\ grants \in Seq(Permit)
  /\ denials \in Seq(Request)
  /\ sending \in Optional({"grant", "denial"} \X Request)
  /\ now \in Nat
  /\ caller \in [Request -> {"idle", "waiting", "holding", "done"}]
  /\ ahead \in [Request -> SUBSET Request]
  /\ issued \in SUBSET Permit
  /\ refilled_at \in Optional(Nat)

\* The in-flight counter, kept by hand in five places and clamped at zero, is
\* the number of live reservations and never passes the limit.
SlotAccounting ==
  /\ in_flight = Cardinality(Reserved)
  /\ in_flight <= MaxInFlight

\* What the slots are for: no more callers than slots work on a permit at a
\* time, however completions, cancellations and rollovers fall.  Callers of a
\* fenced generation have lost their slots and are cancelled by their owner.
AtWork == {r \in Request : caller[r] = "holding" /\ Generation[r] \notin fenced}
WorkWithinSlots == Cardinality(AtWork) <= MaxInFlight

\* A request id is queued, reserved or finished, never two of them, and is
\* queued or remembered at most once; the queue and the window keep their caps,
\* and a disabled scope queues nothing, whatever arrives later.
LifeStages ==
  /\ Pending \cap Reserved = {}
  /\ Pending \cap Terminal = {}
  /\ Reserved \cap Terminal = {}
  /\ NoRepeats(pending) /\ Len(pending) <= MaxPending
  /\ NoRepeats(recent_terminal) /\ Len(recent_terminal) <= DedupWindow
  /\ disabled => pending = <<>>

\* The loop never sleeps on work: while it waits with the flag down, no rollover
\* and no due timer, the head of the queue cannot be granted and no denial is
\* owed.  The flag is cleared before the deliveries are awaited, so a Signal
\* handled during them is not lost.
NoLostWakeup ==
  pc = "wait" /\ ~dirty /\ ~TimerDue => ~CanGrant /\ pending_denials = <<>>

DeferredRequests ==
  {deferred[i].request : i \in {j \in DOMAIN deferred : deferred[j].type = "request"}}
Undelivered ==
  {p.request : p \in Range(grants)} \cup
  (IF pc = "sending" /\ sending[1] = "grant" THEN {sending[2]} ELSE {})
DenialsOwed ==
  Range(pending_denials) \cup Range(denials) \cup
  (IF pc = "sending" /\ sending[1] = "denial" THEN {sending[2]} ELSE {})

\* A caller that is still waiting will hear: its request is on its way in, in
\* the queue, reserved with the grant not delivered yet, or owed a denial,
\* also across Continue-As-New.
WillHear(r) ==
  \/ r \in DeferredRequests \cup Pending \cup DenialsOwed
  \/ r \in Reserved \cap Undelivered

\* No caller is left waiting in silence, except one whose generation was fenced
\* (its owner cancels it) or one that named no workflow to answer.
EveryWaiterWillHear ==
  \A r \in Request \ Anonymous :
    caller[r] = "waiting" /\ Generation[r] \notin fenced => WillHear(r)

NewlyReserved == {r \in Request : reservations[r] = None /\ reservations'[r] # None}

\* An id that was reserved once is never reserved again while the window
\* remembers it: duplicates, late requests and tombstones all hold.
OneGrantPerRequest ==
  [][\A r \in NewlyReserved : (\E p \in issued : p.request = r) => r \in evicted]_vars

\* The known balance never grows within a quota window: no cancellation,
\* completion, failed delivery or observation refunds it.
NoRefundWithinWindow ==
  [][window' = window /\ remaining # None =>
       remaining' # None /\ remaining' <= remaining]_vars

\* Nobody is overtaken: a permit goes to a queued request only when every
\* request that queued before it has been granted, cancelled or fenced, through
\* cancellations in the middle of the queue, fences, deferred Signals, rollovers,
\* and ids that come back; a cheap request never passes a costly one.
GrantsInOrder ==
  [][\A r \in NewlyReserved : r \in Pending /\ ahead[r] = {}]_vars

\* "their original grant, cancellation, or denial remains authoritative"
\* (permit_request_denial): an id that is owed or was sent a denial is not
\* granted later.
DenialIsAuthoritative == DenialsOwed \cap (Pending \cup Reserved) = {}

\* "Taking the lower balance never manufactures permits"
\* (apply_quota_observation): the balance is refilled at most once for one
\* reset boundary, whatever order the responses of its window arrive in.
OneRefillPerBoundary ==
  [][window' # window /\ refilled_at # None => refilled_at' > refilled_at]_vars

-----------------------------------------------------------------------------
(* Liveness *)

\* Temporal drives the loop.  The clock and the completion Signals do not wait
\* for an idle moment: they are strongly fair, because a busy coroutine is at
\* an await again and again.  A caller that holds a permit reports its
\* completion (the callers of request_quota_permit do so in a finally block).
Fairness ==
  /\ WF_vars(Loop)
  /\ SF_vars(Tick)
  /\ \A r \in Request : SF_vars(\E p \in issued : p.request = r /\ PermitCompleted(p))

FairSpec == Spec /\ Fairness

\* Slots that will not come back: the grant reached a caller that had already
\* left, and no Signal that gives the slot back is on its way.  An id that was
\* denied or evicted and whose request is repeated can be granted again.
Leaked ==
  {r \in Reserved \ Undelivered :
     caller[r] = "done" /\ \A i \in DOMAIN deferred :
       deferred[i].type \in {"cancel", "complete"} => deferred[i].request # r}

\* Every caller is answered, or cancels, or its generation is fenced, unless a
\* slot has leaked: a scope whose boundaries pass never leaves a request parked,
\* also when it is exhausted with no hint when to retry, when its queue is full,
\* or when headers of the old window arrive after the boundary.
EveryCallerAnswered ==
  \A r \in Request \ Anonymous :
    caller[r] = "waiting" ~>
      (caller[r] # "waiting" \/ Generation[r] \in fenced \/ Leaked # {})
=============================================================================
