# Golden Retriever: a TLA+ verification project

Golden Retriever keeps a searchable copy of a provider's documents up to date.
It is a set of Temporal workflows and Activities: *stores* are synchronised,
failed users are remediated by detached workflows, calls to the provider share
*quota scopes*, and a store can be deactivated for good while any of this runs.
This project models the parts in which the concurrency is: the quota
coordinator, the life of one store, and the tree of workflows that one sync is:
a root, its users, their resources and the windows of pages.

Paths below are relative to `src/src/retrieval/temporal/`.

## 1. Inventory

| Component | State | Operations | Talks to |
|---|---|---|---|
| quota coordinator, `workflows/user_quota.py` | `UserQuotaState`: balance, boundaries, FIFO queue, reservations, window of finished ids; per run: deferred Signals, queued denials, dirty flag | six Signals, one run loop, Continue-As-New | Signals grants and denials to its callers |
| quota waiter, `common/quota_waiter.py`, `activities/quota_client.py` | expected ids, inbox, window of consumed ids | request, cancel, complete, observe | Signal-with-Start of the coordinator |
| store controller, `workflows/store_controller.py` | `StoreControllerState`: lifecycle and generation as it believes them, registered operations, the deactivation, quota ids, window of command results; a command queue | three Updates, four Signals, authority read, Continue-As-New | starts root syncs and deactivations, cancels, forwards drained operations |
| deactivation, `workflows/deactivate_store.py`, `workflows/cleanup.py` | phase, warnings, drained operations | fence, Signal, cancel, invalidate quota, drain, clean up, mark, report | lifecycle Activities, controller, coordinators |
| store record, `activities/repositories.py`, `lifecycle.py`, `cleanup.py` | lifecycle state and generation, users, documents, retrieval state | compare-and-set operations under one lock | called by retried Activities |
| root sync, `workflows/root_sync.py` | cursor of user pages, active and buffered users, counts, failed users, open remediations | list users, run them in batches or rounds, start, register and drain remediations, two kinds of Continue-As-New, report | user syncs, remediations, controller, quota |
| remediation, `workflows/failed_user_remediation.py`, `activate_user.py` | users left, errors so far; the wave of each user | activate in batches, Continue-As-New, report | user syncs, record, controller |
| user and resource sync, `workflows/user_sync.py`, `resource_sync.py` | a cursor for each resource, finished resources | run the unfinished resources, join, merge cursors | resource pages |
| resource and files pages, `workflows/resource_pages.py`, `files_page.py` | window of pages, cursor, failures, pages completed in earlier runs | fetch with a permit, run pages, Continue-As-New, checkpoint | provider, quota, ingestion |
| ids, policies, metrics, client, worker, configuration | none or constant | | |

What is hard here:

* **Signals at awaits.** A workflow is one coroutine, but every await lets
  Signal handlers run. The coordinator delivers grants with awaits, so its queue
  changes under it.
* **At-least-once Activities.** An attempt can commit with its answer lost, be
  repeated, or arrive after its workflow has gone.
* **Independent senders.** A root and its remediation Signal the controller
  separately; requests, cancellations and provider headers overtake each other.
* **Continue-As-New and failed runs.** What is kept in the run and not in the
  state is lost; the controller reads its authority again, a root has to carry
  its round, a window of pages its budget and the attempt of its next request.
* **Out of order completion.** Pages of a window, resources of a user and users
  of a batch end in any order, and some fail; cursors must not pass what failed.
* **Waiting.** Callers wait for the coordinator, the deactivation for operations
  that may never report.

What makes each part correct: a permit is granted once, in order of arrival,
within the balance, and every caller hears; the controller admits one sync at a time and
never runs ahead of the record; nothing is written behind the fence, the store
is inactive only when it is empty, and every deactivation ends; a pass over a
resource never answers with a cursor past an unfinished page, a user counts as
synced or is activated only when every page of it is settled, a root accounts
for each user once, and all of them end or wait for somebody else's answer.
`PROJECT.json` lists these hazards at their lines.

## 2. Modules

| Module | Models |
|---|---|
| `Lists` | the list idioms (`sorted`, filtering, newest n), defined by counting so that they can be proved about |
| `UserQuota` | the coordinator: Signal handlers, run loop, delivery, Continue-As-New |
| `Repository` | the record and its guarded operations |
| `StoreController` | the controller (extends `Repository`) |
| `DeactivateStore` | the deactivation (extends `StoreController`) |
| `StoreSystem` | the composition, with root syncs and remediations as the others see them |
| `StoreLifecycle` | the abstract promise of a deactivation; `StoreSystem` refines it |
| `ResourceCursor` | pages, cursors and the answers a pass over one resource may give |
| `ResourcePass` | the abstract promise of a pass (extends `ResourceCursor`) |
| `ResourcePages` | `ResourcePagesWorkflow` with its page children; refines `ResourcePass` |
| `UserSync` | user and resource sync as operators over the answers of `ResourceCursor` |
| `RootSync` | the root in both modes, with its remediations and activations (extends `UserSync`) |
| `MCUserQuota`, `MCStoreSystem`, `MCResourcePages`, `MCRootSync` | instances for TLC |
| `ListsProofs` | what the list idioms return, for every argument |
| `UserQuotaProofs` | the coordinator and its callers |
| `StoreSystemProofs`, `StoreTypeProofs`, `StoreBeliefProofs`, `StoreQuotaProofs` | refinement, types, the controller's belief and its operations |
| `ResourcePagesProofs` | the window of pages, and that it implements `ResourcePass` |
| `RootSyncProofs` | the root, its users and its remediations |

### UserQuota

The variables of `stateVars` are the fields of `UserQuotaState`; `pending` joins
the dictionary and `pending_order`, `reservations[r]` is the window the permit
was granted in (the permit id is a hash of request and window). `pc` says where
the coroutine is: `start` (no state yet, Signals are deferred), `init`, `grant`,
`deliver`, `sending` (awaiting a Signal) and `wait`. Handlers run only in
`start`, `sending` and `wait`; the loops between two awaits take one step for
each iteration and nothing interleaves with them. The caller side is reduced to
`idle`, `waiting`, `holding`, `done`. `ahead`, `issued`, `refilled_at`,
`evicted` and `fenced` are history: `ahead[r]` are the requests that queued
before `r` did and have not left the queue since, whatever the queue looks like.
`Leaked` are slots that will not come back, because the grant went to a caller
that had already left.

### Store

Controller handlers are one step each: the queue is processed serially and
nothing else touches the controller's state while a handler awaits. The
authority read is two steps, because the record may move between the read and
its arrival. A read that fails for good ends the run; Signals then fail until a
client command starts a new one. Lifecycle calls succeed, fail, or commit late
(`LateAttempt`) in any combination. `started` keeps the operations whose
Activity attempts may still write, `working` those still open, `canceled` those
asked to cancel. A remediation carries the page or round it was started for; a
root starts one for each, at most `MaxActiveRemediations` at a time, registers
it, and starts no more when the registration fails. It cancels the handle then,
but the remediation was started with `ChildWorkflowCancellationType.ABANDON`:
the remediation is not asked to stop, and runs on without an owner.

`StoreLifecycle` has two variables: a fence that is open, fenced or closed and
the contents. Contents are written only while the fence is open, only shrink
afterwards, and the fence closes only on an empty store and for ever.

### Pages

`ResourcePages` is one coroutine, `pc`, and its children. A page child is one
step: it joins its documents and looks at their outcomes only (`PageStatus`).
`command` holds what a Continue-As-New replaces in the input; `first`, `limit`
and `metered` are the input of the pass and never change. A request for a
permit is its cursor and attempt; `spent` remembers the ids that have ended,
because the coordinator never answers those again (`OneGrantPerRequest` and the
window of finished ids in `UserQuota`). An exception in a fetch, or in the
Activity that asks for the permit, closes the workflow and terminates its
children; a cancellation waits for them. A denied permit is different: it is
raised as `QuotaPermitDeniedError`, a `RuntimeError` that nothing declares a
failure of the Workflow, so that only the Workflow task fails, again and again
(`pc = "denied"`): the pass stays open until it is cancelled. `settled` and
`started` are history.

`ResourcePass` has the input, the settled pages and the answer. Pages of the
span of the budget are settled in any order, and then there is one answer: a
success for exactly the span, a partial result whose cursor is the input of an
unfinished page with everything before it settled, or an exception. The
mapping is the identity on these variables.

### Users and roots

`UserSync` has no state of its own: the fan-out over resources is joined before
anything is read from it. `Outcomes` are the answers `ResourceCursor` allows for
each unfinished resource, `UserResult` is what `run()` makes of them. So
`RootSync` rests on what `ResourcePages` is shown to promise and not on its
steps.

`RootSync` follows the root from await to await. `user` is the `UserCursor` of
each user, in a round as in the two waves of an activation. `Refill` is one
iteration of the refill loop together with the decision that follows it.
`ListExhausted` is the rollover in the middle of a listing, which continues as
new at once and forgets the open remediations; `ContinueAsNew` is the one at
the barrier, after `Drain`. `remediation` is indexed by partition; a remediation
holds the keys it has left and whether there were errors, which is also what its
own Continue-As-New carries, so that one is no step of its own. `moved` says
that a deactivation has moved the generation: from then on pages still succeed
(documents that are fenced off count as applied) and settle nothing. A root whose listing is
denied a permit reports FAILED and stays open, like a pass. Of the failed users
of an older input round mode hands over a `Sample`; `CutOff` are the others.
`failed` is kept in full, and every later cut of it is only of what is reported.
A registration that fails ends the root at the await (`Registering`). `settled`,
`synced` and `handed` are history. The sync is metered, and the failed users of
an older input come without counts.

## 3. Runs

| Run | Result | Shows |
|---|---|---|
| `quota_queue` | passes | types, slot accounting, one stage per id, one grant per request, order of arrival, no caller forgotten, also across Continue-As-New and failed deliveries |
| `quota_liveness` | passes | every caller is answered when the provider never states its limit (a passed boundary puts the scope back in probe mode), also past a full queue, an eviction, an old header after the boundary and an exhaustion without a hint, unless a slot has leaked; no refund within a window, no lost wakeup, and no more callers at work than slots |
| `quota_full` | passes | three callers, one of them malformed, for a queue, a window and a slot of one: every caller is answered, unless a slot was granted to a caller that had left; without that exception the property is violated here |
| `quota_refill` | violated | a late header of the old window refills the balance again |
| `quota_denial` | violated | a denied id can be queued and granted on a repeated request |
| `quota_parked` | violated | with a stated limit, a scope that was refilled and spent again knows no boundary, sets no timer and stays parked until the next observation |
| `store_retry` | passes | refinement of `StoreLifecycle`, honest controller, types, with failed and resumed deactivations and failing authority reads |
| `store_operations` | passes | a sync starts alone; every scope in use is invalidated; every accepted deactivation ends |
| `store_ghost` | violated | `remediation_finished` handled before `remediation_started` leaves a registration for ever |
| `store_unfenced` | violated | a fence that was committed with its answers lost is treated as not set |
| `resource_pages` | passes | refinement of `ResourcePass` with pages that end out of order, fail, and are split over runs; no page starts twice; every pass ends, or rests where it was denied a permit or is still owed an answer |
| `root_sync` | passes | every user is synced or handed to one remediation, once; nothing is skipped by a resumed cursor; a remediation completes only with all users activated; everything ends, or rests where somebody else owes it an answer |

The violated runs state a comment or a sentence of the documentation that the
code does not keep; `findings` in `PROJECT.json` quotes each. Four more
disagreements are in the models and have no run of their own:

* a denied permit does not make its caller "fail promptly"
  (`docs/workflow-topology.md:232`): the exception fails the Workflow task only,
  and the pass or the root stays open (`quota_waiter.py:60` and `:250`;
  `Denied`, `ListDenied`);
* round mode cuts the failed users of an older input to a sample before it hands
  them over (`root_sync.py:508-513`, `:531`), so a root can complete with users in
  no remediation (`Sample`, `CutOff`);
* a rollover on an exhausted listing does not drain the remediations
  (`root_sync.py:172`), so the next run can have more than
  `MaxActiveRemediations` of them at work (`ListExhausted`);
* a remediation whose registration fails runs on without an owner
  (`root_sync.py:789-800`; the child is started with `ABANDON`, so cancelling its
  handle asks nothing of it).

**Bounds.** Two to four requests of different cost and generation (one of them
malformed in `quota_queue`), one or two slots, and a queue and a window small
enough to overflow: an order, a duplicate, an eviction and a full queue need no
more. `quota_liveness` has two callers for one slot, one place in the queue and one
remembered id, so that requests are denied, ids are evicted and both are
repeated. Its clock has one boundary to pass (`MaxTime = 1`), headers that name
this boundary are handled before and after it, and `MaxWindows = 2` lets the old
one open a second window; every boundary that is set passes before the clock
stops, so that no caller is parked by the bound. `quota_full` has no provider
and a third caller, one that waits behind a leaked slot. What holds over more
windows (`NoRefundWithinWindow`, `NoLostWakeup`) is proved. `MaxDeferred` and
`MaxDenials` bound the Signals before the start and the denials of one round:
with `MaxDeferred = 1` the order of deferred Signals is not tested. In the store a generation moves
at most once, so one user, document or key shows a write behind the fence;
`MaxQueue` only limits clients, never Signals; one command is remembered, so that
duplicates are both recognised and forgotten. `store_retry` has a sync, its
cancellation, a command whose metadata does not parse and two deactivations;
`store_operations` two syncs with different coordinators and one remediation
each. Remediations and failing authority reads together occur only in the proofs
that allow both (types, fence, belief). `resource_pages` has four pages, a window of three and budgets of
none, one and three, from every cursor: a window that fills and slides, failures
before and behind a success, and a budget split over runs all occur.
`MaxAttempt = 1` allows one exhausted answer for each page, and Continue-As-New
is suggested at any moment of any run. `root_sync` has two valid users and an
invalid one on two pages, two failed users of an older input of whom a sample holds one
(`SampleLimit = 1`), two resources of
one and two pages with slices of one, so that a user needs two rounds or both
waves, a window of one user so that the other is kept aside, batches of one so
that a remediation has two, one remediation at a time so that the root waits for
it, and one exhausted listing (`MaxExhausted`). No symmetry is used: requests are ordered and
the other sets are singletons or hold distinguished members.

**Deadlock** is checked for the quota, the pages and the root, where only closed
workflows may stop (`Closed`), and not for the store: there clients may send
nothing more.

**Fairness.** Temporal drives workflows, so the coordinator's loop, the
controller and the deactivation are weakly fair. The deactivation needs nothing
else: its drain has a timer and its calls have bounded retries. In the quota the
clock moves on and a caller that holds a permit reports completion (the callers
do so in a `finally` block); both are strongly fair because a busy coroutine
returns to an await again and again. In `ResourcePages` and `RootSync` one weak
fairness condition on `Progress`, the steps of the workflows, their children and
their answers, is enough: as long as something can go on, something does, and
nothing is repeated for ever. It is justified by Temporal driving the
coroutines and by the timeouts and bounded retries of Activities. That a permit
is answered is not assumed (`quota_parked`, and slots that leak), nor that a user
sync or an activation ends, because a pass that was denied a permit does not:
`PassEnds` and `EverythingEnds` say where a workflow may then rest. Suggestions,
cancellations and deactivations are not fair. Nothing is assumed of clients, of
the operations' own work or of late attempts.

**Caveat.** `SyncStartsAlone` is checked with authority reads that succeed. When
a read fails for good after a Continue-As-New, the registrations are lost with
the run and a second sync can be admitted beside one that is still open.

## 4. Proofs

All theorems hold for every value of the constants that satisfies the named
`ASSUME`s: `RequestAssumption`, `LimitAssumption` (slots fit the queue and the
window, as configuration validates), `ObservationAssumption`,
`BoundAssumption`; `RepositoryAssumption`, `ControllerAssumption` (shape of the
commands, a positive window) and `SystemAssumption`; `PagesAssumption` and
`WindowAssumption` (a resource has a page, windows and budgets are positive);
`PageCountAssumption`, `RootAssumption` and `ListedOnce`. The last three are about
the environment of a root: there are finitely many users, the failed users of an
older input are not listed again, and the provider names a valid user once. A
child is identified by the key of its user, so a batch could not even start a
user twice; named again on a later page it would be synced and counted twice,
and "accounted for once" is then not what a root promises.

Every safety property and every action property the passing runs check is
proved. Each was first checked by TLC, and so was each inductive invariant
below.

**Quota** (`UserQuotaProofs`). The inductive invariant is
`IInv == Core /\ RunOK /\ IssuedIsKept`. `Core` is types, slot accounting and
life stages of the carried state; `RunOK` types what lives in a run;
`IssuedIsKept` says that every permit ever issued is still reserved, finished
or evicted, which is what makes `OneGrantPerRequest` inductive: a queued id is
neither reserved nor remembered. `NoLostWakeup` needs `Watched`: from the moment
the flag is cleared until the wait, any change that enables a grant or owes a
denial has raised it again. `FirstComeFirstServed` compares two accounts of the
queue: `LineOK` says that `ahead`, which only records what was queued when a
request came and takes out who leaves, is at any time what stands before the
request in `pending`. Only the head has nobody ahead of it, and only the head is
granted, so nobody is overtaken, whatever is cancelled or fenced in the middle.
`ListsProofs` gives what the list operators return.

**Callers** (`UserQuotaProofs`). `WorkWithinSlots` follows once a caller that
holds a permit, or to which a grant is being sent, is known to have a slot
(`InSlot`). For `EveryWaiterWillHear` the invariant `CallersOK` says where the id of
a waiting caller can be: it is deferred, queued, reserved or finished; if it is
reserved its grant is undelivered, if it is finished it is owed a denial. That
is stronger than what the property says, and needed: a duplicate of the request
is ignored for an id that is reserved or remembered, so an answer that was lost
would otherwise never be repeated. Cancellations and completions that are still
deferred come from callers that are done (`DeferredOK`).

**Store, fence** (`StoreSystemProofs`). `FenceInv`: in the phases after the fence
the record has left the open states at the task's generation; users are gone
when objects are removed; a `mark_inactive` that was ever issued was issued on a
fenced and empty store; an inactive store is empty. With it each step maps to a
step of `StoreLifecycle` or a stutter. Late attempts are why emptiness must be
tied to issued calls and not to the phase.

**Store, types** (`StoreTypeProofs`) and **belief** (`StoreBeliefProofs`).
`BeliefInv` bounds every copy of the generation: the record moves once
(`RecordAge`), and an authority read under way, the controller's knowledge, the
task, the fence flag, the outcome and the queued Signals are never ahead of it.

**Store, operations** (`StoreQuotaProofs`). What the controller has registered is
only right together with the queue of Signals it has not handled. `QuotaInv`
follows each operation through that queue: a sync at work is registered and has
not reported, and reports once; a remediation is at work, registered or still to
be registered, and its registration is ahead of its root's report, because the
root sends both; a remediation may report before it is registered, but then its
root reports later. So when no sync and no remediation is registered, none is at
work and no report is on its way (`SyncsStartAlone`), and every scope of an
operation at work is among those the controller, and then its deactivation,
knows (`QuotaInvalidated`). Both are proved for `AuthorityMayFail = FALSE`, the
value in `store_operations`: a run whose authority read fails for good loses its
registrations, and then neither holds (see the caveat above). The theorems on
types, fence and belief need no such restriction.

**Pages** (`ResourcePagesProofs`). `WindowInv` gives a run its base page, the one
its input starts at; child *s* has page base + *s*. The pages handed out are one
interval from the first page of the pass to the page before the cursor; those of
earlier runs are settled, because a run is only replaced when it has drained
without a failure; those of this run are settled unless their child is pending
or has failed. From that a page starts once, an answer's cursor (the least
failure) has everything before it settled, and a success reaches exactly to the
end or the budget: `PassRefined`, with the identity as the mapping.

**Roots** (`RootSyncProofs`). `RootInv` has two arguments in it. `PlacesOK` and
`NumbersOK` put each valid user of the listing into one place: expected on a page
still to come, waiting in the buffer, open in the batch, synced, or handed to a
remediation; whoever is in one of the first three is untouched, that is neither
synced nor handed over. The property itself is not inductive: that a user is
handed over once rests on users never coming back, from a later page, the
buffer, or the failed users of an older input. `RemediationsOK` adds that
remediations are numbered by batches and share no user, so that one cannot undo
what another has activated, and that a user leaves the keys of a remediation
only activated or with an error remembered. `SettledOK` is about cursors: the
pages before a resource's cursor and all pages of a completed resource have been
settled, as long as the generation has not moved. `SyncSettles` proves for one
user sync, with any answers `ResourceCursor` allows and any number of resources,
that it keeps this; rounds and waves are then repetitions of it. After an abort
the counts are dropped and nothing is claimed about them. `UsersAccounted` leaves
out `CutOff`, the carried users beyond the sample: in round mode nobody has them.

**Only model-checked.** The liveness properties `EveryCallerAnswered`,
`DeactivationEnds`, `PassEnds` and `EverythingEnds`: they rest on fairness and
`ENABLED`, which are out of the prover's reach. The five violated
properties are TLC's as well.

## 5. Not modelled

Provider I/O, staging, metrics, search attributes, priorities, process start-up
and settings; the hash behind ids is taken to be injective. Not modelled yet:

* the quota waiter's inbox and its own window of consumed ids;
* the concurrency limits inside a user sync and inside a page (semaphores over
  children that are joined together: they delay, and decide nothing);
* the ids of document children (`workflows/files_page.py:48`): two pages that hold
  the same version of a document start the same child, and the second one to do
  so while it runs gets an error. The page then fails and is replayed, which
  `ResourcePages` has as a failed page;
* the samples of errors and remediation ids, and the sample of failed users
  where it is only reported: the root cuts them off and nothing reads them
  (where the sample decides who is remediated it is modelled, `Sample`);
* cleanup of named users (`CleanupUsersWorkflow` with keys), which no
  deactivation asks for.

## 6. Plan

1. `QuotaProtocol`: coordinator and waiter composed, with the inbox and the
   waiter's own window; what the reduced caller of `UserQuota` assumes is then
   checked.
2. What remains of `SyncStartsAlone` when authority reads fail: a second sync is
   admitted only by a controller that has lost its registrations.
3. `StoreLifecycle` for a store that is deactivated after a failed deactivation,
   stated over several tasks.
