------------------------------ MODULE RootSync ------------------------------
(***************************************************************************)
(* RootSyncWorkflow, in both modes, with the user syncs of its batches and  *)
(* the detached FailedUserRemediationWorkflows it starts, whose users run   *)
(* ActivateUserWorkflow.  The root is one coroutine: pc is the await it is  *)
(* in, or the step it takes next.  Continue-As-New carries every local of   *)
(* the root except the remediations it is waiting for.                      *)
(***************************************************************************)
EXTENDS UserSync, Lists

CONSTANTS User,
          Listing,                \* the provider's pages of users
          Valid,                  \* the users that are marked valid
          Carried,                \* failed_user_keys in the input of an older release
          SampleLimit,            \* _FAILED_USER_SAMPLE_LIMIT
          UserWindow,             \* round_user_window_size
          SliceSize,              \* round_page_slice_size
          RecentCap,              \* activation_recent_page_cap
          BatchSize,              \* of a remediation
          MaxActiveRemediations,
          MaxExhausted            \* bound: exhausted answers to a listing

AtLeastOne(n) == IF n > 1 THEN n ELSE 1
ListPages == DOMAIN Listing
Listed == Valid \cap UNION {Range(Listing[i]) : i \in ListPages}

ASSUME RootAssumption ==
  /\ IsFiniteSet(User) /\ Valid \subseteq User
  /\ Listing \in Seq(Seq(User)) /\ Listing # <<>>
  /\ Carried \in Seq(User \ Listed) /\ NoRepeats(Carried)
  /\ {SampleLimit, UserWindow, SliceSize, RecentCap, MaxExhausted} \subseteq Nat
  /\ {BatchSize, MaxActiveRemediations} \subseteq Nat \ {0}

\* The provider names a valid user once.  A user sync is identified by the key of
\* its user (user_sync_workflow_id): a batch cannot start two of one user, and a
\* user named again on a later page would be synced, and counted, twice.
ASSUME ListedOnce ==
  \A i, j \in ListPages : \A k \in DOMAIN Listing[i], l \in DOMAIN Listing[j] :
    Listing[i][k] = Listing[j][l] /\ Listing[i][k] \in Valid => i = j /\ k = l

VARIABLES
  mode, pc,
  user_cursor, user_page_attempt,   \* the next page of users and its attempt
  exhausted,                        \* round mode: there are no more pages of users
  active, buffered,                 \* the users of the batch or round, and those waiting for one
  count,                            \* user_pages_completed, or round_number
  fresh,                            \* no batch of this run has been joined
  users_completed, users_failed,
  failed,                           \* failed_user_keys, in full: once the users of the input are
                                    \* handed over, its samples are only reported
  failed_remediated,                \* failed_user_keys_remediated
  active_remediations,
  suggested, status
VARIABLES
  user,                             \* the UserCursor of each user
  result,                           \* of each user of the batch
  remediation,                      \* the remediations, by partition
  phase,                            \* of each user's activation
  moved                             \* the store's generation has moved on
VARIABLES settled, synced, handed, spent   \* history

listVars == <<user_cursor, user_page_attempt, exhausted, spent>>
batchVars == <<active, buffered, count, fresh, result>>
countVars == <<users_completed, users_failed, failed, synced>>
remediationVars == <<remediation, phase, handed, active_remediations, failed_remediated>>
userVars == <<user, settled>>
vars == <<mode, pc, listVars, batchVars, countVars, remediationVars, userVars, suggested, status,
          moved>>

Init ==
  /\ mode \in {"ordinary", "round"}
  /\ pc = "start"
  /\ user_cursor = None /\ user_page_attempt = 0 /\ exhausted = FALSE
  /\ active = <<>> /\ buffered = <<>> /\ count = 0 /\ fresh = TRUE
  /\ users_completed = 0 /\ users_failed = 0
  /\ failed \in {<<>>, Carried} /\ failed_remediated = (failed = <<>>)
  /\ active_remediations = {}
  /\ suggested = FALSE /\ status = "running"
  /\ user = [u \in User |-> FreshUser]
  /\ result = [u \in User |-> "none"]
  /\ remediation = <<>>
  /\ phase = [u \in User |-> "none"]
  /\ moved = FALSE
  /\ settled = [u \in User |-> {}]
  /\ handed = [u \in User |-> 0]
  /\ synced = {} /\ spent = {}

-----------------------------------------------------------------------------
\* The start of a run.  Failed users of an older input are remediated first.
Begin == IF mode = "round" THEN "refill" ELSE "list"

Start ==
  /\ pc = "start"
  /\ pc' = IF failed # <<>> /\ ~failed_remediated THEN "carried" ELSE Begin
  /\ UNCHANGED <<mode, listVars, batchVars, countVars, remediationVars, userVars, suggested,
                 status, moved>>

\* What a new run of the root keeps in memory: nothing.  The rest is carried.
NewRun ==
  /\ pc' = "start"
  /\ fresh' = TRUE
  /\ suggested' = FALSE
  /\ active_remediations' = {}

Suggest ==
  /\ pc # "closed" /\ ~suggested
  /\ suggested' = TRUE
  /\ UNCHANGED <<mode, pc, listVars, batchVars, countVars, remediationVars, userVars, status, moved>>

\* _list_users.  The coordinator does not answer an id that has ended before;
\* spent holds the attempts that ended with an exhausted quota.
ListPage == IF user_cursor = None THEN 1 ELSE user_cursor
\* Mutant: the last page of users is not recognised.
AnotherPage == ListPage + 1
NextUserCursor == IF ListPage = Len(Listing) THEN None ELSE ListPage + 1
ListId == <<user_cursor, user_page_attempt>>
Running(users) == [u \in User |-> IF u \in Range(users) THEN "running" ELSE "none"]

ListUsers ==
  /\ pc = "list" /\ ListId \notin spent
  /\ user_page_attempt' = 0
  /\ LET users == Within(Listing[ListPage], Valid) IN
     \/ /\ mode = "ordinary"
        /\ active' = users
        /\ result' = Running(users)
        /\ pc' = "join"
        /\ UNCHANGED <<user_cursor, exhausted, buffered>>
     \/ /\ mode = "round"
        /\ buffered' = buffered \o users
        /\ user_cursor' = NextUserCursor
        /\ exhausted' = (NextUserCursor = None)
        /\ pc' = "refill"
        /\ UNCHANGED <<active, result>>
  /\ UNCHANGED <<mode, spent, count, fresh, countVars, remediationVars, userVars, suggested,
                 status, moved>>

\* A denied permit is raised as a RuntimeError: the root reports FAILED, but only
\* its task fails, again and again, and the root stays open.
ListDenied ==
  /\ pc = "list" /\ ListId \notin spent
  /\ pc' = "denied"
  /\ status' = "failed"
  /\ UNCHANGED <<mode, listVars, batchVars, countVars, remediationVars, userVars, suggested, moved>>

\* The Activity answers that the quota is exhausted.
AnsweredExhausted == pc = "list" /\ ListId \notin spent /\ Cardinality(spent) < MaxExhausted

\* Then the same page is asked for under the next attempt, in
\* a new run if Continue-As-New is suggested.  That run is started at once.
\* Mutant: the new run starts with the attempt that has ended.
ForgetfulListExhausted ==
  /\ AnsweredExhausted
  /\ spent' = spent \cup {ListId}
  /\ user_page_attempt' = IF suggested THEN user_page_attempt ELSE user_page_attempt + 1
  /\ IF suggested THEN NewRun ELSE UNCHANGED <<pc, fresh, suggested, active_remediations>>
  /\ UNCHANGED <<mode, user_cursor, exhausted, active, buffered, count, result, countVars,
                 remediation, phase, handed, failed_remediated, userVars, status, moved>>
ListExhausted ==
  /\ AnsweredExhausted
  /\ spent' = spent \cup {ListId}
  /\ user_page_attempt' = user_page_attempt + 1
  /\ IF suggested THEN NewRun ELSE UNCHANGED <<pc, fresh, suggested, active_remediations>>
  /\ UNCHANGED <<mode, user_cursor, exhausted, active, buffered, count, result, countVars,
                 remediation, phase, handed, failed_remediated, userVars, status, moved>>

\* _refill_round_users between two listings, and what follows it: the barrier
\* after a round, the next round, or the end.
\* Mutant: the users beyond the window are dropped.
DropBeyond(n) == <<>>
KeepBeyond(n) == SubSeq(buffered, n + 1, Len(buffered))

Refill ==
  /\ pc = "refill"
  /\ LET window == AtLeastOne(UserWindow)
         room == window - Len(active)
         n == IF room < 0 THEN 0 ELSE IF room < Len(buffered) THEN room ELSE Len(buffered)
     IN
     /\ active' = active \o SubSeq(buffered, 1, n)
     /\ buffered' = KeepBeyond(n)
     /\ IF Len(active') < window /\ ~exhausted
        THEN pc' = "list" /\ UNCHANGED result
        ELSE IF suggested /\ ~fresh /\ (active' # <<>> \/ buffered' # <<>> \/ ~exhausted)
        THEN pc' = "drain" /\ UNCHANGED result
        ELSE IF active' # <<>>
        THEN pc' = "join" /\ result' = Running(active')
        ELSE pc' = "finish" /\ UNCHANGED result
  /\ UNCHANGED <<mode, listVars, count, fresh, countVars, remediationVars, userVars, suggested,
                 status, moved>>

-----------------------------------------------------------------------------
\* A user sync of the batch ends.  A failed user is started afresh by its
\* remediation, so only what that settles counts for it.
PageLimit == IF mode = "round" THEN AtLeastOne(SliceSize) ELSE None

Settle(u, limit, outcome, failure) ==
  settled' = [settled EXCEPT ![u] =
    IF failure THEN {} ELSE IF moved THEN @ ELSE @ \cup SettledBy(user[u], limit, outcome)]

UserEnds(u) ==
  /\ pc = "join" /\ result[u] = "running"
  /\ \E outcome \in Outcomes(user[u], PageLimit) :
       LET r == UserResult(user[u], outcome)
           failure == r.errors \/ (mode = "ordinary" /\ ~r.finished)
       IN
       /\ result' = [result EXCEPT ![u] =
            IF failure THEN "failed" ELSE IF r.finished THEN "finished" ELSE "unfinished"]
       /\ user' = [user EXCEPT ![u] = IF failure THEN FreshUser ELSE r.user]
       /\ Settle(u, PageLimit, outcome, failure)
  /\ UNCHANGED <<mode, pc, listVars, active, buffered, count, fresh, countVars, remediationVars,
                 suggested, status, moved>>

With(verdict) == {u \in Range(active) : result[u] = verdict}

\* The whole batch is joined before it is looked at.
Join ==
  /\ pc = "join" /\ With("running") = {}
  /\ users_completed' = users_completed + Cardinality(With("finished"))
  /\ users_failed' = users_failed + Cardinality(With("failed"))
  /\ failed' = failed \o Within(active, With("failed"))
  /\ synced' = synced \cup With("finished")
  /\ fresh' = FALSE
  /\ pc' = IF With("failed") = {} THEN "advance" ELSE "remediate"
  /\ UNCHANGED <<mode, listVars, active, buffered, count, result, remediationVars, userVars,
                 suggested, status, moved>>

NextBatch ==
  /\ count' = count + 1
  /\ active' = Within(active, With("unfinished"))
  /\ result' = [u \in User |-> "none"]
  /\ UNCHANGED <<mode, user_page_attempt, exhausted, spent, buffered, fresh, countVars,
                 remediationVars, userVars, suggested, status, moved>>

\* The next page of users.
NextPage ==
  /\ pc = "advance" /\ mode = "ordinary"
  /\ NextBatch
  /\ user_cursor' = NextUserCursor
  /\ pc' = IF NextUserCursor = None THEN "finish" ELSE IF suggested THEN "drain" ELSE "list"

\* The next round, with the users that are not finished.
NextRound ==
  /\ pc = "advance" /\ mode = "round"
  /\ NextBatch
  /\ pc' = "refill"
  /\ UNCHANGED user_cursor

-----------------------------------------------------------------------------
Sample(keys) == SubSeq(keys, 1, IF Len(keys) < SampleLimit THEN Len(keys) ELSE SampleLimit)

\* _start_remediation, after _drain_remediations has made room.  Of the users of
\* an older input round mode hands over no more than a sample holds.
FailedUsers ==
  IF pc # "carried" THEN Within(active, With("failed"))
  ELSE IF mode = "round" THEN Sample(failed) ELSE failed
Partition == <<IF pc = "carried" THEN "legacy" ELSE "batch", count>>
FirstBatch(keys) == SubSeq(keys, 1, IF Len(keys) < BatchSize THEN Len(keys) ELSE BatchSize)
Activating(keys) ==
  [u \in User |-> IF u \in Range(FirstBatch(keys)) THEN "recent" ELSE phase[u]]

NewRemediation ==
  [users |-> Range(FailedUsers), keys |-> FailedUsers, errors |-> FALSE, status |-> "running"]

\* Mutant: that the failed users are taken care of is not recorded.
Unrecorded == failed_remediated
Recorded == TRUE

StartRemediation ==
  /\ pc \in {"carried", "remediate"}
  /\ Cardinality(active_remediations) < MaxActiveRemediations
  /\ remediation' = [id \in DOMAIN remediation \cup {Partition} |->
       IF id = Partition THEN NewRemediation ELSE remediation[id]]
  /\ handed' = [u \in User |-> handed[u] + IF u \in Range(FailedUsers) THEN 1 ELSE 0]
  /\ phase' = Activating(FailedUsers)
  /\ active_remediations' = active_remediations \cup {Partition}
  /\ failed_remediated' = Recorded
  /\ pc' = IF pc = "carried" THEN Begin ELSE "advance"
  /\ UNCHANGED <<mode, listVars, batchVars, countVars, userVars, suggested, status, moved>>

Ended == {id \in DOMAIN remediation : remediation[id].status # "running"}

Drain ==
  /\ \/ pc \in {"carried", "remediate"} /\ Cardinality(active_remediations) >= MaxActiveRemediations
     \/ pc = "drain"
  /\ active_remediations \cap Ended # {}
  /\ active_remediations' = active_remediations \ Ended
  /\ UNCHANGED <<mode, pc, listVars, batchVars, countVars, remediation, phase, handed,
                 failed_remediated, userVars, suggested, status, moved>>

ContinueAsNew ==
  /\ pc = "drain" /\ active_remediations = {}
  /\ NewRun
  /\ user_page_attempt' = 0
  /\ UNCHANGED <<mode, user_cursor, exhausted, spent, active, buffered, count, result, countVars,
                 remediation, phase, handed, failed_remediated, userVars, status, moved>>

\* The root reports and closes, and what it kept in memory is gone.
Close(verdict) ==
  /\ status' = verdict
  /\ pc' = "closed"
  /\ user_cursor' = None /\ user_page_attempt' = 0 /\ exhausted' = FALSE /\ spent' = {}
  /\ active' = <<>> /\ buffered' = <<>> /\ fresh' = TRUE /\ suggested' = FALSE
  /\ result' = [u \in User |-> "none"]
  /\ user' = [u \in User |-> IF handed[u] > 0 THEN user[u] ELSE FreshUser]
  /\ active_remediations' = {}
  /\ UNCHANGED <<mode, remediation, phase, handed, failed_remediated, moved>>

Finish ==
  /\ pc = "finish"
  /\ Close(IF users_failed > 0 THEN "partial" ELSE "succeeded")
  /\ UNCHANGED <<count, countVars, settled>>

\* The registration of a remediation that was just started is awaited.
Registering ==
  \/ pc = "advance" /\ With("failed") # {}
  \/ /\ pc = "refill" /\ user_cursor = None /\ ~exhausted
     /\ <<"legacy", count>> \in active_remediations

\* An exception: a listing failed for good, or a remediation could not be
\* started or registered (it is abandoned: to cancel its handle does not reach
\* it).  Or the root is cancelled in an await, and its user syncs with it; one
\* that was denied a permit has reported FAILED before, and the cancellation may
\* or may not get through to it.
Abort ==
  /\ \/ /\ pc \in {"list", "denied", "carried", "remediate"} \/ Registering
        /\ Close("failed")
     \/ /\ pc \in {"list", "join", "carried", "remediate", "drain"} \/ Registering
        /\ Close("canceled")
  /\ count' = 0 /\ users_completed' = 0 /\ users_failed' = 0
  /\ failed' = <<>> /\ synced' = {}
  /\ settled' = [u \in User |-> IF handed[u] > 0 THEN settled[u] ELSE {}]

-----------------------------------------------------------------------------
\* Mutant: a batch forgets the errors of the batches before it.
ErrorsOfBatch(id, batch) == \E u \in batch : phase[u] = "failed"
ErrorsSoFar(id, batch) == remediation[id].errors \/ \E u \in batch : phase[u] = "failed"

\* FailedUserRemediationWorkflow: batches of ActivateUserWorkflows.  A
\* remediation that continues as new takes the keys it has left with it.
RemediationJoins(id) ==
  /\ remediation[id].status = "running"
  /\ LET keys == remediation[id].keys
         batch == Range(FirstBatch(keys))
         rest == SubSeq(keys, Len(FirstBatch(keys)) + 1, Len(keys))
         errors == ErrorsSoFar(id, batch)
     IN
     /\ \A u \in batch : phase[u] \in {"activated", "failed"}
     /\ remediation' = [remediation EXCEPT ![id] =
          [users |-> remediation[id].users, keys |-> rest, errors |-> errors,
           status |-> IF rest # <<>> THEN "running" ELSE IF errors THEN "failed" ELSE "completed"]]
     /\ phase' = Activating(rest)
  /\ UNCHANGED <<mode, pc, listVars, batchVars, countVars, handed, active_remediations,
                 failed_remediated, userVars, suggested, status, moved>>

CancelRemediation(id) ==
  /\ remediation[id].status = "running"
  /\ remediation' = [remediation EXCEPT ![id] =
       [users |-> remediation[id].users, keys |-> <<>>, errors |-> remediation[id].errors,
        status |-> "canceled"]]
  /\ phase' = [u \in User |->
       IF u \in remediation[id].users /\ phase[u] # "activated" THEN "failed" ELSE phase[u]]
  /\ UNCHANGED <<mode, pc, listVars, batchVars, countVars, handed, active_remediations,
                 failed_remediated, userVars, suggested, status, moved>>

\* ActivateUserWorkflow: two waves, each a user sync followed by a fenced
\* Activity, which validates the generation after the first and activates the
\* user after the second.  An error, a rejection or a failed call ends it; that
\* the generation moves between the two steps is one of the ways to fail.
Wave(u, limit, next) ==
  /\ \E outcome \in Outcomes(user[u], limit) :
       LET r == UserResult(user[u], outcome) IN
       \E verdict \in IF r.errors \/ moved THEN {"failed"} ELSE {"failed", next} :
         /\ phase' = [phase EXCEPT ![u] = verdict]
         /\ user' = [user EXCEPT ![u] = IF verdict = "failed" THEN FreshUser ELSE r.user]
         /\ Settle(u, limit, outcome, verdict = "failed")
  /\ UNCHANGED <<mode, pc, listVars, batchVars, countVars, remediation, handed,
                 active_remediations, failed_remediated, suggested, status, moved>>

Recent(u) == phase[u] = "recent" /\ Wave(u, AtLeastOne(RecentCap), "backfill")
Backfill(u) == phase[u] = "backfill" /\ Wave(u, None, "activated")
ActivationStep(u) == Recent(u) \/ Backfill(u)

\* The store is deactivated: its generation moves, and what was settled before
\* counts for nothing.
Move ==
  /\ ~moved
  /\ moved' = TRUE
  /\ settled' = [u \in User |-> IF phase[u] = "activated" THEN settled[u] ELSE {}]
  /\ UNCHANGED <<mode, pc, listVars, batchVars, countVars, remediationVars, user, suggested,
                 status>>

-----------------------------------------------------------------------------
Step ==
  \/ Start \/ Refill \/ Join \/ NextPage \/ NextRound
  \/ StartRemediation \/ Drain \/ ContinueAsNew \/ Finish
Progress == Step \/ \E id \in DOMAIN remediation : RemediationJoins(id)

Next ==
  \/ Progress \/ ListUsers \/ ListExhausted \/ ListDenied \/ Abort \/ Suggest \/ Move
  \/ \E u \in User : UserEnds(u) \/ ActivationStep(u)
  \/ \E id \in DOMAIN remediation : CancelRemediation(id)

\* Deadlock is checked: only a closed root with no open remediation may stop.
Closed == pc = "closed" /\ Ended = DOMAIN remediation /\ UNCHANGED vars

Spec == Init /\ [][Next \/ Closed]_vars

\* Temporal drives the Workflows: as long as a root or a remediation can go on,
\* one does.  That a permit is answered, and that a user sync ends, is not
\* assumed: a pass that was denied a permit never ends.
FairSpec == Spec /\ WF_vars(Progress)

-----------------------------------------------------------------------------
RootTypeOK ==
  /\ mode \in {"ordinary", "round"}
  /\ pc \in {"start", "carried", "list", "denied", "refill", "join", "advance", "remediate",
             "drain", "finish", "closed"}
  /\ user_cursor \in {None} \cup 2..Len(Listing)
  /\ user_page_attempt \in 0..MaxExhausted
  /\ {Range(active), Range(buffered), Range(failed), synced} \subseteq SUBSET User
  /\ count \in Nat /\ users_completed \in 0..Cardinality(User) /\ users_failed \in 0..Cardinality(User)
  /\ active_remediations \subseteq DOMAIN remediation
  /\ DOMAIN remediation \subseteq {"legacy", "batch"} \X Nat
  /\ \A id \in DOMAIN remediation :
       remediation[id].status \in {"running", "completed", "failed", "canceled"}
  /\ result \in [User -> {"none", "running", "finished", "unfinished", "failed"}]
  /\ phase \in [User -> {"none", "recent", "backfill", "activated", "failed"}]
  /\ status \in {"running", "succeeded", "partial", "failed", "canceled"}
  /\ \A u \in User : settled[u] \subseteq EveryPage

\* The users of an older input that round mode cuts off: a sample holds no more.
CutOff == IF mode = "round" THEN Range(Carried) \ Range(Sample(Carried)) ELSE {}

\* Through pages and rounds, both kinds of Continue-As-New and the users of an
\* older input: no user is handed to two remediations, or to one and counted as
\* synced as well; and a root that completes has synced or handed over every
\* valid user the provider listed and every user of an older input that was not
\* cut off, and reports exactly the numbers of the listed ones.
EveryUserAccounted ==
  /\ \A u \in User : handed[u] <= 1 /\ ~(u \in synced /\ handed[u] = 1)
  /\ status \in {"succeeded", "partial"} =>
       /\ \A u \in (Listed \cup Range(failed)) \ CutOff : u \in synced \/ handed[u] = 1
       /\ users_completed = Cardinality(synced)
       /\ users_completed + users_failed = Cardinality(Listed)

\* A user counts as synced, and is activated, only when every page of every
\* resource has been settled for it, over however many rounds, resumed cursors
\* and waves (STALE_GENERATION pages settle nothing: then the generation has
\* moved, and the user is not activated any more).
NothingSkipped ==
  \A u \in User :
    /\ phase[u] = "activated" => settled[u] = EveryPage
    /\ u \in synced /\ ~moved => settled[u] = EveryPage

\* A remediation reports COMPLETED only when it has activated all its users, also
\* those of the runs before it continued as new.
CompletedRemediationActivatedAll ==
  \A id \in DOMAIN remediation :
    remediation[id].status = "completed" => \A u \in remediation[id].users : phase[u] = "activated"

\* The root has ended, or was denied a permit, or waits for somebody else: for
\* the answer to a permit request under a fresh id, for a user sync that has not
\* ended, or for remediations none of which has ended.
Full == Cardinality(active_remediations) >= MaxActiveRemediations
RootRests ==
  \/ pc \in {"closed", "denied"}
  \/ pc = "list" /\ ListId \notin spent
  \/ pc = "join" /\ With("running") # {}
  \/ /\ pc = "drain" \/ (pc \in {"carried", "remediate"} /\ Full)
     /\ active_remediations # {} /\ active_remediations \cap Ended = {}

\* A remediation has ended, or waits for a user of its batch.
RemediationRests(id) ==
  \/ id \in Ended
  \/ \E u \in Range(FirstBatch(remediation[id].keys)) : phase[u] \in {"recent", "backfill"}

\* Every root and every remediation it has started ends, or comes to rest only
\* where somebody else owes it an answer: no rollover, retry, drain or batch
\* leaves it waiting for what has happened already or will never happen.
EverythingEnds == <>[](RootRests /\ \A id \in DOMAIN remediation : RemediationRests(id))
=============================================================================
