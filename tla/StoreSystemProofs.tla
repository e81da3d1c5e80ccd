------------------------- MODULE StoreSystemProofs -------------------------
(***************************************************************************)
(* The store implements the abstract lifecycle, for any number of syncs,    *)
(* remediations, commands and contents.                                     *)
(*                                                                          *)
(* The argument: the lifecycle never returns to a live state, so no write   *)
(* is accepted after the fence; what a cleanup step removed is therefore    *)
(* still gone when the next one runs, and an attempt to mark the store      *)
(* inactive, however late it is, was only ever issued for an empty store.   *)
(***************************************************************************)
EXTENDS StoreSystem, TLAPS

\* The record is past its fence.
IsFenced == lifecycle_state \notin {"active", "syncing"}

NoUsers == active_users = {}
Empty == active_users = {} /\ documents = {} /\ retrieval_state = {}

\* The phases the deactivation reaches only with its fence committed.
AfterFence == {"signaling_fence", "canceling", "invalidating", "draining",
               "cleaning_users", "removing_objects", "marking_inactive",
               "marking_failed"}

\* An attempt to mark the store inactive has been issued.
InactiveIssued ==
  phase = "marking_inactive" \/ \E c \in attempts : c.op = "mark_inactive"

\* The inductive invariant.
FenceInv ==
  /\ phase \in AfterFence => IsFenced
  /\ phase = "removing_objects" => NoUsers
  /\ InactiveIssued => IsFenced /\ Empty
  /\ lifecycle_state = "inactive" => Empty

-----------------------------------------------------------------------------
(* What one attempt does to the record *)

\* An attempt of any call keeps the fence up, never adds to a fenced store, and
\* leaves the store inactive only if it was or the call says so.
LEMMA CommitKeepsFence ==
  ASSUME NEW c, Commit(c)
  PROVE  /\ IsFenced => IsFenced'
         /\ active_users' \subseteq active_users
         /\ documents' \subseteq documents
         /\ retrieval_state' \subseteq retrieval_state
         /\ lifecycle_state' = "inactive" =>
              lifecycle_state = "inactive" \/ c.op = "mark_inactive"
<1>1. CASE ~Accepted(c)
  BY <1>1 DEF Commit, recordVars, IsFenced
<1>2. CASE Accepted(c) /\ c.op = "begin"
  BY <1>2 DEF Commit, Accepted, Begun, Writable, BeginDeactivation, recordVars,
              contentVars, IsFenced
<1>3. CASE Accepted(c) /\ c.op # "begin"
  BY <1>3 DEF Commit, Accepted, MoveTo, DeactivateUsers, RemoveAllObjects,
              contentVars, IsFenced
<1> QED BY <1>1, <1>2, <1>3

\* The same attempt as a step of the abstract lifecycle, given that a store is
\* only marked inactive when it is empty.
LEMMA CommitImplementsPromise ==
  ASSUME NEW c, Commit(c),
         c.op = "mark_inactive" => Empty,
         lifecycle_state = "inactive" => Empty
  PROVE  [Promise!Next]_<<Fence, Contents>>
<1>0. USE DEF contentVars, recordVars
<1>1. CASE UNCHANGED recordVars
  BY <1>1 DEF Fence, Contents
<1>2. CASE c.op = "begin" /\ Writable(c.generation) /\ ~Begun(c.generation) /\ Accepted(c)
  <2>1. Fence = "open" /\ Fence' = "fenced"
    BY <1>2 DEF Commit, BeginDeactivation, Writable, Fence
  <2>2. Contents' = Contents
    BY <1>2 DEF Commit, BeginDeactivation, Contents
  <2> QED BY <2>1, <2>2 DEF Promise!Next, Promise!Fence
<1>3. CASE Accepted(c) /\ c.op \in {"resume", "mark_failed"}
  BY <1>3 DEF Commit, Accepted, MoveTo, Fence, Contents
<1>4. CASE Accepted(c) /\ c.op \in {"deactivate_users", "remove_objects"}
  <2>1. Fence = "fenced" /\ Fence' = "fenced"
    BY <1>4 DEF Commit, Accepted, DeactivateUsers, RemoveAllObjects, Fence
  <2>2. /\ active_users' \subseteq active_users
        /\ documents' \subseteq documents
        /\ retrieval_state' \subseteq retrieval_state
    BY CommitKeepsFence
  <2>3. Contents' \subseteq Contents
    BY <2>2 DEF Contents
  <2> QED BY <2>1, <2>3 DEF Promise!Next, Promise!CleanUp
<1>5. CASE Accepted(c) /\ c.op = "mark_inactive"
  <2>1. Contents = {} /\ Contents' = Contents
    BY <1>5 DEF Commit, MoveTo, Empty, Contents
  <2>2. Fence' = "closed" /\ Fence \in {"fenced", "closed"}
    BY <1>5 DEF Commit, Accepted, MoveTo, Fence
  <2> QED BY <2>1, <2>2 DEF Promise!Next, Promise!Close
<1> QED
  BY <1>1, <1>2, <1>3, <1>4, <1>5 DEF Commit, Accepted, BeginDeactivation

-----------------------------------------------------------------------------
(* The invariant *)

\* The record and the deactivation's own variables, all the invariant is about.
fenceVars == <<recordVars, phase, attempts>>

\* A step that leaves them alone keeps the invariant.
LEMMA UnchangedFence ==
  ASSUME FenceInv, UNCHANGED fenceVars
  PROVE  FenceInv'
BY DEF FenceInv, fenceVars, recordVars, IsFenced, NoUsers, Empty, InactiveIssued

\* A step of a call or a late attempt keeps what is true of a fenced store.
LEMMA FencedStays ==
  ASSUME FenceInv, NEW c, Commit(c), c.op = "mark_inactive" => InactiveIssued
  PROVE  /\ IsFenced => IsFenced'
         /\ NoUsers => NoUsers'
         /\ Empty => Empty'
         /\ lifecycle_state' = "inactive" => Empty'
BY CommitKeepsFence DEF FenceInv, NoUsers, Empty

\* What the workflow learns from a call that succeeded.
LEMMA CallEstablishes ==
  ASSUME phase \in Calling, Accepted(Call), Commit(Call)
  PROVE  /\ IsFenced'
         /\ phase = "cleaning_users" => NoUsers'
         /\ phase = "removing_objects" /\ NoUsers => Empty'
<1>1. CASE phase = "fencing"
  BY <1>1 DEF Call, Commit, Accepted, Begun, BeginDeactivation, MoveTo, recordVars,
              IsFenced
<1>2. CASE phase \in {"cleaning_users", "removing_objects"}
  BY <1>2 DEF Call, Commit, Accepted, DeactivateUsers, RemoveAllObjects, IsFenced,
              NoUsers, Empty
<1>3. CASE phase \in {"marking_inactive", "marking_failed"}
  BY <1>3 DEF Call, Commit, Accepted, MoveTo, IsFenced
<1> QED BY <1>1, <1>2, <1>3 DEF Calling

\* Every step keeps the invariant.
LEMMA FenceStep ==
  ASSUME FenceInv, [Next]_vars
  PROVE  FenceInv'
<1>1. CASE CallSucceeds
  <2>1. Call.op = "mark_inactive" => InactiveIssued
    BY <1>1 DEF CallSucceeds, Calling, Call, InactiveIssued
  <2>2. Accepted(Call) /\ Commit(Call) /\ phase \in Calling /\ phase # "marking_failed"
    BY <1>1 DEF CallSucceeds
  <2>3. phase' = NextPhase(phase) /\ attempts' = attempts \cup {Call}
    BY <1>1 DEF CallSucceeds
  <2>4. IsFenced'
    BY <2>2, CallEstablishes
  <2>5. lifecycle_state' = "inactive" => Empty'
    BY <2>1, <2>2, FencedStays
  <2>6. phase' = "removing_objects" => NoUsers'
    BY <2>2, <2>3, CallEstablishes DEF NextPhase, Calling
  <2>7. InactiveIssued' => Empty'
    <3>1. phase' = "marking_inactive" => Empty'
      BY <2>2, <2>3, CallEstablishes DEF NextPhase, Calling, FenceInv
    <3>2. InactiveIssued => Empty'
      BY <2>1, <2>2, FencedStays DEF FenceInv
    <3> QED BY <2>1, <2>3, <3>1, <3>2 DEF InactiveIssued
  <2> QED BY <2>4, <2>5, <2>6, <2>7 DEF FenceInv
<1>2. CASE CallFails
  <2>1. Call.op = "mark_inactive" => phase = "marking_inactive"
    BY <1>2 DEF CallFails, Calling, Call
  <2>2. InactiveIssued' => InactiveIssued
    BY <1>2, <2>1 DEF CallFails, InactiveIssued
  <2> QED
    BY <1>2, <2>2 DEF CallFails, Calling, FenceInv, AfterFence, recordVars, IsFenced,
                      NoUsers, Empty
<1>3. CASE MarkFailed
  <2>1. Call.op = "mark_failed" /\ phase = "marking_failed" /\ phase' = "reporting"
        /\ attempts' = attempts \cup {Call}
    BY <1>3 DEF MarkFailed, Call
  <2>2. InactiveIssued' => InactiveIssued
    BY <2>1 DEF InactiveIssued
  <2>3. CASE Commit(Call)
    BY <2>1, <2>2, <2>3, FencedStays DEF FenceInv, AfterFence
  <2>4. CASE UNCHANGED recordVars
    BY <2>1, <2>2, <2>4 DEF FenceInv, AfterFence, recordVars, IsFenced, Empty
  <2> QED BY <1>3, <2>3, <2>4 DEF MarkFailed
<1>4. CASE LateAttempt
  <2>1. PICK c \in attempts \cup (IF phase \in Calling THEN {Call} ELSE {}) : Commit(c)
    BY <1>4 DEF LateAttempt
  <2>2. c.op = "mark_inactive" => InactiveIssued
    BY <2>1 DEF InactiveIssued, Call, Calling
  <2>3. phase' = phase /\ attempts' = attempts
    BY <1>4 DEF LateAttempt, deactivationVars
  <2>4. InactiveIssued' <=> InactiveIssued
    BY <2>3 DEF InactiveIssued
  <2> QED BY <2>1, <2>2, <2>3, <2>4, FencedStays DEF FenceInv
<1>5. CASE OperationWrites
  <2>1. ~IsFenced /\ lifecycle_state' = lifecycle_state
    BY <1>5 DEF OperationWrites, RetrievalWrite, Writable, IsFenced
  <2>2. phase' = phase /\ attempts' = attempts
    BY <1>5 DEF OperationWrites, deactivationVars
  <2> QED BY <2>1, <2>2 DEF FenceInv, IsFenced, InactiveIssued, AfterFence
<1>6. CASE StartDeactivation
  <2>1. UNCHANGED recordVars /\ attempts' = attempts
    BY <1>6 DEF StartDeactivation, Take
  <2>2. phase' \in {phase, "fencing"}
    BY <1>6 DEF StartDeactivation
  <2> QED
    BY <2>1, <2>2 DEF FenceInv, recordVars, IsFenced, NoUsers, Empty,
                      InactiveIssued, AfterFence
<1>7. CASE SignalFence \/ CancelOwnedWork \/ InvalidateQuota \/ Drain \/ ReportTerminal
  <2>1. UNCHANGED recordVars /\ attempts' = attempts
    BY <1>7 DEF SignalFence, CancelOwnedWork, InvalidateQuota, Drain, ReportTerminal
  <2>2. phase' \notin {"removing_objects", "marking_inactive"}
        /\ (phase' \in AfterFence => phase \in AfterFence)
    BY <1>7 DEF SignalFence, CancelOwnedWork, InvalidateQuota, Drain, ReportTerminal,
                AfterFence
  <2> QED
    BY <2>1, <2>2 DEF FenceInv, recordVars, IsFenced, Empty, InactiveIssued
<1>8. CASE \/ \E op \in working : \/ \E r \in RemediationsOf(op) : StartRemediation(op, r)
                                  \/ SyncEnds(op) \/ RemediationEnds(op)
           \/ \E r \in registration.pending : RegisterRemediation(r)
  BY <1>8, UnchangedFence DEF StartRemediation, SyncEnds, RemediationEnds,
       RegisterRemediation, fenceVars, deactivationVars
<1>9. CASE (\E c \in ClientCommand : SendCommand(c)) \/ AuthorityLost
           \/ ControllerContinueAsNew \/ ReadAuthority \/ AssignAuthority
  BY <1>9, UnchangedFence DEF SendCommand, AuthorityLost, ControllerContinueAsNew,
       ReadAuthority, AssignAuthority, fenceVars, deactivationVars
<1>10. CASE RequestSync \/ CancelSync \/ OperationStatus \/ RemediationStarted
            \/ DeactivationFenced
  BY <1>10, UnchangedFence DEF RequestSync, CancelSync, OperationStatus,
       RemediationStarted, DeactivationFenced, Take, fenceVars, deactivationVars
<1>11. CASE UNCHANGED vars
  BY <1>11, UnchangedFence DEF vars, fenceVars, deactivationVars
<1> QED
  BY <1>1, <1>2, <1>3, <1>4, <1>5, <1>6, <1>7, <1>8, <1>9, <1>10, <1>11
  DEF Next, Operations, Clients, Controller, Deactivation

\* Every behaviour keeps the invariant.
THEOREM FenceInvariant == Spec => []FenceInv
<1>1. Init => FenceInv
  BY DEF Init, RecordInit, DeactivationInit, FenceInv, AfterFence, InactiveIssued
<1>2. FenceInv /\ [Next]_vars => FenceInv'
  BY FenceStep
<1> QED BY <1>1, <1>2, PTL DEF Spec

\* Every step of the store is a step of the abstract lifecycle or changes
\* neither the fence nor the contents.
LEMMA StepImplementsPromise ==
  ASSUME FenceInv, [Next]_vars
  PROVE  [Promise!Next]_<<Fence, Contents>>
<1>1. CASE UNCHANGED recordVars
  BY <1>1 DEF recordVars, Fence, Contents
<1>2. ASSUME NEW c, Commit(c), c.op = "mark_inactive" => InactiveIssued
      PROVE  [Promise!Next]_<<Fence, Contents>>
  BY <1>2, CommitImplementsPromise DEF FenceInv
<1>3. CASE CallSucceeds
  <2>1. Commit(Call) /\ (Call.op = "mark_inactive" => InactiveIssued)
    BY <1>3 DEF CallSucceeds, Calling, Call, InactiveIssued
  <2> QED BY <1>2, <2>1
<1>4. CASE MarkFailed
  <2>1. Call.op = "mark_failed"
    BY <1>4 DEF MarkFailed, Call
  <2>2. CASE Commit(Call)
    BY <1>2, <2>1, <2>2
  <2> QED BY <1>1, <1>4, <2>2 DEF MarkFailed
<1>5. CASE LateAttempt
  <2>1. PICK c \in attempts \cup (IF phase \in Calling THEN {Call} ELSE {}) : Commit(c)
    BY <1>5 DEF LateAttempt
  <2>2. c.op = "mark_inactive" => InactiveIssued
    BY <2>1 DEF InactiveIssued, Call, Calling
  <2> QED BY <1>2, <2>1, <2>2
<1>6. CASE OperationWrites
  <2>1. Fence = "open" /\ Fence' = Fence
    BY <1>6 DEF OperationWrites, RetrievalWrite, Writable, Fence
  <2> QED BY <2>1 DEF Promise!Next, Promise!Write
<1>7. CASE \/ SignalFence \/ CancelOwnedWork \/ InvalidateQuota \/ Drain
           \/ ReportTerminal \/ CallFails
  BY <1>1, <1>7 DEF SignalFence, CancelOwnedWork, InvalidateQuota, Drain,
       ReportTerminal, CallFails
<1>8. CASE \/ \E op \in working : \/ \E r \in RemediationsOf(op) : StartRemediation(op, r)
                                  \/ SyncEnds(op) \/ RemediationEnds(op)
           \/ \E r \in registration.pending : RegisterRemediation(r)
  BY <1>1, <1>8 DEF StartRemediation, SyncEnds, RemediationEnds, RegisterRemediation
<1>9. CASE (\E c \in ClientCommand : SendCommand(c)) \/ AuthorityLost
           \/ ControllerContinueAsNew \/ ReadAuthority \/ AssignAuthority
  BY <1>1, <1>9 DEF SendCommand, AuthorityLost, ControllerContinueAsNew,
       ReadAuthority, AssignAuthority
<1>10. CASE RequestSync \/ CancelSync \/ StartDeactivation \/ OperationStatus
            \/ RemediationStarted \/ DeactivationFenced
  BY <1>1, <1>10 DEF RequestSync, CancelSync, StartDeactivation, OperationStatus,
       RemediationStarted, DeactivationFenced, Take
<1>11. CASE UNCHANGED vars
  BY <1>1, <1>11 DEF vars
<1> QED
  BY <1>3, <1>4, <1>5, <1>6, <1>7, <1>8, <1>9, <1>10, <1>11
  DEF Next, Operations, Clients, Controller, Deactivation

\* The store implements the abstract lifecycle: "late Activity completion cannot
\* write into an inactive store", whatever attempts, retries and resumed
\* deactivations do.
THEOREM StoreIsFenced == Spec => FencedLifecycle
<1>1. Init => Promise!Init
  BY DEF Init, RecordInit, Promise!Init, Fence, Contents
<1>2. FenceInv /\ [Next]_vars => [Promise!Next]_<<Fence, Contents>>
  BY StepImplementsPromise
<1> QED BY <1>1, <1>2, FenceInvariant, PTL DEF Spec, FencedLifecycle, Promise!Spec
=============================================================================
