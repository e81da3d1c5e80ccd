-------------------------- MODULE StoreTypeProofs --------------------------
(***************************************************************************)
(* Type correctness of the store, for every value of the constants.  Each   *)
(* part of TypeOK has a lemma of its own; the queue is the only sequence    *)
(* whose elements matter, and what its head may be follows from its kind.   *)
(***************************************************************************)
EXTENDS StoreSystem, ListsProofs

\* What the loop takes from the queue, by kind.
LEMMA TakenMessage ==
  ASSUME TypeOK, NEW kind, Take(kind)
  PROVE  LET m == Head(commands)
         IN  /\ commands' \in Seq(Envelope)
             /\ m.kind = kind
             /\ kind = "request_sync" =>
                  m \in ClientCommand /\ m.generation \in Nat /\ m.sequence \in Sequence
             /\ kind = "cancel_sync" => m \in ClientCommand /\ m.operation \in Sync
             /\ kind = "start_deactivation" => m \in ClientCommand /\ m.generation \in Nat
             /\ kind = "remediation_started" => m.operation \in Remediation
             /\ kind = "deactivation_fenced" =>
                  m.operation \in Deactivating /\ m.generation \in Nat
             /\ kind \in {"operation_status", "remediation_finished"} =>
                  /\ m.operation \in Operation \cup Deactivating
                  /\ m.generation \in Nat
                  /\ m.result \in {"ended", "succeeded", "partial", "failed"}
<1> DEFINE m == Head(commands)
<1>1. commands \in Seq(Envelope) /\ commands # <<>>
  BY DEF TypeOK, ControllerTypeOK, Take
<1>2. m \in Envelope /\ Tail(commands) \in Seq(Envelope)
  BY <1>1, HeadTailProperties
<1>3. m.kind = kind /\ commands' = Tail(commands)
  BY DEF Take
<1> HIDE DEF m
<1>4. m \in ClientCommand =>
        \/ m.kind = "request_sync" /\ m.generation \in Nat /\ m.sequence \in Sequence
        \/ m.kind = "cancel_sync" /\ m.operation \in Sync
        \/ m.kind = "start_deactivation" /\ m.generation \in Nat
  BY ControllerAssumption DEF ControllerAssumption
<1>5. m \notin ClientCommand =>
        \/ m.kind = "remediation_started" /\ m.operation \in Remediation
        \/ m.kind = "deactivation_fenced" /\ m.operation \in Deactivating /\ m.generation \in Nat
        \/ /\ m.kind \in {"operation_status", "remediation_finished"}
           /\ m.operation \in Operation \cup Deactivating
           /\ m.generation \in Nat
           /\ m.result \in {"ended", "succeeded", "partial", "failed"}
  BY <1>2 DEF Envelope
<1> QED
  BY <1>2, <1>3, <1>4, <1>5 DEF m

\* A Signal keeps the type of the queue.
LEMMA SignalType ==
  ASSUME commands \in Seq(Envelope), NEW m \in Envelope, Signal(m)
  PROVE  commands' \in Seq(Envelope)
BY AppendProperties DEF Signal

\* Remembering a command keeps the window.
LEMMA RememberType ==
  ASSUME StateTypeOK, NEW c \in ClientCommand, Remember(c)
  PROVE  /\ recent_command_results' \in Seq({d.id : d \in ClientCommand})
         /\ Len(recent_command_results') <= CommandWindow
<1> DEFINE T == {d.id : d \in ClientCommand}
           s == Append(recent_command_results, c.id)
<1>1. c.id \in T /\ recent_command_results \in Seq(T)
  BY DEF StateTypeOK
<1>2. CommandWindow \in Nat
  BY ControllerAssumption DEF ControllerAssumption
<1> HIDE DEF T
<1>3. s \in Seq(T)
  BY <1>1, AppendProperties
<1>4. recent_command_results' = Newest(s, CommandWindow)
  BY DEF Remember
<1> HIDE DEF s
<1>5. recent_command_results' \in Seq(T) /\ Len(recent_command_results') <= CommandWindow
  BY <1>2, <1>3, <1>4, NewestProperties
<1> QED BY <1>5 DEF T

\* An attempt keeps the type of the record.
LEMMA CommitType ==
  ASSUME RecordTypeOK, NEW c, Commit(c)
  PROVE  RecordTypeOK'
<1>1. CASE ~Accepted(c) \/ (c.op = "begin" /\ Begun(c.generation))
  BY <1>1 DEF Commit, Accepted, BeginDeactivation, recordVars, RecordTypeOK
<1>2. CASE Accepted(c) /\ c.op = "begin" /\ ~Begun(c.generation)
  BY <1>2 DEF Commit, BeginDeactivation, contentVars, RecordTypeOK, LifecycleState
<1>3. CASE Accepted(c) /\ c.op # "begin"
  BY <1>3 DEF Commit, MoveTo, DeactivateUsers, RemoveAllObjects, contentVars,
              RecordTypeOK, LifecycleState
<1> QED BY <1>1, <1>2, <1>3

\* The call the workflow waits for is a lifecycle call.
LEMMA CallType ==
  ASSUME TypeOK, phase \in Calling
  PROVE  Call \in LifecycleCall
BY DEF TypeOK, DeactivationTypeOK, Calling, Call, LifecycleCall

-----------------------------------------------------------------------------
(* The steps *)

\* The steps of the controller keep every type.
LEMMA ControllerTypes ==
  ASSUME TypeOK,
         Controller \/ AuthorityLost \/ ControllerContinueAsNew
           \/ \E c \in ClientCommand : SendCommand(c)
  PROVE  TypeOK'
<1> USE DEF TypeOK
<1>1. ASSUME NEW c \in ClientCommand, SendCommand(c) PROVE TypeOK'
  <2>1. commands' \in Seq(Envelope)
    <3>1. c \in Envelope
      BY DEF Envelope
    <3> QED BY <1>1, <3>1, AppendProperties DEF SendCommand, ControllerTypeOK
  <2>2. known_generation' \in Nat
    <3>1. c.kind # "cancel_sync" => c.generation \in Nat
      BY ControllerAssumption DEF ControllerAssumption
    <3> QED BY <1>1, <3>1 DEF SendCommand, StateTypeOK
  <2>3. controller' = controller \/ (controller = "down" /\ controller' = "reading")
    BY <1>1 DEF SendCommand
  <2> QED
    BY <1>1, <2>1, <2>2, <2>3 DEF SendCommand, recordVars, operationVars,
         deactivationVars, RecordTypeOK, ControllerTypeOK, StateTypeOK,
         OperationTypeOK, DeactivationTypeOK
<1>2. CASE ReadAuthority \/ ControllerContinueAsNew
  BY <1>2 DEF ReadAuthority, ControllerContinueAsNew, recordVars, stateVars,
       operationVars, deactivationVars, RecordTypeOK, ControllerTypeOK, StateTypeOK,
       OperationTypeOK, DeactivationTypeOK
<1>3. CASE AuthorityLost
  <2>1. commands' \in Seq(Envelope) /\ recent_command_results' = <<>>
    BY <1>3 DEF AuthorityLost
  <2>2. /\ recent_command_results' \in Seq({c.id : c \in ClientCommand})
        /\ Len(recent_command_results') <= CommandWindow
    BY <2>1, ControllerAssumption DEF ControllerAssumption
  <2> QED
    BY <1>3, <2>1, <2>2 DEF AuthorityLost, recordVars, operationVars, deactivationVars,
       RecordTypeOK, ControllerTypeOK, StateTypeOK, OperationTypeOK,
       DeactivationTypeOK, LifecycleState
<1>4. CASE AssignAuthority
  <2>1. authority \in [state: LifecycleState, generation: Nat]
    BY <1>4 DEF AssignAuthority, ControllerTypeOK
  <2>2. known_generation' \in Nat /\ known_state' \in LifecycleState
    BY <1>4, <2>1 DEF AssignAuthority, LifecycleState
  <2> QED
    BY <1>4, <2>2 DEF AssignAuthority, recordVars, operationVars, deactivationVars,
       RecordTypeOK, ControllerTypeOK, StateTypeOK, OperationTypeOK, DeactivationTypeOK
<1>5. ASSUME NEW kind, Take(kind)
      PROVE  RecordTypeOK' /\ ControllerTypeOK'
  BY <1>5, TakenMessage DEF Take, recordVars, RecordTypeOK, ControllerTypeOK
<1>6. CASE RequestSync
  <2> DEFINE c == Head(commands)
             op == SyncId(c.generation, c.sequence)
  <2>1. c \in ClientCommand /\ op \in Sync /\ c.sequence \in Sequence
    BY <1>6, TakenMessage DEF RequestSync, SyncId, Sync
  <2>2. StateTypeOK'
    <3>1. {ScopeOf[c.sequence]} \ {None} \subseteq Scope
      BY <2>1, ControllerAssumption DEF ControllerAssumption
    <3> HIDE DEF c
    <3>2. CASE SyncAdmitted(c) /\ op \notin working
      <4>1. Remember(c) /\ active_syncs' = active_syncs \cup {op}
            /\ quota_workflow_ids' = quota_workflow_ids \cup ({ScopeOf[c.sequence]} \ {None})
            /\ known_state' = "syncing"
        BY <1>6, <3>2 DEF RequestSync, c
      <4>2. UNCHANGED <<known_generation, active_remediations, active_deactivation_id,
                        active_deactivation_fenced>>
        BY <1>6 DEF RequestSync
      <4> QED BY <2>1, <3>1, <4>1, <4>2, RememberType DEF StateTypeOK, LifecycleState
    <3>3. CASE ~(SyncAdmitted(c) /\ op \notin working)
      BY <1>6, <3>3 DEF RequestSync, StateTypeOK, c
    <3> QED BY <3>2, <3>3
  <2>3. OperationTypeOK'
    BY <1>6, <2>1 DEF RequestSync, OperationTypeOK, Operation
  <2>4. DeactivationTypeOK'
    BY <1>6 DEF RequestSync, deactivationVars, DeactivationTypeOK
  <2> QED BY <1>5, <1>6, <2>2, <2>3, <2>4 DEF RequestSync
<1>7. CASE CancelSync
  <2> DEFINE c == Head(commands)
  <2>1. c \in ClientCommand
    BY <1>7, TakenMessage DEF CancelSync
  <2>2. StateTypeOK'
    <3>1. Remember(c) \/ UNCHANGED recent_command_results
      BY <1>7 DEF CancelSync
    <3>2. /\ recent_command_results' \in Seq({d.id : d \in ClientCommand})
          /\ Len(recent_command_results') <= CommandWindow
      BY <2>1, <3>1, RememberType DEF StateTypeOK
    <3> QED BY <1>7, <3>2 DEF CancelSync, StateTypeOK
  <2>3. OperationTypeOK'
    <3>1. canceled' \subseteq working
      BY <1>7 DEF CancelSync, OperationTypeOK
    <3> QED BY <1>7, <3>1 DEF CancelSync, OperationTypeOK
  <2>4. DeactivationTypeOK'
    BY <1>7 DEF CancelSync, deactivationVars, DeactivationTypeOK
  <2> QED BY <1>5, <1>7, <2>2, <2>3, <2>4 DEF CancelSync
<1>8. CASE StartDeactivation
  <2> DEFINE c == Head(commands)
             resume == known_state \in {"deactivating", "deactivation_failed"}
             g == IF resume THEN known_generation ELSE known_generation + 1
             new == [generation |-> g, expected |-> c.generation, resume |-> resume,
                     owned |-> active_syncs \cup active_remediations,
                     scopes |-> quota_workflow_ids]
  <2>1. c \in ClientCommand /\ c.generation \in Nat /\ g \in Nat
    BY <1>8, TakenMessage DEF StartDeactivation, StateTypeOK
  <2>2. Remember(c) \/ UNCHANGED recent_command_results
    BY <1>8 DEF StartDeactivation
  <2>3. /\ recent_command_results' \in Seq({d.id : d \in ClientCommand})
        /\ Len(recent_command_results') <= CommandWindow
    BY <2>1, <2>2, RememberType DEF StateTypeOK
  <2>4. \/ /\ task' = new /\ phase' = "fencing" /\ active_deactivation_id' = g
           /\ active_deactivation_fenced' = resume /\ known_state' = "deactivating"
        \/ UNCHANGED <<task, phase, known_state, active_deactivation_id,
                       active_deactivation_fenced>>
    BY <1>8 DEF StartDeactivation
  <2>5. new \in [generation: Nat, expected: Nat, resume: BOOLEAN,
                 owned: SUBSET Operation, scopes: SUBSET Scope]
    BY <2>1 DEF StateTypeOK, Operation
  <2>6. g \in Nat /\ resume \in BOOLEAN
    BY <2>1
  <2> HIDE DEF new, g, resume
  <2>7. StateTypeOK'
    BY <1>8, <2>3, <2>4, <2>6 DEF StartDeactivation, StateTypeOK, LifecycleState
  <2>8. DeactivationTypeOK'
    BY <1>8, <2>4, <2>5 DEF StartDeactivation, DeactivationTypeOK, Phase
  <2>9. OperationTypeOK'
    BY <1>8 DEF StartDeactivation, operationVars, OperationTypeOK
  <2> QED BY <1>5, <1>8, <2>7, <2>8, <2>9 DEF StartDeactivation
<1>9. CASE OperationStatus
  <2> DEFINE e == Head(commands)
  <2>1. e.generation \in Nat /\ e.result \in {"ended", "succeeded", "partial", "failed"}
    BY <1>9, TakenMessage DEF OperationStatus
  <2> HIDE DEF e
  <2>2. drained' \subseteq Operation
    BY <1>9 DEF OperationStatus, StateTypeOK, DeactivationTypeOK, Operation, e
  <2>3. known_generation' \in Nat /\ known_state' \in LifecycleState
    BY <1>9, <2>1 DEF OperationStatus, StateTypeOK, LifecycleState,
         StateAfterDeactivation, e
  <2>4. active_syncs' \subseteq Sync /\ active_remediations' \subseteq Remediation
        /\ quota_workflow_ids' \subseteq Scope
    BY <1>9 DEF OperationStatus, StateTypeOK
  <2>5. active_deactivation_id' \in {active_deactivation_id, None}
        /\ active_deactivation_fenced' \in {active_deactivation_fenced, FALSE}
    BY <1>9 DEF OperationStatus
  <2>6. StateTypeOK'
    BY <1>9, <2>3, <2>4, <2>5 DEF OperationStatus, StateTypeOK
  <2>7. OperationTypeOK'
    BY <1>9 DEF OperationStatus, operationVars, OperationTypeOK
  <2>8. DeactivationTypeOK'
    BY <1>9, <2>2 DEF OperationStatus, DeactivationTypeOK
  <2> QED BY <1>5, <1>9, <2>6, <2>7, <2>8 DEF OperationStatus
<1>10. CASE RemediationStarted
  <2>1. Head(commands).operation \in Remediation
    BY <1>10, TakenMessage DEF RemediationStarted
  <2>2. StateTypeOK'
    BY <1>10, <2>1 DEF RemediationStarted, StateTypeOK, LifecycleState
  <2>3. OperationTypeOK'
    BY <1>10 DEF RemediationStarted, OperationTypeOK
  <2>4. DeactivationTypeOK'
    BY <1>10 DEF RemediationStarted, deactivationVars, DeactivationTypeOK
  <2> QED BY <1>5, <1>10, <2>2, <2>3, <2>4 DEF RemediationStarted
<1>11. CASE DeactivationFenced
  <2>1. Head(commands).generation \in Nat
    BY <1>11, TakenMessage DEF DeactivationFenced
  <2>2. StateTypeOK'
    BY <1>11, <2>1 DEF DeactivationFenced, StateTypeOK, LifecycleState
  <2>3. OperationTypeOK' /\ DeactivationTypeOK'
    BY <1>11 DEF DeactivationFenced, operationVars, OperationTypeOK, deactivationVars,
         DeactivationTypeOK
  <2> QED BY <1>5, <1>11, <2>2, <2>3 DEF DeactivationFenced
<1> QED
  BY <1>1, <1>2, <1>3, <1>4, <1>6, <1>7, <1>8, <1>9, <1>10, <1>11 DEF Controller

\* The steps of the deactivation, and late attempts, keep every type.
LEMMA DeactivationTypes ==
  ASSUME TypeOK, Deactivation \/ LateAttempt
  PROVE  TypeOK'
<1> USE DEF TypeOK
<1>1. CASE CallSucceeds
  <2>1. Call \in LifecycleCall
    BY <1>1, CallType DEF CallSucceeds
  <2>2. NextPhase(phase) \in Phase
    BY <1>1 DEF CallSucceeds, Calling, NextPhase, Phase
  <2>3. RecordTypeOK'
    BY <1>1, CommitType DEF CallSucceeds
  <2>4. DeactivationTypeOK'
    BY <1>1, <2>1, <2>2 DEF CallSucceeds, DeactivationTypeOK, othersUnchanged
  <2> QED
    BY <1>1, <2>3, <2>4 DEF CallSucceeds, othersUnchanged, stateVars, operationVars,
         ControllerTypeOK, StateTypeOK, OperationTypeOK
<1>2. CASE CallFails
  <2>1. Call \in LifecycleCall
    BY <1>2, CallType DEF CallFails
  <2>2. DeactivationTypeOK'
    BY <1>2, <2>1 DEF CallFails, DeactivationTypeOK, othersUnchanged, Phase
  <2> QED
    BY <1>2, <2>2 DEF CallFails, othersUnchanged, recordVars, stateVars, operationVars,
         RecordTypeOK, ControllerTypeOK, StateTypeOK, OperationTypeOK
<1>3. CASE MarkFailed
  <2>1. Call \in LifecycleCall
    BY <1>3, CallType DEF MarkFailed, Calling
  <2>2. DeactivationTypeOK'
    BY <1>3, <2>1 DEF MarkFailed, DeactivationTypeOK, othersUnchanged, Phase
  <2>3. RecordTypeOK'
    <3>1. CASE Commit(Call)
      BY <3>1, CommitType
    <3>2. CASE UNCHANGED recordVars
      BY <3>2 DEF recordVars, RecordTypeOK
    <3> QED BY <1>3, <3>1, <3>2 DEF MarkFailed
  <2> QED
    BY <1>3, <2>2, <2>3 DEF MarkFailed, othersUnchanged, stateVars, operationVars,
         ControllerTypeOK, StateTypeOK, OperationTypeOK
<1>4. CASE LateAttempt
  <2>1. RecordTypeOK'
    BY <1>4, CommitType DEF LateAttempt
  <2> QED
    BY <1>4, <2>1 DEF LateAttempt, controllerVars, stateVars, operationVars,
         deactivationVars, ControllerTypeOK, StateTypeOK, OperationTypeOK,
         DeactivationTypeOK
<1>5. CASE SignalFence
  <2> DEFINE m == [kind |-> "deactivation_fenced",
                   operation |-> DeactivationId(task.generation),
                   generation |-> task.generation]
  <2>1. m \in Envelope
    BY DEF Envelope, DeactivationTypeOK, DeactivationId, Deactivating
  <2>2. Signal(m)
    BY <1>5 DEF SignalFence
  <2> HIDE DEF m
  <2>3. commands' \in Seq(Envelope)
    BY <2>1, <2>2, SignalType DEF ControllerTypeOK
  <2>4. DeactivationTypeOK'
    BY <1>5 DEF SignalFence, DeactivationTypeOK, othersUnchanged, Phase
  <2> QED
    BY <1>5, <2>3, <2>4 DEF SignalFence, othersUnchanged, recordVars, stateVars,
         operationVars, RecordTypeOK, ControllerTypeOK, StateTypeOK, OperationTypeOK
<1>6. CASE CancelOwnedWork
  <2>1. OperationTypeOK'
    BY <1>6 DEF CancelOwnedWork, OperationTypeOK
  <2>2. DeactivationTypeOK'
    BY <1>6 DEF CancelOwnedWork, DeactivationTypeOK, Phase
  <2> QED
    BY <1>6, <2>1, <2>2 DEF CancelOwnedWork, recordVars, controllerVars, stateVars,
         RecordTypeOK, ControllerTypeOK, StateTypeOK
<1>7. CASE InvalidateQuota \/ Drain
  <2>1. DeactivationTypeOK'
    BY <1>7 DEF InvalidateQuota, Drain, DeactivationTypeOK, othersUnchanged, Phase
  <2> QED
    BY <1>7, <2>1 DEF InvalidateQuota, Drain, othersUnchanged, recordVars, stateVars,
         operationVars, RecordTypeOK, ControllerTypeOK, StateTypeOK, OperationTypeOK
<1>8. CASE ReportTerminal
  <2> DEFINE m == [kind |-> "operation_status",
                   operation |-> DeactivationId(task.generation),
                   generation |-> outcome.generation, result |-> outcome.result]
  <2>1. m \in Envelope
    BY <1>8 DEF ReportTerminal, Envelope, DeactivationTypeOK, DeactivationId, Deactivating
  <2>2. Signal(m)
    BY <1>8 DEF ReportTerminal
  <2> HIDE DEF m
  <2>3. commands' \in Seq(Envelope)
    BY <2>1, <2>2, SignalType DEF ControllerTypeOK
  <2>4. DeactivationTypeOK'
    BY <1>8 DEF ReportTerminal, DeactivationTypeOK, NoTask, Phase
  <2> QED
    BY <1>8, <2>3, <2>4 DEF ReportTerminal, recordVars, stateVars, operationVars,
         RecordTypeOK, ControllerTypeOK, StateTypeOK, OperationTypeOK
<1> QED
  BY <1>1, <1>2, <1>3, <1>4, <1>5, <1>6, <1>7, <1>8 DEF Deactivation

\* The steps of the syncs and remediations keep every type.
LEMMA OperationTypes ==
  ASSUME TypeOK, Operations
  PROVE  TypeOK'
<1> USE DEF TypeOK
<1>1. CASE OperationWrites
  <2>1. RecordTypeOK'
    BY <1>1 DEF OperationWrites, RetrievalWrite, RecordTypeOK
  <2> QED
    BY <1>1, <2>1 DEF OperationWrites, controllerVars, stateVars, operationVars,
         deactivationVars, ControllerTypeOK, StateTypeOK, OperationTypeOK,
         DeactivationTypeOK
<1>2. ASSUME NEW op \in working, NEW r \in RemediationsOf(op), StartRemediation(op, r)
      PROVE  TypeOK'
  <2>1. r \in Remediation
    BY <1>2 DEF StartRemediation, RemediationsOf, RemediationId, Sync, Remediation
  <2>2. OperationTypeOK'
    BY <1>2, <2>1 DEF StartRemediation, OperationTypeOK, Operation
  <2> QED
    BY <1>2, <2>2 DEF StartRemediation, recordVars, controllerVars, stateVars,
         deactivationVars, RecordTypeOK, ControllerTypeOK, StateTypeOK,
         DeactivationTypeOK
<1>3. ASSUME NEW op \in working, SyncEnds(op)
      PROVE  TypeOK'
  <2> DEFINE m == [kind |-> "operation_status", operation |-> op,
                   generation |-> GenerationOf(op), result |-> "ended"]
  <2>1. m \in Envelope
    BY <1>3 DEF SyncEnds, Envelope, GenerationOf, Operation, Sync
  <2>2. Signal(m)
    BY <1>3 DEF SyncEnds
  <2> HIDE DEF m
  <2>3. commands' \in Seq(Envelope)
    BY <2>1, <2>2, SignalType DEF ControllerTypeOK
  <2>4. OperationTypeOK'
    BY <1>3 DEF SyncEnds, OperationTypeOK
  <2> QED
    BY <1>3, <2>3, <2>4 DEF SyncEnds, recordVars, stateVars, deactivationVars,
         RecordTypeOK, ControllerTypeOK, StateTypeOK, DeactivationTypeOK
<1>4. ASSUME NEW op \in working, RemediationEnds(op)
      PROVE  TypeOK'
  <2> DEFINE m == [kind |-> "remediation_finished", operation |-> op,
                   generation |-> GenerationOf(op), result |-> "ended"]
  <2>1. m \in Envelope
    BY <1>4 DEF RemediationEnds, Envelope, GenerationOf, Operation, Remediation
  <2>2. Signal(m)
    BY <1>4 DEF RemediationEnds
  <2> HIDE DEF m
  <2>3. commands' \in Seq(Envelope)
    BY <2>1, <2>2, SignalType DEF ControllerTypeOK
  <2>4. OperationTypeOK'
    BY <1>4 DEF RemediationEnds, OperationTypeOK
  <2> QED
    BY <1>4, <2>3, <2>4 DEF RemediationEnds, recordVars, stateVars, deactivationVars,
         RecordTypeOK, ControllerTypeOK, StateTypeOK, DeactivationTypeOK
<1>5. ASSUME NEW r \in registration.pending, RegisterRemediation(r)
      PROVE  TypeOK'
  <2> DEFINE m == [kind |-> "remediation_started", operation |-> r]
  <2>1. m \in Envelope
    BY <1>5 DEF Envelope, OperationTypeOK
  <2>2. Signal(m)
    BY <1>5 DEF RegisterRemediation
  <2> HIDE DEF m
  <2>3. commands' \in Seq(Envelope)
    BY <2>1, <2>2, SignalType DEF ControllerTypeOK
  <2>4. OperationTypeOK'
    <3>1. CASE controller = "down"
      <4>1. r \in Remediation
        BY <1>5 DEF OperationTypeOK
      <4>2. registration' = [registration EXCEPT !.pending = @ \ {r}, !.failed = @ \cup {r}]
        BY <1>5, <3>1 DEF RegisterRemediation
      <4>3. registration' \in [begun: SUBSET Remediation, pending: SUBSET Remediation,
                               failed: SUBSET Remediation]
        BY <4>1, <4>2 DEF OperationTypeOK
      <4> QED BY <1>5, <4>3 DEF RegisterRemediation, OperationTypeOK
    <3>2. CASE controller # "down"
      BY <1>5, <3>2 DEF RegisterRemediation, OperationTypeOK
    <3> QED BY <3>1, <3>2
  <2> QED
    BY <1>5, <2>3, <2>4 DEF RegisterRemediation, recordVars, stateVars,
         deactivationVars, RecordTypeOK, ControllerTypeOK, StateTypeOK,
         DeactivationTypeOK
<1> QED
  BY <1>1, <1>2, <1>3, <1>4, <1>5 DEF Operations

\* Every behaviour of the store keeps every variable in its type; in particular
\* no handler and no rollover lets the dedup window grow past its size.
THEOREM StoreTypeCorrect == Spec => []TypeOK
<1>1. Init => TypeOK
  <2>1. <<>> \in Seq(Envelope) /\ <<>> \in Seq({c.id : c \in ClientCommand})
        /\ Len(<<>>) <= CommandWindow
    BY ControllerAssumption DEF ControllerAssumption
  <2>2. Init => RecordTypeOK
    BY RepositoryAssumption DEF RepositoryAssumption, Init, RecordInit, RecordTypeOK,
         LifecycleState
  <2>3. ASSUME Init PROVE ControllerTypeOK /\ StateTypeOK
    <3>1. ControllerInit
      BY <2>3 DEF Init
    <3>2. ControllerTypeOK
      BY <2>1, <3>1 DEF ControllerInit, ControllerTypeOK
    <3>3. /\ recent_command_results \in Seq({c.id : c \in ClientCommand})
          /\ Len(recent_command_results) <= CommandWindow
      BY <2>1, <3>1 DEF ControllerInit
    <3>4. /\ known_state \in LifecycleState
          /\ known_generation \in Nat
          /\ active_deactivation_id \in Nat \cup {None}
          /\ active_deactivation_fenced \in BOOLEAN
      BY <3>1 DEF ControllerInit, LifecycleState
    <3>5. /\ active_syncs \subseteq Sync
          /\ active_remediations \subseteq Remediation
          /\ quota_workflow_ids \subseteq Scope
      BY <3>1 DEF ControllerInit
    <3> QED BY <3>2, <3>3, <3>4, <3>5 DEF StateTypeOK
  <2>4. Init => OperationTypeOK
    BY DEF Init, OperationTypeOK
  <2>5. ASSUME Init PROVE DeactivationTypeOK
    <3>1. DeactivationInit
      BY <2>5 DEF Init
    <3>2. task \in [generation: Nat, expected: Nat, resume: BOOLEAN,
                    owned: SUBSET Operation, scopes: SUBSET Scope]
      BY <3>1 DEF DeactivationInit, NoTask
    <3> QED BY <3>1, <3>2 DEF DeactivationInit, DeactivationTypeOK, Phase
  <2> QED BY <2>2, <2>3, <2>4, <2>5 DEF TypeOK
<1>2. TypeOK /\ [Next]_vars => TypeOK'
  <2>1. ASSUME TypeOK, UNCHANGED vars PROVE TypeOK'
    BY <2>1 DEF vars, recordVars, controllerVars, stateVars, operationVars,
         deactivationVars, TypeOK, RecordTypeOK, ControllerTypeOK, StateTypeOK,
         OperationTypeOK, DeactivationTypeOK
  <2> QED
    BY <2>1, ControllerTypes, DeactivationTypes, OperationTypes DEF Next, Clients
<1> QED BY <1>1, <1>2, PTL DEF Spec
=============================================================================
