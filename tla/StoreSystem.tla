---------------------------- MODULE StoreSystem ----------------------------
(***************************************************************************)
(* One store: its record, its controller, its deactivation workflow, and    *)
(* the detached sync and remediation workflows, reduced to what the others  *)
(* see of them: fenced writes, remediations started, and terminal Signals   *)
(* (temporal/workflows/root_sync.py, failed_user_remediation.py).           *)
(***************************************************************************)
EXTENDS DeactivateStore

CONSTANT MaxActiveRemediations   \* _MAX_ACTIVE_REMEDIATIONS

ASSUME SystemAssumption == MaxActiveRemediations \in Nat \ {0}

vars == <<recordVars, controllerVars, stateVars, operationVars, deactivationVars>>

\* The remediations a sync may start.
RemediationsOf(op) == {RemediationId(op[2], op[3], p) : p \in Partition}

\* An Activity attempt of an operation writes, also when the operation has
\* been cancelled or has closed meanwhile.
OperationWrites ==
  /\ \E op \in started : RetrievalWrite(GenerationOf(op))
  /\ UNCHANGED <<controllerVars, stateVars, operationVars, deactivationVars>>

\* _start_remediation up to the child's start: one for each partition, never more
\* than the maximum at a time, and none after a registration failed.  A request
\* to cancel the root may still be on its way.
StartRemediation(op, r) ==
  /\ op \in working \cap Sync
  /\ r \in RemediationsOf(op) \ (registration.begun \cup working)
  /\ RemediationsOf(op) \cap (registration.pending \cup registration.failed) = {}
  /\ Cardinality(RemediationsOf(op) \cap registration.begun \cap working)
       < MaxActiveRemediations
  /\ started' = started \cup {r}
  /\ working' = working \cup {r}
  /\ registration' = [registration EXCEPT !.begun = @ \cup {r}, !.pending = @ \cup {r}]
  /\ UNCHANGED <<recordVars, controllerVars, stateVars, canceled, deactivationVars>>

\* The registration Signal that follows, shielded from cancellation.  When it
\* fails the child is left running, unregistered: it was started to be abandoned,
\* so that to cancel its handle asks it for nothing and leaves nothing to wait for.
RegisterRemediation(r) ==
  /\ r \in registration.pending
  /\ Signal([kind |-> "remediation_started", operation |-> r])
  /\ registration' = [registration EXCEPT
       !.pending = @ \ {r},
       !.failed = IF controller = "down" THEN @ \cup {r} ELSE @]
  /\ UNCHANGED <<recordVars, controller, authority, stateVars, started, working, canceled,
                 deactivationVars>>

\* A root sync completes, fails or is cancelled, reports it and closes.  It
\* awaits the registration Signal first.
SyncEnds(op) ==
  /\ op \in working \cap Sync
  /\ RemediationsOf(op) \cap registration.pending = {}
  /\ Signal([kind |-> "operation_status", operation |-> op,
             generation |-> GenerationOf(op), result |-> "ended"])
  /\ working' = working \ {op}
  /\ canceled' = canceled \ {op}
  /\ registration' = [registration EXCEPT !.begun = @ \ RemediationsOf(op),
                                          !.failed = @ \ RemediationsOf(op)]
  /\ UNCHANGED <<recordVars, controller, authority, stateVars, started,
                 deactivationVars>>

\* A remediation completes, fails or is cancelled, reports it and closes.
RemediationEnds(op) ==
  /\ op \in working \cap Remediation
  /\ Signal([kind |-> "remediation_finished", operation |-> op,
             generation |-> GenerationOf(op), result |-> "ended"])
  /\ working' = working \ {op}
  /\ canceled' = canceled \ {op}
  /\ UNCHANGED <<recordVars, controller, authority, stateVars, started,
                 registration, deactivationVars>>

Init ==
  /\ RecordInit
  /\ ControllerInit
  /\ DeactivationInit
  /\ started = {} /\ working = {} /\ canceled = {}
  /\ registration = [begun |-> {}, pending |-> {}, failed |-> {}]

Operations ==
  \/ OperationWrites
  \/ \E op \in working :
       \/ \E r \in RemediationsOf(op) : StartRemediation(op, r)
       \/ SyncEnds(op)
       \/ RemediationEnds(op)
  \/ \E r \in registration.pending : RegisterRemediation(r)

Clients ==
  \/ \E c \in ClientCommand : SendCommand(c)
  \/ AuthorityLost \/ ControllerContinueAsNew
  \/ LateAttempt

Next == Operations \/ Clients \/ Controller \/ Deactivation

Spec == Init /\ [][Next]_vars

-----------------------------------------------------------------------------
(* Properties *)

ControllerTypeOK ==
  /\ controller \in {"down", "reading", "assigning", "loop"}
  /\ controller = "assigning" => authority \in [state: LifecycleState, generation: Nat]
  /\ controller # "assigning" => authority = None
  /\ commands \in Seq(Envelope)

StateTypeOK ==
  /\ known_state \in LifecycleState
  /\ known_generation \in Nat
  /\ active_syncs \subseteq Sync
  /\ active_remediations \subseteq Remediation
  /\ active_deactivation_id \in Nat \cup {None}
  /\ active_deactivation_fenced \in BOOLEAN
  /\ quota_workflow_ids \subseteq Scope
  /\ recent_command_results \in Seq({c.id : c \in ClientCommand})
  /\ Len(recent_command_results) <= CommandWindow

OperationTypeOK ==
  /\ started \subseteq Operation
  /\ working \subseteq started
  /\ canceled \subseteq working
  /\ registration \in [begun: SUBSET Remediation, pending: SUBSET Remediation,
                       failed: SUBSET Remediation]

DeactivationTypeOK ==
  /\ task \in [generation: Nat, expected: Nat, resume: BOOLEAN,
               owned: SUBSET Operation, scopes: SUBSET Scope]
  /\ phase \in Phase
  /\ drained \subseteq Operation
  /\ warnings \in BOOLEAN
  /\ phase = "reporting" =>
       outcome \in [generation: Nat, result: {"succeeded", "partial", "failed"}]
  /\ attempts \subseteq LifecycleCall

\* Every variable keeps its type, only open workflows are asked to cancel, and
\* the dedup window keeps its size.
TypeOK == RecordTypeOK /\ ControllerTypeOK /\ StateTypeOK /\ OperationTypeOK
            /\ DeactivationTypeOK

Contents == ({"user"} \X active_users) \cup ({"document"} \X documents)
              \cup ({"state"} \X retrieval_state)

Fence == IF lifecycle_state \in {"active", "syncing"} THEN "open"
         ELSE IF lifecycle_state = "inactive" THEN "closed" ELSE "fenced"

Promise == INSTANCE StoreLifecycle WITH fence <- Fence, contents <- Contents

\* The detailed system implements StoreLifecycle: whatever attempts, zombies,
\* retries and resumed deactivations do, nothing is written once the generation
\* has moved, and the store is marked inactive only when it is empty, for good.
FencedLifecycle == Promise!Spec

\* The controller never believes more than the record: not a generation that
\* was not committed, and INACTIVE only when the store is.
ControllerBelievesTheRecord ==
  controller = "loop" =>
    /\ known_generation <= lifecycle_generation
    /\ known_state = "inactive" => lifecycle_state = "inactive"
    /\ known_generation < lifecycle_generation =>
         lifecycle_generation = known_generation + 1

\* "A new sync cannot start while remediation remains active for the store"
\* and "The controller serializes commands and admits at most one sync": when
\* a sync starts, no other operation of the store is at work.
SyncStartsAlone ==
  [][\A op \in (working' \ working) \cap Sync : working = {}]_vars

\* A deactivation that has Signalled the coordinators has named every scope
\* in which an operation that still works may hold or wait for a permit.
QuotaIsInvalidated ==
  phase \in {"draining", "cleaning_users", "removing_objects", "marking_inactive"} =>
    \A op \in working :
      ScopeOf[op[3]] \in task.scopes \cup {None}

\* Nothing more is to come from the operations and the deactivation.
Settled ==
  /\ controller = "loop" /\ commands = <<>>
  /\ working = {} /\ registration.pending = {}
  /\ phase = "none"

\* "A store stays SYNCING until both its root sync and all detached
\* remediations finish": when all have finished and reported, the controller
\* has no operation registered any more.
NoGhostOperation == Settled => active_syncs \cup active_remediations = {}

\* "The authoritative generation never advanced": a deactivation that ends for
\* the controller without a fence has not moved the record.
UnfencedMeansNotAdvanced ==
  [][active_deactivation_id # None /\ active_deactivation_id' = None
     /\ known_state' \in {"active", "syncing"} /\ controller = "loop"
       => lifecycle_generation = known_generation]_vars

-----------------------------------------------------------------------------
(* Liveness *)

\* Temporal drives the workflows: the controller's loop and the deactivation,
\* whose drain has a timer and whose calls have bounded retries.  Nothing is
\* assumed of clients, of the operations' own work or of late attempts.
Fairness ==
  /\ WF_vars(Controller)
  /\ WF_vars(Deactivation)

FairSpec == Spec /\ Fairness

\* An accepted deactivation always comes to an end the controller learns of, so
\* the store is never stuck with a deactivation registered.
DeactivationEnds == active_deactivation_id # None ~> active_deactivation_id = None
=============================================================================
