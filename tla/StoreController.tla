-------------------------- MODULE StoreController --------------------------
(***************************************************************************)
(* StoreControllerWorkflow: the durable owner of one store's lifecycle and  *)
(* operations (temporal/workflows/store_controller.py).  Updates and        *)
(* Signals only join one queue; the run loop takes them one at a time, so a *)
(* handler is one step of the controller: whatever it awaits (a child's     *)
(* start, a cancel, a forwarded Signal), nothing else touches its state.    *)
(* What a handler does to other workflows is part of the step.              *)
(***************************************************************************)
EXTENDS Repository, Lists

CONSTANTS
  Sequence,        \* sync_sequence values
  Partition,       \* the pages or rounds of a sync that may leave failed users
  Scope,           \* quota coordinators (workflow ids)
  ScopeOf,         \* ScopeOf[s]: the coordinator a sync sequence names, or None
  ClientCommand,   \* the commands clients may send
  Malformed,       \* ids of the sync commands whose metadata does not parse
  CommandWindow,   \* max(1, command_dedup_window_size)
  AuthorityMayFail,\* the repository can be away longer than its Activity retries
  None,
  MaxQueue         \* bound: client commands wait when the queue is this long

SyncId(g, s)        == <<"sync", g, s>>
RemediationId(g, s, p) == <<"remediation", g, s, p>>
DeactivationId(g)   == <<"deactivation", g>>

Sync        == {"sync"} \X Nat \X Sequence
Remediation == {"remediation"} \X Nat \X Sequence \X Partition
Operation   == Sync \cup Remediation
Deactivating == {"deactivation"} \X Nat
GenerationOf(op) == op[2]

ASSUME ControllerAssumption ==
  /\ None \notin Nat
  /\ ScopeOf \in [Sequence -> Scope \cup {None}]
  /\ CommandWindow \in Nat \ {0}
  /\ AuthorityMayFail \in BOOLEAN
  /\ MaxQueue \in Nat
  /\ \A c \in ClientCommand :
       \/ /\ c.kind = "request_sync"
          /\ c.generation \in Nat /\ c.sequence \in Sequence
       \/ c.kind = "cancel_sync" /\ c.operation \in Sync
       \/ c.kind = "start_deactivation" /\ c.generation \in Nat

\* What may wait in the queue: the clients' Updates and the workflows' Signals.
Envelope ==
  ClientCommand
  \cup [kind: {"remediation_started"}, operation: Remediation]
  \cup [kind: {"deactivation_fenced"}, operation: Deactivating, generation: Nat]
  \cup [kind: {"operation_status", "remediation_finished"},
        operation: Operation \cup Deactivating, generation: Nat,
        result: {"ended", "succeeded", "partial", "failed"}]

VARIABLES
  \* one run of the controller
  controller,      \* down, reading (the authority), assigning, loop
  authority,       \* what the authority read returned
  commands,        \* the queue of Updates and Signals
  \* StoreControllerState, carried across Continue-As-New
  known_state, known_generation,
  active_syncs, active_remediations,
  active_deactivation_id,      \* its generation, None when there is none
  active_deactivation_fenced,
  quota_workflow_ids, recent_command_results,
  \* the detached workflows, as the server sees them
  started,         \* operations ever started: attempts of their Activities may be late
  working,         \* operations that have not reported and closed
  canceled,        \* the ones of them asked to cancel
  registration,    \* what the open roots know of the remediations they started:
                   \* begun, registration not sent yet, registration failed
  \* the deactivation workflow
  task,            \* its input
  phase, drained, warnings, outcome,
  attempts         \* the lifecycle calls it has issued and been answered for

controllerVars == <<controller, authority, commands>>
stateVars == <<known_state, known_generation, active_syncs, active_remediations,
               active_deactivation_id, active_deactivation_fenced,
               quota_workflow_ids, recent_command_results>>
operationVars == <<started, working, canceled, registration>>
deactivationVars == <<task, phase, drained, warnings, outcome, attempts>>

Ended == {"deactivating", "inactive", "deactivation_failed"}

\* The deactivation workflow has not closed.
Open(g) == phase # "none" /\ task.generation = g

\* A workflow Signals the controller; the Signal fails when there is none.
Signal(m) ==
  commands' = IF controller = "down" THEN commands ELSE Append(commands, m)

Remember(c) ==
  recent_command_results' = Newest(Append(recent_command_results, c.id), CommandWindow)

-----------------------------------------------------------------------------
(* The run *)

\* Update-with-Start: the first command creates the controller.
SendCommand(c) ==
  /\ Len(commands) < MaxQueue
  /\ commands' = Append(commands, c)
  /\ IF controller = "down"
     THEN /\ controller' = "reading"
          /\ known_generation' = IF c.kind = "cancel_sync" THEN 0 ELSE c.generation
     ELSE UNCHANGED <<controller, known_generation>>
  /\ UNCHANGED <<recordVars, authority, known_state, active_syncs,
                 active_remediations, active_deactivation_id,
                 active_deactivation_fenced, quota_workflow_ids,
                 recent_command_results, operationVars, deactivationVars>>

\* _initialize_authority: the Activity reads the record ...
ReadAuthority ==
  /\ controller = "reading"
  /\ controller' = "assigning"
  /\ authority' = [state |-> lifecycle_state, generation |-> lifecycle_generation]
  /\ UNCHANGED <<recordVars, commands, stateVars, operationVars, deactivationVars>>

\* ... and its result is taken over when it arrives.
AssignAuthority ==
  /\ controller = "assigning"
  /\ controller' = "loop"
  /\ authority' = None
  /\ known_generation' = authority.generation
  /\ known_state' =
       IF authority.state = "active" /\ active_syncs \cup active_remediations # {}
       THEN "syncing" ELSE authority.state
  /\ UNCHANGED <<recordVars, commands, active_syncs, active_remediations,
                 active_deactivation_id, active_deactivation_fenced,
                 quota_workflow_ids, recent_command_results, operationVars,
                 deactivationVars>>

\* The read fails for good and the run with it; a later command starts afresh.
AuthorityLost ==
  /\ AuthorityMayFail
  /\ controller = "reading"
  /\ controller' = "down"
  /\ commands' = <<>>
  /\ known_state' = "active"
  /\ active_syncs' = {}
  /\ active_remediations' = {}
  /\ active_deactivation_id' = None
  /\ active_deactivation_fenced' = FALSE
  /\ quota_workflow_ids' = {}
  /\ recent_command_results' = <<>>
  /\ UNCHANGED <<recordVars, authority, known_generation, operationVars,
                 deactivationVars>>

\* _maybe_continue_as_new, asked for by Signal or suggested by the server; never
\* with commands waiting.  The new run reads the authority again.
ControllerContinueAsNew ==
  /\ controller = "loop"
  /\ commands = <<>>
  /\ controller' = "reading"
  /\ UNCHANGED <<recordVars, authority, commands, stateVars, operationVars,
                 deactivationVars>>

-----------------------------------------------------------------------------
(* The handlers *)

\* The loop takes the next command of this kind.
Take(kind) ==
  /\ controller = "loop"
  /\ commands # <<>>
  /\ Head(commands).kind = kind
  /\ commands' = Tail(commands)
  /\ UNCHANGED <<recordVars, controller, authority>>

Duplicate(c) == c.id \in Range(recent_command_results)

\* Mutant: detached remediations are not looked at.
SyncAdmittedBesideRemediation(c) ==
  /\ ~Duplicate(c)
  /\ c.generation = known_generation
  /\ active_deactivation_id = None
  /\ known_state \notin Ended
  /\ active_syncs = {}
  /\ c.id \notin Malformed

SyncAdmitted(c) ==
  /\ ~Duplicate(c)
  /\ c.generation = known_generation
  /\ active_deactivation_id = None
  /\ known_state \notin Ended
  /\ active_syncs = {}
  /\ active_remediations = {}
  /\ c.id \notin Malformed

\* _request_sync; the start of a child that is still open is refused.
RequestSync ==
  /\ Take("request_sync")
  /\ LET c  == Head(commands)
         op == SyncId(c.generation, c.sequence)
     IN  IF SyncAdmitted(c) /\ op \notin working
         THEN /\ started' = started \cup {op}
              /\ working' = working \cup {op}
              /\ active_syncs' = active_syncs \cup {op}
              /\ quota_workflow_ids' =
                   quota_workflow_ids \cup ({ScopeOf[c.sequence]} \ {None})
              /\ known_state' = "syncing"
              /\ Remember(c)
         ELSE UNCHANGED <<started, working, active_syncs, quota_workflow_ids,
                          known_state, recent_command_results>>
  /\ UNCHANGED <<canceled, registration, known_generation, active_remediations, active_deactivation_id,
                 active_deactivation_fenced, deactivationVars>>

\* _cancel_sync; asking a workflow that has closed to cancel fails the Update.
CancelSync ==
  /\ Take("cancel_sync")
  /\ LET c == Head(commands)
     IN  IF Duplicate(c) \/ c.operation \in active_syncs \ working
         THEN UNCHANGED <<canceled, recent_command_results>>
         ELSE /\ canceled' = canceled \cup ({c.operation} \cap active_syncs)
              /\ Remember(c)
  /\ UNCHANGED <<started, working, registration, known_state, known_generation, active_syncs,
                 active_remediations, active_deactivation_id,
                 active_deactivation_fenced, quota_workflow_ids,
                 deactivationVars>>

\* The command names a deactivation that is under way, done or failed: it is
\* answered with that one.
AlreadyDecided(c) ==
  \/ active_deactivation_id # None
  \/ known_state = "inactive" /\ known_generation \in {c.generation, c.generation + 1}
  \/ known_state = "deactivation_failed" /\ known_generation = c.generation + 1

\* _start_deactivation
StartDeactivation ==
  /\ Take("start_deactivation")
  /\ LET c      == Head(commands)
         resume == known_state \in {"deactivating", "deactivation_failed"}
         g      == IF resume THEN known_generation ELSE known_generation + 1
         starts == /\ ~Duplicate(c) /\ ~AlreadyDecided(c)
                   /\ c.generation = known_generation
                   /\ ~Open(g)
     IN  /\ IF starts
            THEN /\ task' = [generation |-> g, expected |-> c.generation,
                             resume |-> resume,
                             owned |-> active_syncs \cup active_remediations,
                             scopes |-> quota_workflow_ids]
                 /\ phase' = "fencing"
                 /\ active_deactivation_id' = g
                 /\ active_deactivation_fenced' = resume
                 /\ known_state' = "deactivating"
            ELSE UNCHANGED <<task, phase, known_state, active_deactivation_id,
                             active_deactivation_fenced>>
         /\ IF starts \/ (~Duplicate(c) /\ AlreadyDecided(c))
            THEN Remember(c) ELSE UNCHANGED recent_command_results
  /\ UNCHANGED <<known_generation, active_syncs, active_remediations,
                 quota_workflow_ids, operationVars, drained, warnings, outcome,
                 attempts>>

\* Mutant: every fenced deactivation that ends counts as done.
StateAfterDeactivationDone(e, fenced, idle) ==
  IF ~fenced THEN (IF idle THEN "active" ELSE "syncing") ELSE "inactive"

\* Mutant: the result status is stored as the lifecycle state.
StateAfterDeactivationUnmapped(e, fenced, idle) ==
  IF ~fenced THEN (IF idle THEN "active" ELSE "syncing") ELSE e.result

\* The state a terminal deactivation leaves the controller in.
StateAfterDeactivation(e, fenced, idle) ==
  IF ~fenced THEN (IF idle THEN "active" ELSE "syncing")
  ELSE IF e.result = "failed" THEN "deactivation_failed" ELSE "inactive"

\* Mutant: running remediations are not looked at.
QuotaForgottenAfterSync(syncs, remediations, deactivation) ==
  syncs = {} /\ deactivation = None

\* Nothing is left that could hold or wait for a permit.
QuotaForgotten(syncs, remediations, deactivation) ==
  syncs = {} /\ remediations = {} /\ deactivation = None

\* _operation_status and _remediation_finished: every status that is sent is a
\* terminal one.  A known operation is forgotten and its end forwarded to the
\* deactivation that waits for it.
OperationStatus ==
  /\ \/ Take("operation_status") \/ Take("remediation_finished")
  /\ LET e      == Head(commands)
         syncs  == active_syncs \ {e.operation}
         rems   == active_remediations \ {e.operation}
         idle   == syncs = {} /\ rems = {}
         ends   == /\ active_deactivation_id # None
                   /\ e.operation = DeactivationId(active_deactivation_id)
         fenced == active_deactivation_fenced \/ e.generation > known_generation
     IN  /\ active_syncs' = syncs
         /\ active_remediations' = rems
         /\ drained' = IF /\ e.operation \in active_syncs \cup active_remediations
                          /\ active_deactivation_id # None
                          /\ Open(active_deactivation_id)
                       THEN drained \cup {e.operation} ELSE drained
         /\ IF ends
            THEN /\ active_deactivation_id' = None
                 /\ active_deactivation_fenced' = FALSE
                 /\ known_generation' = IF fenced /\ e.generation > known_generation
                                        THEN e.generation ELSE known_generation
                 /\ known_state' = StateAfterDeactivation(e, fenced, idle)
            ELSE /\ known_state' = IF idle /\ known_state = "syncing"
                                   THEN "active" ELSE known_state
                 /\ UNCHANGED <<known_generation, active_deactivation_id,
                                active_deactivation_fenced>>
         /\ quota_workflow_ids' = IF QuotaForgotten(syncs, rems, active_deactivation_id')
                                  THEN {} ELSE quota_workflow_ids
  /\ UNCHANGED <<recent_command_results, operationVars, task, phase, warnings,
                 outcome, attempts>>

\* _remediation_started: registered, and cancelled when the store has ended.
RemediationStarted ==
  /\ Take("remediation_started")
  /\ LET op == Head(commands).operation
     IN  IF op \in active_remediations
         THEN UNCHANGED <<active_remediations, known_state, canceled>>
         ELSE /\ active_remediations' = active_remediations \cup {op}
              /\ known_state' = IF known_state = "active" THEN "syncing" ELSE known_state
              /\ canceled' = IF known_state \in Ended /\ op \in working
                             THEN canceled \cup {op} ELSE canceled
  /\ UNCHANGED <<started, working, registration, known_generation, active_syncs,
                 active_deactivation_id, active_deactivation_fenced,
                 quota_workflow_ids, recent_command_results, deactivationVars>>

\* _deactivation_fenced
DeactivationFenced ==
  /\ Take("deactivation_fenced")
  /\ LET e == Head(commands)
     IN  IF /\ active_deactivation_id # None
            /\ e.operation = DeactivationId(active_deactivation_id)
            /\ e.generation >= known_generation
         THEN /\ known_generation' = e.generation
              /\ known_state' = "deactivating"
              /\ active_deactivation_fenced' = TRUE
         ELSE UNCHANGED <<known_generation, known_state, active_deactivation_fenced>>
  /\ UNCHANGED <<active_syncs, active_remediations, active_deactivation_id,
                 quota_workflow_ids, recent_command_results, operationVars,
                 deactivationVars>>

ControllerInit ==
  /\ controller = "down"
  /\ authority = None
  /\ commands = <<>>
  /\ known_state = "active"
  /\ known_generation = 0
  /\ active_syncs = {}
  /\ active_remediations = {}
  /\ active_deactivation_id = None
  /\ active_deactivation_fenced = FALSE
  /\ quota_workflow_ids = {}
  /\ recent_command_results = <<>>

Controller ==
  \/ ReadAuthority \/ AssignAuthority
  \/ RequestSync \/ CancelSync \/ StartDeactivation
  \/ OperationStatus \/ RemediationStarted \/ DeactivationFenced
=============================================================================
