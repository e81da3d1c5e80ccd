-------------------------- MODULE DeactivateStore --------------------------
(***************************************************************************)
(* DeactivateStoreWorkflow: fence, cancel, invalidate quota, drain, clean   *)
(* up, and mark one store inactive (temporal/workflows/deactivate_store.py, *)
(* with the cleanup children of temporal/workflows/cleanup.py).             *)
(*                                                                          *)
(* Lifecycle and cleanup calls are Activities, delivered at least once: an  *)
(* attempt can commit with its answer lost, be repeated, or commit long     *)
(* after the workflow has given the call up.  Outer cancellation is         *)
(* shielded and changes nothing here.                                       *)
(***************************************************************************)
EXTENDS StoreController

Phase == {"none", "fencing", "signaling_fence", "canceling", "invalidating",
          "draining", "cleaning_users", "removing_objects", "marking_inactive",
          "marking_failed", "reporting"}

\* Mutant: the store is marked inactive before its objects are removed.
NextPhaseMarkFirst(p) ==
  CASE p = "fencing"          -> "signaling_fence"
    [] p = "cleaning_users"   -> "marking_inactive"
    [] p = "removing_objects" -> "reporting"
    [] p = "marking_inactive" -> "removing_objects"

\* The order the guard DeactivationOrderGuard insists on.
NextPhase(p) ==
  CASE p = "fencing"          -> "signaling_fence"
    [] p = "cleaning_users"   -> "removing_objects"
    [] p = "removing_objects" -> "marking_inactive"
    [] p = "marking_inactive" -> "reporting"

Calling == {"fencing", "cleaning_users", "removing_objects", "marking_inactive",
            "marking_failed"}

\* The call the workflow is waiting for.
Call ==
  [op |-> CASE phase = "fencing"          -> IF task.resume THEN "resume" ELSE "begin"
            [] phase = "cleaning_users"   -> "deactivate_users"
            [] phase = "removing_objects" -> "remove_objects"
            [] phase = "marking_inactive" -> "mark_inactive"
            [] phase = "marking_failed"   -> "mark_failed",
   generation |-> IF phase = "fencing" THEN task.expected ELSE task.generation]

othersUnchanged == UNCHANGED <<controller, authority, stateVars, operationVars, task>>

NoTask == [generation |-> 0, expected |-> 0, resume |-> FALSE, owned |-> {},
           scopes |-> {}]

-----------------------------------------------------------------------------
(* The calls *)

\* The call commits and its answer arrives.
CallSucceeds ==
  /\ phase \in Calling \ {"marking_failed"}
  /\ Accepted(Call)
  /\ Commit(Call)
  /\ phase' = NextPhase(phase)
  /\ outcome' = IF NextPhase(phase) = "reporting"
                THEN [generation |-> task.generation,
                      result |-> IF warnings THEN "partial" ELSE "succeeded"]
                ELSE outcome
  /\ attempts' = attempts \cup {Call}
  /\ UNCHANGED <<commands, drained, warnings>> /\ othersUnchanged

\* The call is rejected, or its retries run out with no answer.  Before the
\* fence the workflow reports the generation it expected; after it, the
\* failure is recorded first.
CallFails ==
  /\ phase \in Calling \ {"marking_failed"}
  /\ phase' = IF phase = "fencing" THEN "reporting" ELSE "marking_failed"
  /\ outcome' = IF phase = "fencing"
                THEN [generation |-> task.expected, result |-> "failed"]
                ELSE outcome
  /\ attempts' = attempts \cup {Call}
  /\ UNCHANGED <<recordVars, commands, drained, warnings>> /\ othersUnchanged

\* _finish_failed: mark_store_deactivation_failed, whether it commits or not.
MarkFailed ==
  /\ phase = "marking_failed"
  /\ Commit(Call) \/ UNCHANGED recordVars
  /\ phase' = "reporting"
  /\ outcome' = [generation |-> task.generation, result |-> "failed"]
  /\ attempts' = attempts \cup {Call}
  /\ UNCHANGED <<commands, drained, warnings>> /\ othersUnchanged

\* An attempt whose answer is lost, or that comes after the call was settled.
LateAttempt ==
  /\ \E c \in attempts \cup (IF phase \in Calling THEN {Call} ELSE {}) : Commit(c)
  /\ UNCHANGED <<controllerVars, stateVars, operationVars, deactivationVars>>

-----------------------------------------------------------------------------
(* The steps between the calls *)

\* _signal_controller_fenced
SignalFence ==
  /\ phase = "signaling_fence"
  /\ Signal([kind |-> "deactivation_fenced", operation |-> DeactivationId(task.generation),
             generation |-> task.generation])
  /\ warnings' = (warnings \/ controller = "down")
  /\ phase' = "canceling"
  /\ UNCHANGED <<recordVars, drained, outcome, attempts>> /\ othersUnchanged

\* _cancel_owned_work: a request to a closed workflow fails and is counted.
CancelOwnedWork ==
  /\ phase = "canceling"
  /\ canceled' = canceled \cup (task.owned \cap working)
  /\ warnings' = (warnings \/ ~(task.owned \subseteq working))
  /\ phase' = "invalidating"
  /\ UNCHANGED <<recordVars, controllerVars, stateVars, started, working,
                 registration, task,
                 drained, outcome, attempts>>

\* _invalidate_old_generation_quota: a coordinator that is not running cannot
\* take the Signal.
InvalidateQuota ==
  /\ phase = "invalidating"
  /\ warnings' \in {warnings, warnings \/ task.scopes # {}}
  /\ phase' = "draining"
  /\ UNCHANGED <<recordVars, commands, drained, outcome, attempts>> /\ othersUnchanged

\* Mutant: the wait has no timeout.
DrainForever ==
  /\ phase = "draining"
  /\ task.owned \subseteq drained
  /\ phase' = "cleaning_users"
  /\ UNCHANGED <<recordVars, commands, drained, outcome, attempts, warnings>>
  /\ othersUnchanged

\* _wait_for_operation_drain: everything reported, or the timer.
Drain ==
  /\ phase = "draining"
  /\ warnings' = (warnings \/ ~(task.owned \subseteq drained))
  /\ phase' = "cleaning_users"
  /\ UNCHANGED <<recordVars, commands, drained, outcome, attempts>> /\ othersUnchanged

\* _signal_controller_terminal, after which the workflow closes and what it kept
\* is gone.
ReportTerminal ==
  /\ phase = "reporting"
  /\ Signal([kind |-> "operation_status", operation |-> DeactivationId(task.generation),
             generation |-> outcome.generation, result |-> outcome.result])
  /\ phase' = "none"
  /\ task' = NoTask /\ drained' = {} /\ warnings' = FALSE /\ outcome' = None
  /\ UNCHANGED <<recordVars, controller, authority, stateVars, operationVars,
                 attempts>>

DeactivationInit ==
  /\ task = NoTask
  /\ phase = "none"
  /\ drained = {}
  /\ warnings = FALSE
  /\ outcome = None
  /\ attempts = {}

Deactivation ==
  \/ CallSucceeds \/ CallFails \/ MarkFailed
  \/ SignalFence \/ CancelOwnedWork \/ InvalidateQuota \/ Drain \/ ReportTerminal
=============================================================================
