----------------------------- MODULE Repository -----------------------------
(***************************************************************************)
(* The authoritative record of one store (activities/repositories.py,       *)
(* InMemoryRetrievalRepository, and the Activities that call it).  Every    *)
(* operation runs under one lock: it checks the lifecycle generation and    *)
(* state and changes the record in one step, or is rejected and changes     *)
(* nothing.                                                                 *)
(***************************************************************************)
EXTENDS Integers, FiniteSets

CONSTANTS
  User, Document, StateKey,   \* what the store may hold
  InitialGeneration           \* lifecycle_generation of the new record

ASSUME RepositoryAssumption == InitialGeneration \in Nat

VARIABLES
  lifecycle_state, lifecycle_generation,
  active_users, documents, retrieval_state

recordVars == <<lifecycle_state, lifecycle_generation, active_users, documents,
                retrieval_state>>
contentVars == <<active_users, documents, retrieval_state>>

LifecycleState ==
  {"active", "syncing", "deactivating", "inactive", "deactivation_failed"}

\* The Activities that move the lifecycle or clean up.
LifecycleCall ==
  [op: {"begin", "resume", "deactivate_users", "remove_objects", "mark_inactive",
        "mark_failed"},
   generation: Nat]

-----------------------------------------------------------------------------
(* Guards *)

\* _require_writable
Writable(g) ==
  /\ lifecycle_generation = g
  /\ lifecycle_state \in {"active", "syncing"}

\* The transition g -> g+1 was committed before: the answer was lost.
Begun(g) ==
  /\ lifecycle_generation = g + 1
  /\ lifecycle_state \in {"deactivating", "inactive", "deactivation_failed"}

\* The operation is not rejected.
Accepted(c) ==
  \/ c.op = "begin" /\ (Begun(c.generation) \/ Writable(c.generation))
  \/ /\ c.op # "begin"
     /\ lifecycle_generation = c.generation
     /\ \/ /\ c.op = "resume" /\ c.generation > 0
           /\ lifecycle_state \in {"deactivating", "deactivation_failed"}
        \/ /\ c.op \in {"deactivate_users", "remove_objects"}
           /\ lifecycle_state = "deactivating"
        \/ c.op = "mark_inactive" /\ lifecycle_state \in {"deactivating", "inactive"}
        \/ /\ c.op = "mark_failed"
           /\ lifecycle_state \in {"deactivating", "deactivation_failed"}

-----------------------------------------------------------------------------
(* Operations *)

BeginDeactivation(g) ==
  IF Begun(g)
  THEN UNCHANGED recordVars
  ELSE /\ lifecycle_generation' = lifecycle_generation + 1
       /\ lifecycle_state' = "deactivating"
       /\ UNCHANGED contentVars

MoveTo(state) == lifecycle_state' = state /\ UNCHANGED <<lifecycle_generation, contentVars>>

\* Users are cleaned up by generation; an empty user tuple means all of them.
DeactivateUsers ==
  /\ active_users' = {}
  /\ UNCHANGED <<lifecycle_state, lifecycle_generation, documents, retrieval_state>>

RemoveAllObjects ==
  /\ documents' = {}
  /\ retrieval_state' = {}
  /\ UNCHANGED <<lifecycle_state, lifecycle_generation, active_users>>

\* One attempt of a lifecycle or cleanup Activity reaches the record.
Commit(c) ==
  IF ~Accepted(c)
  THEN UNCHANGED recordVars
  ELSE \/ c.op = "begin" /\ BeginDeactivation(c.generation)
       \/ c.op = "resume" /\ MoveTo("deactivating")
       \/ c.op = "deactivate_users" /\ DeactivateUsers
       \/ c.op = "remove_objects" /\ RemoveAllObjects
       \/ c.op = "mark_inactive" /\ MoveTo("inactive")
       \/ c.op = "mark_failed" /\ MoveTo("deactivation_failed")

\* One attempt of a retrieval write of generation g reaches the record.
RetrievalWrite(g) ==
  /\ Writable(g)
  /\ \/ \E u \in User : active_users' = active_users \cup {u}
        /\ UNCHANGED <<documents, retrieval_state>>
     \/ \E d \in Document : documents' \in {documents \cup {d}, documents \ {d}}
        /\ UNCHANGED <<active_users, retrieval_state>>
     \/ \E k \in StateKey : retrieval_state' = retrieval_state \cup {k}
        /\ UNCHANGED <<active_users, documents>>
  /\ UNCHANGED <<lifecycle_state, lifecycle_generation>>

\* ensure_store
RecordInit ==
  /\ lifecycle_state = "active"
  /\ lifecycle_generation = InitialGeneration
  /\ active_users = {}
  /\ documents = {}
  /\ retrieval_state = {}

RecordTypeOK ==
  /\ lifecycle_state \in LifecycleState
  /\ lifecycle_generation \in Nat
  /\ active_users \in SUBSET User
  /\ documents \in SUBSET Document
  /\ retrieval_state \in SUBSET StateKey
=============================================================================
