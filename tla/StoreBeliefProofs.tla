------------------------- MODULE StoreBeliefProofs -------------------------
(***************************************************************************)
(* The controller never believes more than the record, for every value of   *)
(* the constants.                                                           *)
(*                                                                          *)
(* The argument: a generation is believed only after it was committed, and  *)
(* a committed generation or an inactive record stays one.  So it is enough *)
(* that whatever can still reach the controller (the answer of the          *)
(* authority read, the task and outcome of the deactivation, every Signal   *)
(* in the queue) speaks of committed generations only.                      *)
(***************************************************************************)
EXTENDS StoreSystemProofs, StoreTypeProofs

Done == lifecycle_state = "inactive"
Committed(g) == InitialGeneration <= g /\ g <= lifecycle_generation

\* A store is deactivated once: its generation moves with the fence and then rests.
RecordAge ==
  lifecycle_generation =
    IF IsFenced THEN InitialGeneration + 1 ELSE InitialGeneration

AuthorityOK ==
  controller = "assigning" =>
    Committed(authority.generation) /\ (authority.state = "inactive" => Done)

KnownOK ==
  controller = "loop" =>
    Committed(known_generation) /\ (known_state = "inactive" => Done)

TaskOK ==
  phase # "none" =>
    /\ Committed(task.expected)
    /\ task.generation = IF task.resume THEN task.expected ELSE task.expected + 1

FencedOK == phase \in AfterFence => lifecycle_generation = task.generation

OutcomeOK ==
  phase = "reporting" =>
    Committed(outcome.generation) /\ (outcome.result # "failed" => Done)

MessageOK(m) ==
  /\ m.kind = "deactivation_fenced" => Committed(m.generation)
  /\ m.kind \in {"operation_status", "remediation_finished"} /\ m.operation \in Deactivating =>
       Committed(m.generation) /\ (m.result # "failed" => Done)

QueueOK == \A i \in 1..Len(commands) : MessageOK(commands[i])

\* The inductive invariant, on top of TypeOK and FenceInv.
BeliefInv ==
  /\ RecordAge /\ AuthorityOK /\ KnownOK /\ TaskOK /\ FencedOK /\ OutcomeOK
  /\ QueueOK

\* How the record may move in one step.
Evolves ==
  /\ lifecycle_generation <= lifecycle_generation'
  /\ IsFenced => lifecycle_generation' = lifecycle_generation
  /\ Done => Done'

-----------------------------------------------------------------------------
(* The record and the queue *)

\* An attempt moves the record forward, and only once.
LEMMA CommitEvolves ==
  ASSUME TypeOK, RecordAge, NEW c, Commit(c)
  PROVE  Evolves /\ RecordAge'
<1> USE RepositoryAssumption DEF RepositoryAssumption, TypeOK, RecordTypeOK, Evolves,
        RecordAge, IsFenced, Done
<1>1. CASE ~Accepted(c) \/ (c.op = "begin" /\ Begun(c.generation))
  BY <1>1 DEF Commit, Accepted, BeginDeactivation, recordVars
<1>2. CASE Accepted(c) /\ c.op = "begin" /\ ~Begun(c.generation)
  BY <1>2 DEF Commit, Accepted, Writable, BeginDeactivation
<1>3. CASE Accepted(c) /\ c.op # "begin"
  BY <1>3 DEF Commit, Accepted, MoveTo, DeactivateUsers, RemoveAllObjects
<1> QED BY <1>1, <1>2, <1>3

\* So does every step.
LEMMA RecordEvolves ==
  ASSUME TypeOK, RecordAge, [Next]_vars
  PROVE  Evolves /\ RecordAge'
<1>1. CASE UNCHANGED recordVars
  BY <1>1 DEF recordVars, TypeOK, RecordTypeOK, Evolves, RecordAge, IsFenced, Done
<1>2. CASE CallSucceeds \/ LateAttempt
  BY <1>2, CommitEvolves DEF CallSucceeds, LateAttempt
<1>3. CASE MarkFailed
  BY <1>1, <1>3, CommitEvolves DEF MarkFailed
<1>4. CASE OperationWrites
  BY <1>4 DEF OperationWrites, RetrievalWrite, TypeOK, RecordTypeOK, Evolves,
       RecordAge, IsFenced, Done
<1>5. CASE \/ SignalFence \/ CancelOwnedWork \/ InvalidateQuota \/ Drain
           \/ ReportTerminal \/ CallFails
  BY <1>1, <1>5 DEF SignalFence, CancelOwnedWork, InvalidateQuota, Drain,
       ReportTerminal, CallFails
<1>6. CASE \/ \E op \in working : \/ \E r \in RemediationsOf(op) : StartRemediation(op, r)
                                  \/ SyncEnds(op) \/ RemediationEnds(op)
           \/ \E r \in registration.pending : RegisterRemediation(r)
  BY <1>1, <1>6 DEF StartRemediation, SyncEnds, RemediationEnds, RegisterRemediation
<1>7. CASE (\E c \in ClientCommand : SendCommand(c)) \/ AuthorityLost
           \/ ControllerContinueAsNew \/ ReadAuthority \/ AssignAuthority
  BY <1>1, <1>7 DEF SendCommand, AuthorityLost, ControllerContinueAsNew,
       ReadAuthority, AssignAuthority
<1>8. CASE RequestSync \/ CancelSync \/ StartDeactivation \/ OperationStatus
           \/ RemediationStarted \/ DeactivationFenced
  BY <1>1, <1>8 DEF RequestSync, CancelSync, StartDeactivation, OperationStatus,
       RemediationStarted, DeactivationFenced, Take
<1>9. CASE UNCHANGED vars
  BY <1>1, <1>9 DEF vars
<1> QED
  BY <1>2, <1>3, <1>4, <1>5, <1>6, <1>7, <1>8, <1>9
  DEF Next, Operations, Clients, Controller, Deactivation

\* What was committed stays committed.
LEMMA CommittedStays ==
  ASSUME TypeOK, TypeOK', Evolves, NEW g \in Nat, Committed(g)
  PROVE  InitialGeneration <= g /\ g <= lifecycle_generation'
BY RepositoryAssumption
DEF RepositoryAssumption, TypeOK, RecordTypeOK, Evolves, Committed

\* A message stays good.
LEMMA MessageStays ==
  ASSUME TypeOK, TypeOK', Evolves, NEW m \in Envelope, MessageOK(m)
  PROVE  MessageOK(m)'
<1>1. m.kind \in {"deactivation_fenced", "operation_status", "remediation_finished"} =>
        m.generation \in Nat
  <2>1. m \in ClientCommand =>
          m.kind \in {"request_sync", "cancel_sync", "start_deactivation"}
    BY ControllerAssumption DEF ControllerAssumption
  <2> QED BY <2>1 DEF Envelope
<1>2. Done => Done'
  BY DEF Evolves
<1>3. \A g \in Nat : Committed(g) => Committed(g)'
  BY CommittedStays DEF Committed
<1> QED BY <1>1, <1>2, <1>3 DEF MessageOK

\* The queue stays good when it is left alone, served or emptied, or when a good
\* message joins it.
LEMMA QueueStays ==
  ASSUME TypeOK, TypeOK', Evolves, QueueOK,
         \/ commands' = commands
         \/ commands' = <<>>
         \/ commands # <<>> /\ commands' = Tail(commands)
         \/ \E m \in Envelope : MessageOK(m)' /\ commands' = Append(commands, m)
  PROVE  QueueOK'
<1>1. commands \in Seq(Envelope)
  BY DEF TypeOK, ControllerTypeOK
<1>2. \A i \in 1..Len(commands) : commands[i] \in Envelope
  BY <1>1
<1>3. \A i \in 1..Len(commands) : MessageOK(commands[i])
  BY DEF QueueOK
<1>4. \A m \in Envelope : MessageOK(m) => MessageOK(m)'
  BY MessageStays
<1>5. SUFFICES ASSUME NEW i \in 1..Len(commands')
               PROVE  MessageOK(commands[i])'
  BY DEF QueueOK
<1>6. \E m \in Envelope : commands'[i] = m /\ MessageOK(m)'
  <2>1. CASE commands' = commands
    BY <1>2, <1>3, <1>4, <2>1
  <2>2. CASE commands' = <<>>
    BY <2>2
  <2>3. CASE commands # <<>> /\ commands' = Tail(commands)
    <3>1. i \in 1..(Len(commands) - 1) /\ commands'[i] = commands[i + 1]
      BY <1>1, <2>3, HeadTailProperties
    <3>2. i + 1 \in 1..Len(commands)
      BY <1>1, <3>1, LenProperties
    <3> QED BY <1>2, <1>3, <1>4, <3>1, <3>2
  <2>4. CASE \E m \in Envelope : MessageOK(m)' /\ commands' = Append(commands, m)
    <3>1. PICK m \in Envelope : MessageOK(m)' /\ commands' = Append(commands, m)
      BY <2>4
    <3>2. CASE i \in 1..Len(commands)
      <4>1. commands'[i] = commands[i]
        BY <1>1, <3>1, <3>2, AppendProperties
      <4> QED BY <1>2, <1>3, <1>4, <3>2, <4>1
    <3>3. CASE i \notin 1..Len(commands)
      <4>1. commands'[i] = m
        BY <1>1, <3>1, <3>3, AppendProperties, LenProperties
      <4> QED BY <3>1, <4>1
    <3> QED BY <3>2, <3>3
  <2> QED BY <2>1, <2>2, <2>3, <2>4
<1> QED BY <1>6 DEF MessageOK, Committed, Done

-----------------------------------------------------------------------------
(* The steps *)

\* A step that leaves the deactivation alone keeps what is known of it.
LEMMA DeactivationLeftAlone ==
  ASSUME TypeOK, TypeOK', FenceInv, Evolves, TaskOK, FencedOK, OutcomeOK,
         UNCHANGED <<task, phase, outcome>>
  PROVE  TaskOK' /\ FencedOK' /\ OutcomeOK'
<1>1. \A g \in Nat : Committed(g) => Committed(g)'
  BY CommittedStays DEF Committed
<1>2. task.expected \in Nat /\ (phase = "reporting" => outcome.generation \in Nat)
  BY DEF TypeOK, DeactivationTypeOK
<1>3. TaskOK'
  BY <1>1, <1>2 DEF TaskOK, Committed
<1>4. FencedOK'
  BY DEF FencedOK, FenceInv, Evolves
<1>5. OutcomeOK'
  BY <1>1, <1>2 DEF OutcomeOK, Committed, Evolves
<1> QED BY <1>3, <1>4, <1>5

\* A step that leaves the controller alone keeps what it believes.
LEMMA ControllerLeftAlone ==
  ASSUME TypeOK, TypeOK', Evolves, AuthorityOK, KnownOK,
         UNCHANGED <<controller, authority, known_state, known_generation>>
  PROVE  AuthorityOK' /\ KnownOK'
<1>1. \A g \in Nat : Committed(g) => Committed(g)'
  BY CommittedStays DEF Committed
<1>2. /\ known_generation \in Nat
      /\ controller = "assigning" => authority.generation \in Nat
  BY DEF TypeOK, ControllerTypeOK, StateTypeOK
<1> QED BY <1>1, <1>2 DEF AuthorityOK, KnownOK, Committed, Evolves

\* The steps of the operations.
LEMMA OperationsKeepBelief ==
  ASSUME TypeOK, TypeOK', FenceInv, Evolves, BeliefInv, RecordAge', Operations
  PROVE  BeliefInv'
<1>1. UNCHANGED <<controller, authority, known_state, known_generation, task, phase,
                  outcome>>
  BY DEF Operations, OperationWrites, StartRemediation, SyncEnds, RemediationEnds,
         RegisterRemediation, controllerVars, stateVars, deactivationVars
<1>2. \/ commands' = commands
      \/ \E m \in Envelope : MessageOK(m)' /\ commands' = Append(commands, m)
  <2>1. CASE \/ OperationWrites
             \/ \E op \in working : \E r \in RemediationsOf(op) : StartRemediation(op, r)
    BY <2>1 DEF OperationWrites, StartRemediation, controllerVars
  <2>2. ASSUME NEW op \in working, SyncEnds(op) \/ RemediationEnds(op)
        PROVE  \/ commands' = commands
               \/ \E m \in Envelope : MessageOK(m)' /\ commands' = Append(commands, m)
    <3> DEFINE M(k) == [kind |-> k, operation |-> op, generation |-> GenerationOf(op),
                        result |-> "ended"]
    <3>1. op \in Operation /\ GenerationOf(op) \in Nat /\ op \notin Deactivating
      BY <2>2 DEF SyncEnds, RemediationEnds, Operation, Sync, Remediation,
           GenerationOf, Deactivating
    <3>2. M("operation_status") \in Envelope /\ M("remediation_finished") \in Envelope
      BY <3>1 DEF Envelope
    <3>3. MessageOK(M("operation_status"))' /\ MessageOK(M("remediation_finished"))'
      BY <3>1 DEF MessageOK
    <3>4. Signal(M("operation_status")) \/ Signal(M("remediation_finished"))
      BY <2>2 DEF SyncEnds, RemediationEnds
    <3> HIDE DEF M
    <3> QED BY <3>2, <3>3, <3>4 DEF Signal
  <2>3. ASSUME NEW r \in registration.pending, RegisterRemediation(r)
        PROVE  \/ commands' = commands
               \/ \E m \in Envelope : MessageOK(m)' /\ commands' = Append(commands, m)
    <3> DEFINE m == [kind |-> "remediation_started", operation |-> r]
    <3>1. m \in Envelope /\ MessageOK(m)'
      BY DEF TypeOK, OperationTypeOK, Envelope, MessageOK
    <3>2. Signal(m)
      BY <2>3 DEF RegisterRemediation
    <3> HIDE DEF m
    <3> QED BY <3>1, <3>2 DEF Signal
  <2> QED BY <2>1, <2>2, <2>3 DEF Operations
<1>3. QueueOK'
  BY <1>2, QueueStays DEF BeliefInv
<1> QED
  BY <1>1, <1>3, DeactivationLeftAlone, ControllerLeftAlone DEF BeliefInv

\* The steps of the deactivation and its late attempts.
LEMMA DeactivationKeepsBelief ==
  ASSUME TypeOK, TypeOK', FenceInv, FenceInv', Evolves, BeliefInv, RecordAge',
         Deactivation \/ LateAttempt
  PROVE  BeliefInv'
<1>1. UNCHANGED <<controller, authority, known_state, known_generation>>
  BY DEF Deactivation, CallSucceeds, CallFails, MarkFailed, SignalFence,
         CancelOwnedWork, InvalidateQuota, Drain, ReportTerminal, LateAttempt,
         othersUnchanged, controllerVars, stateVars
<1>2. AuthorityOK' /\ KnownOK'
  BY <1>1, ControllerLeftAlone DEF BeliefInv
<1>3. ASSUME NEW g \in Nat, Committed(g) PROVE Committed(g)'
  BY <1>3, CommittedStays DEF Committed
<1>4. /\ task.expected \in Nat /\ task.generation \in Nat
      /\ phase = "reporting" => outcome.generation \in Nat
  BY DEF TypeOK, DeactivationTypeOK
<1>5. ASSUME commands' = commands PROVE QueueOK'
  BY <1>5, QueueStays DEF BeliefInv
<1>6. ASSUME phase # "none", task' = task PROVE TaskOK'
  BY <1>3, <1>4, <1>6 DEF BeliefInv, TaskOK, Committed
<1>7. CASE CallSucceeds
  <2>1. task' = task /\ commands' = commands /\ phase \in Calling
        /\ phase' = NextPhase(phase) /\ Accepted(Call) /\ Commit(Call)
    BY <1>7 DEF CallSucceeds, othersUnchanged
  <2>2. TaskOK'
    BY <1>6, <2>1 DEF Calling
  <2>3. FencedOK'
    <3>1. CASE phase = "fencing"
      <4>1. Call.generation = task.expected
            /\ Call.op = IF task.resume THEN "resume" ELSE "begin"
        BY <3>1 DEF Call
      <4>2. lifecycle_generation' = task.generation
        BY <1>4, <2>1, <3>1, <4>1 DEF Commit, Accepted, Begun, Writable,
             BeginDeactivation, MoveTo, recordVars, contentVars, BeliefInv, TaskOK
      <4> QED BY <2>1, <4>2 DEF FencedOK
    <3>2. CASE phase # "fencing"
      <4>1. phase \in AfterFence
        BY <2>1, <3>2 DEF Calling, AfterFence
      <4> QED BY <2>1, <4>1 DEF FencedOK, FenceInv, BeliefInv, Evolves
    <3> QED BY <3>1, <3>2
  <2>4. OutcomeOK'
    <3>1. SUFFICES ASSUME phase' = "reporting" PROVE OutcomeOK'
      BY DEF OutcomeOK
    <3>2. phase = "marking_inactive"
      BY <1>7, <2>1, <3>1 DEF CallSucceeds, Calling, NextPhase
    <3>3. lifecycle_state' = "inactive" /\ lifecycle_generation' = task.generation
      BY <2>1, <3>2 DEF Call, Commit, MoveTo, BeliefInv, FencedOK, AfterFence
    <3>4. outcome'.generation = task.generation
      BY <1>7, <2>1, <3>1 DEF CallSucceeds
    <3>5. IsFenced'
      BY <3>3 DEF IsFenced
    <3> QED
      BY <1>4, <3>3, <3>4, <3>5, RepositoryAssumption
      DEF RepositoryAssumption, OutcomeOK, Committed, Done, RecordAge
  <2> QED BY <1>2, <1>5, <2>1, <2>2, <2>3, <2>4 DEF BeliefInv
<1>8. CASE CallFails
  <2>1. task' = task /\ commands' = commands /\ phase \in Calling
        /\ phase' = (IF phase = "fencing" THEN "reporting" ELSE "marking_failed")
    BY <1>8 DEF CallFails, othersUnchanged
  <2>2. TaskOK'
    BY <1>6, <2>1 DEF Calling
  <2>3. FencedOK'
    BY <2>1 DEF Calling, AfterFence, FencedOK, FenceInv, BeliefInv, Evolves
  <2>4. OutcomeOK'
    <3>1. phase' = "reporting" =>
            phase = "fencing" /\ outcome' = [generation |-> task.expected, result |-> "failed"]
      BY <1>8 DEF CallFails
    <3>2. phase = "fencing" => Committed(task.expected)'
      BY <1>3, <1>4, <2>1 DEF BeliefInv, TaskOK, Committed
    <3> QED BY <2>1, <3>1, <3>2 DEF OutcomeOK, Committed
  <2> QED BY <1>2, <1>5, <2>1, <2>2, <2>3, <2>4 DEF BeliefInv
<1>9. CASE MarkFailed
  <2>1. task' = task /\ commands' = commands /\ phase = "marking_failed"
        /\ phase' = "reporting"
        /\ outcome' = [generation |-> task.generation, result |-> "failed"]
    BY <1>9 DEF MarkFailed, othersUnchanged
  <2>2. lifecycle_generation = task.generation /\ IsFenced
    BY <2>1 DEF BeliefInv, FencedOK, FenceInv, AfterFence
  <2>3. OutcomeOK'
    BY <1>4, <2>1, <2>2, RepositoryAssumption
    DEF RepositoryAssumption, OutcomeOK, Committed, Evolves, BeliefInv, RecordAge
  <2>4. FencedOK'
    BY <2>1 DEF FencedOK, AfterFence
  <2> QED BY <1>2, <1>5, <1>6, <2>1, <2>3, <2>4 DEF BeliefInv
<1>10. CASE LateAttempt
  <2>1. UNCHANGED <<task, phase, outcome, commands>>
    BY <1>10 DEF LateAttempt, deactivationVars, controllerVars
  <2> QED BY <1>2, <1>5, <2>1, DeactivationLeftAlone DEF BeliefInv
<1>11. CASE CancelOwnedWork \/ InvalidateQuota \/ Drain
  <2>1. /\ UNCHANGED <<task, outcome, commands>>
        /\ phase \in AfterFence /\ phase' \in AfterFence /\ phase' # "reporting"
    BY <1>11 DEF CancelOwnedWork, InvalidateQuota, Drain, othersUnchanged,
         controllerVars, AfterFence
  <2>2. TaskOK'
    BY <1>6, <2>1 DEF AfterFence
  <2>3. FencedOK' /\ OutcomeOK'
    BY <2>1 DEF FencedOK, OutcomeOK, FenceInv, BeliefInv, Evolves
  <2> QED BY <1>2, <1>5, <2>1, <2>2, <2>3 DEF BeliefInv
<1>12. CASE SignalFence
  <2> DEFINE m == [kind |-> "deactivation_fenced",
                   operation |-> DeactivationId(task.generation),
                   generation |-> task.generation]
  <2>1. /\ UNCHANGED <<task, outcome>>
        /\ phase = "signaling_fence" /\ phase' = "canceling" /\ Signal(m)
    BY <1>12 DEF SignalFence, othersUnchanged
  <2>2. lifecycle_generation = task.generation /\ IsFenced
    BY <2>1 DEF BeliefInv, FencedOK, FenceInv, AfterFence
  <2>3. InitialGeneration <= task.generation /\ task.generation <= lifecycle_generation'
    BY <1>4, <2>2, RepositoryAssumption
    DEF RepositoryAssumption, Evolves, BeliefInv, RecordAge
  <2>4. m \in Envelope
    BY <1>4 DEF Envelope, DeactivationId, Deactivating
  <2>5. \A x \in Envelope : x = m => MessageOK(x)'
    BY <2>3 DEF MessageOK, Committed
  <2> HIDE DEF m
  <2>6. QueueOK'
    BY <2>1, <2>4, <2>5, QueueStays DEF Signal, BeliefInv
  <2>7. TaskOK'
    BY <1>6, <2>1
  <2>8. FencedOK' /\ OutcomeOK'
    BY <2>1, <2>2 DEF FencedOK, OutcomeOK, Evolves
  <2> QED BY <1>2, <2>6, <2>7, <2>8 DEF BeliefInv
<1>13. CASE ReportTerminal
  <2> DEFINE m == [kind |-> "operation_status",
                   operation |-> DeactivationId(task.generation),
                   generation |-> outcome.generation, result |-> outcome.result]
  <2>1. phase = "reporting" /\ phase' = "none" /\ Signal(m)
    BY <1>13 DEF ReportTerminal
  <2>2. /\ InitialGeneration <= outcome.generation
        /\ outcome.generation <= lifecycle_generation'
        /\ outcome.result # "failed" => Done'
    BY <1>3, <1>4, <2>1 DEF BeliefInv, OutcomeOK, Committed, Evolves
  <2>3. m \in Envelope
    BY <1>4, <2>1 DEF Envelope, DeactivationId, Deactivating, TypeOK, DeactivationTypeOK
  <2>4. \A x \in Envelope : x = m => MessageOK(x)'
    BY <2>2 DEF MessageOK, Committed
  <2> HIDE DEF m
  <2>5. QueueOK'
    BY <2>1, <2>3, <2>4, QueueStays DEF Signal, BeliefInv
  <2>6. TaskOK' /\ FencedOK' /\ OutcomeOK'
    BY <2>1 DEF TaskOK, FencedOK, OutcomeOK, AfterFence
  <2> QED BY <1>2, <2>5, <2>6 DEF BeliefInv
<1> QED
  BY <1>7, <1>8, <1>9, <1>10, <1>11, <1>12, <1>13 DEF Deactivation

\* The steps of the controller.
LEMMA ControllerKeepsBelief ==
  ASSUME TypeOK, TypeOK', FenceInv, Evolves, BeliefInv, RecordAge',
         UNCHANGED recordVars,
         Controller \/ AuthorityLost \/ ControllerContinueAsNew
           \/ \E c \in ClientCommand : SendCommand(c)
  PROVE  BeliefInv'
<1>1. \A g : Committed(g)' <=> Committed(g)
  BY DEF recordVars, Committed
<1>2. Done' <=> Done
  BY DEF recordVars, Done
<1>3. ASSUME commands' = commands \/ commands' = <<>>
               \/ (commands # <<>> /\ commands' = Tail(commands))
      PROVE  QueueOK'
  BY <1>3, QueueStays DEF BeliefInv
<1>4. ASSUME UNCHANGED <<task, phase, outcome>>
      PROVE  TaskOK' /\ FencedOK' /\ OutcomeOK'
  BY <1>4, DeactivationLeftAlone DEF BeliefInv
<1>5. ASSUME NEW c \in ClientCommand, SendCommand(c) PROVE BeliefInv'
  <2>1. c \in Envelope /\ MessageOK(c)'
    BY ControllerAssumption DEF ControllerAssumption, Envelope, MessageOK
  <2>2. QueueOK'
    BY <1>5, <2>1, QueueStays DEF SendCommand, BeliefInv
  <2>3. AuthorityOK' /\ KnownOK'
    BY <1>1, <1>2, <1>5 DEF SendCommand, BeliefInv, AuthorityOK, KnownOK, Committed
  <2> QED BY <1>4, <1>5, <2>2, <2>3 DEF SendCommand, deactivationVars, BeliefInv
<1>6. CASE ReadAuthority
  <2>1. AuthorityOK' /\ KnownOK'
    <3>1. InitialGeneration <= lifecycle_generation
      BY RepositoryAssumption DEF RepositoryAssumption, BeliefInv, RecordAge
    <3>2. authority' = [state |-> lifecycle_state, generation |-> lifecycle_generation]
          /\ controller' = "assigning"
      BY <1>6 DEF ReadAuthority
    <3>3. lifecycle_generation' = lifecycle_generation /\ lifecycle_generation \in Nat
      BY DEF recordVars, TypeOK, RecordTypeOK
    <3> QED BY <1>2, <3>1, <3>2, <3>3 DEF AuthorityOK, KnownOK, Committed, Done
  <2> QED BY <1>3, <1>4, <1>6, <2>1 DEF ReadAuthority, deactivationVars, BeliefInv
<1>7. CASE AssignAuthority
  <2>1. AuthorityOK' /\ KnownOK'
    BY <1>1, <1>2, <1>7 DEF AssignAuthority, BeliefInv, AuthorityOK, KnownOK, Committed
  <2> QED BY <1>3, <1>4, <1>7, <2>1 DEF AssignAuthority, deactivationVars, BeliefInv
<1>8. CASE AuthorityLost \/ ControllerContinueAsNew
  BY <1>3, <1>4, <1>8 DEF AuthorityLost, ControllerContinueAsNew, deactivationVars,
       BeliefInv, AuthorityOK, KnownOK
<1>9. ASSUME NEW kind, Take(kind)
      PROVE  /\ QueueOK' /\ controller = "loop" /\ controller' = "loop" /\ AuthorityOK'
             /\ Committed(known_generation) /\ (known_state = "inactive" => Done)
             /\ MessageOK(Head(commands)) /\ Head(commands).kind = kind
  <2>1. commands # <<>> /\ commands' = Tail(commands) /\ controller = "loop"
        /\ controller' = "loop" /\ Head(commands).kind = kind
    BY <1>9 DEF Take
  <2>2. 1 \in 1..Len(commands) /\ Head(commands) = commands[1]
    BY <2>1, HeadTailProperties, LenProperties DEF TypeOK, ControllerTypeOK
  <2>3. MessageOK(Head(commands))
    BY <2>2 DEF BeliefInv, QueueOK
  <2> QED BY <1>3, <2>1, <2>3 DEF BeliefInv, AuthorityOK, KnownOK
<1>10. CASE RequestSync \/ CancelSync \/ RemediationStarted
  <2>1. known_generation' = known_generation
        /\ (known_state' = "inactive" => known_state = "inactive")
    BY <1>10 DEF RequestSync, CancelSync, RemediationStarted
  <2>2. KnownOK'
    BY <1>1, <1>2, <1>9, <1>10, <2>1
    DEF RequestSync, CancelSync, RemediationStarted, KnownOK, Committed
  <2> QED
    BY <1>4, <1>9, <1>10, <2>2 DEF RequestSync, CancelSync, RemediationStarted,
         deactivationVars, BeliefInv
<1>11. CASE DeactivationFenced
  <2>1. known_generation' \in {known_generation, Head(commands).generation}
        /\ (known_state' = "inactive" => known_state = "inactive")
    BY <1>11 DEF DeactivationFenced
  <2>2. Committed(known_generation) /\ Committed(Head(commands).generation)
    BY <1>9, <1>11 DEF DeactivationFenced, MessageOK
  <2>3. KnownOK'
    BY <1>2, <1>9, <1>11, <2>1, <2>2 DEF DeactivationFenced, KnownOK, Committed, recordVars
  <2> QED BY <1>4, <1>9, <1>11, <2>3 DEF DeactivationFenced, deactivationVars, BeliefInv
<1>12. CASE StartDeactivation
  <2> DEFINE c == Head(commands)
             resume == known_state \in {"deactivating", "deactivation_failed"}
             g == IF resume THEN known_generation ELSE known_generation + 1
             new == [generation |-> g, expected |-> c.generation, resume |-> resume,
                     owned |-> active_syncs \cup active_remediations,
                     scopes |-> quota_workflow_ids]
  <2>1. known_generation' = known_generation
        /\ (known_state' = "inactive" => known_state = "inactive")
    BY <1>12 DEF StartDeactivation
  <2>2. KnownOK'
    BY <1>1, <1>2, <1>9, <1>12, <2>1 DEF StartDeactivation, KnownOK, Committed
  <2>3. \/ task' = new /\ phase' = "fencing" /\ c.generation = known_generation
        \/ UNCHANGED <<task, phase>>
    BY <1>12 DEF StartDeactivation
  <2>4. CASE task' = new /\ phase' = "fencing" /\ c.generation = known_generation
    <3>1. Committed(known_generation)
      BY <1>9, <1>12 DEF StartDeactivation
    <3>2. /\ task'.expected = known_generation
          /\ task'.generation = IF task'.resume THEN task'.expected ELSE task'.expected + 1
      BY <2>4
    <3>3. TaskOK'
      BY <3>1, <3>2 DEF TaskOK, Committed, recordVars
    <3>4. FencedOK' /\ OutcomeOK'
      BY <2>4 DEF FencedOK, OutcomeOK, AfterFence
    <3> QED BY <1>9, <1>12, <2>2, <3>3, <3>4 DEF StartDeactivation, BeliefInv
  <2>5. CASE UNCHANGED <<task, phase>>
    BY <1>4, <1>9, <1>12, <2>2, <2>5 DEF StartDeactivation, BeliefInv
  <2> QED BY <2>3, <2>4, <2>5
<1>13. CASE OperationStatus
  <2> DEFINE e == Head(commands)
             ends == /\ active_deactivation_id # None
                     /\ e.operation = DeactivationId(active_deactivation_id)
  <2>1. /\ MessageOK(e) /\ Committed(known_generation)
        /\ known_state = "inactive" => Done
        /\ e.kind \in {"operation_status", "remediation_finished"}
        /\ QueueOK' /\ AuthorityOK' /\ controller' = "loop"
    BY <1>9, <1>13 DEF OperationStatus
  <2> HIDE DEF e
  <2>2. ASSUME ends PROVE KnownOK'
    <3>1. e.operation \in Deactivating
      BY <2>2 DEF DeactivationId, Deactivating, TypeOK, StateTypeOK
    <3>2. Committed(e.generation) /\ (e.result # "failed" => Done)
      BY <2>1, <3>1 DEF MessageOK
    <3>3. known_generation' \in {known_generation, e.generation}
      BY <1>13, <2>2 DEF OperationStatus, e
    <3>4. known_state' = "inactive" => e.result # "failed"
      BY <1>13, <2>2 DEF OperationStatus, StateAfterDeactivation, e
    <3> QED BY <1>2, <2>1, <3>2, <3>3, <3>4 DEF KnownOK, Committed, recordVars
  <2>3. ASSUME ~ends PROVE KnownOK'
    <3>1. known_generation' = known_generation
          /\ (known_state' = "inactive" => known_state = "inactive")
      BY <1>13, <2>3 DEF OperationStatus, e
    <3> QED BY <1>2, <2>1, <3>1 DEF KnownOK, Committed, recordVars
  <2>4. KnownOK'
    BY <2>2, <2>3
  <2> QED BY <1>4, <1>13, <2>1, <2>4 DEF OperationStatus, BeliefInv
<1> QED
  BY <1>5, <1>6, <1>7, <1>8, <1>10, <1>11, <1>12, <1>13 DEF Controller

\* Every step keeps the invariant.
LEMMA BeliefStep ==
  ASSUME TypeOK, TypeOK', FenceInv, FenceInv', BeliefInv, [Next]_vars
  PROVE  BeliefInv'
<1>1. Evolves /\ RecordAge'
  BY RecordEvolves DEF BeliefInv
<1>2. CASE Operations
  BY <1>1, <1>2, OperationsKeepBelief
<1>3. CASE Deactivation \/ LateAttempt
  BY <1>1, <1>3, DeactivationKeepsBelief
<1>4. CASE Controller \/ AuthorityLost \/ ControllerContinueAsNew
             \/ \E c \in ClientCommand : SendCommand(c)
  <2>1. UNCHANGED recordVars
    BY <1>4 DEF Controller, ReadAuthority, AssignAuthority, RequestSync, CancelSync,
         StartDeactivation, OperationStatus, RemediationStarted, DeactivationFenced,
         Take, AuthorityLost, ControllerContinueAsNew, SendCommand
  <2> QED BY <1>1, <1>4, <2>1, ControllerKeepsBelief
<1>5. CASE UNCHANGED vars
  <2>1. UNCHANGED <<controller, authority, known_state, known_generation, task, phase,
                    outcome, commands>>
    BY <1>5 DEF vars, controllerVars, stateVars, deactivationVars
  <2>2. QueueOK'
    BY <1>1, <2>1, QueueStays DEF BeliefInv
  <2> QED
    BY <1>1, <2>1, <2>2, DeactivationLeftAlone, ControllerLeftAlone DEF BeliefInv
<1> QED BY <1>2, <1>3, <1>4, <1>5 DEF Next, Clients

\* The controller never believes more than the record: whatever attempts, lost
\* answers, rollovers, failed authority reads and late Signals do, it takes no
\* generation for committed that is not, is at most one generation behind, and
\* reports the store INACTIVE only when it is.
THEOREM ControllerIsHonest == Spec => []ControllerBelievesTheRecord
<1>1. Init => BeliefInv
  BY RepositoryAssumption
  DEF RepositoryAssumption, Init, RecordInit, ControllerInit, DeactivationInit,
      BeliefInv, RecordAge, IsFenced, AuthorityOK, KnownOK, TaskOK, FencedOK,
      OutcomeOK, QueueOK, AfterFence
<1>2. TypeOK /\ TypeOK' /\ FenceInv /\ FenceInv' /\ BeliefInv /\ [Next]_vars => BeliefInv'
  BY BeliefStep
<1>3. TypeOK /\ BeliefInv => ControllerBelievesTheRecord
  BY RepositoryAssumption
  DEF RepositoryAssumption, TypeOK, RecordTypeOK, StateTypeOK, BeliefInv, RecordAge,
      KnownOK, Committed, Done, ControllerBelievesTheRecord
<1> QED
  BY <1>1, <1>2, <1>3, FenceInvariant, StoreTypeCorrect, PTL DEF Spec
=============================================================================
