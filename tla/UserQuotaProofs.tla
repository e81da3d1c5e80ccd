-------------------------- MODULE UserQuotaProofs --------------------------
(***************************************************************************)
(* Proofs about the quota coordinator and its callers, for every set of     *)
(* requests, every cost, limit and bound.                                   *)
(***************************************************************************)
EXTENDS UserQuota, ListsProofs

\* The part of the invariant that the Signal handlers can disturb.
Core ==
  /\ configured_limit \in Optional(Nat)
  /\ remaining \in Optional(Nat)
  /\ reset_at \in Optional(Nat)
  /\ blocked_until \in Optional(Nat)
  /\ in_flight \in Nat
  /\ disabled \in BOOLEAN
  /\ pending \in Seq(Request)
  /\ reservations \in [Request -> Optional(Nat)]
  /\ recent_terminal \in Seq(Request)
  /\ window \in Nat
  /\ pending_denials \in Seq(Request)
  /\ evicted \in SUBSET Request
  /\ fenced \in SUBSET Generations
  /\ SlotAccounting
  /\ LifeStages

\* The part that only the run loop moves.
RunOK ==
  /\ pc \in {"start", "init", "grant", "deliver", "sending", "wait"}
  /\ dirty \in BOOLEAN
  /\ rollover \in BOOLEAN
  /\ deferred \in Seq(Message)
  /\ grants \in Seq(Permit)
  /\ denials \in Seq(Request)
  /\ sending \in Optional({"grant", "denial"} \X Request)
  /\ now \in Nat
  /\ caller \in [Request -> {"idle", "waiting", "holding", "done"}]
  /\ issued \in SUBSET Permit
  /\ refilled_at \in Optional(Nat)
  /\ pc = "sending" => sending \in {"grant", "denial"} \X Request

\* Ids that are reserved, remembered or known to have been forgotten.
Kept == Reserved \cup Terminal \cup evicted

\* A permit that was issued is live, remembered or known to be forgotten: what
\* makes OneGrantPerRequest inductive.
IssuedIsKept == \A p \in issued : p.request \in Kept

IInv == Core /\ RunOK /\ IssuedIsKept

-----------------------------------------------------------------------------
(* Helpers *)

\* Only finitely many requests exist, so slots can be counted.
LEMMA ReservedFinite == IsFiniteSet(Reserved) /\ Cardinality(Reserved) \in Nat
<1>1. Reserved \in SUBSET Request
  BY DEF Reserved
<1>2. QED
  BY <1>1, RequestAssumption, FS_Subset, FS_CardinalityType

\* A list of one request.
LEMMA SingletonList ==
  ASSUME NEW r \in Request
  PROVE  /\ <<r>> \in Seq(Request) /\ Len(<<r>>) = 1
         /\ NoRepeats(<<r>>) /\ Range(<<r>>) = {r}
<1>1. <<r>> \in Seq(Request) /\ DOMAIN <<r>> = {1} /\ <<r>>[1] = r
  OBVIOUS
<1>2. QED
  BY <1>1 DEF NoRepeats, Range

\* Marking ids that are not remembered keeps the window within its cap and free
\* of repetitions; an id that leaves it is recorded as evicted.
LEMMA MarkTerminalInv ==
  ASSUME Core, NEW ids \in Seq(Request), NoRepeats(ids),
         Range(ids) \cap Terminal = {}, MarkTerminal(ids)
  PROVE  /\ recent_terminal' \in Seq(Request)
         /\ NoRepeats(recent_terminal)'
         /\ Len(recent_terminal') <= DedupWindow
         /\ Terminal' \subseteq Terminal \cup Range(ids)
         /\ evicted' \in SUBSET Request
         /\ evicted \subseteq evicted'
         /\ Terminal \cup Range(ids) \subseteq Terminal' \cup evicted'
<1> DEFINE all == recent_terminal \o ids
<1>1. recent_terminal \in Seq(Request) /\ NoRepeats(recent_terminal)
  BY DEF Core, LifeStages
<1>2. all \in Seq(Request) /\ Range(all) = Terminal \cup Range(ids)
  BY <1>1, ConcatProperties, RangeConcatenation DEF Terminal
<1>3. NoRepeats(all)
  BY <1>1, ConcatNoRepeats DEF Terminal
<1>4. DedupWindow \in Nat
  BY LimitAssumption
<1>5. /\ recent_terminal' = Newest(all, DedupWindow)
      /\ evicted' = evicted \cup (Range(all) \ Range(Newest(all, DedupWindow)))
  BY DEF MarkTerminal
<1> HIDE DEF all
<1>6. /\ recent_terminal' \in Seq(Request)
      /\ Len(recent_terminal') <= DedupWindow
      /\ Range(recent_terminal') \subseteq Range(all)
      /\ NoRepeats(recent_terminal')
  BY <1>2, <1>3, <1>4, <1>5, NewestProperties
<1>7. Range(all) \in SUBSET Request
  BY <1>2, RangeOfSeq
<1>8. QED
  BY <1>2, <1>5, <1>6, <1>7 DEF Core, Terminal, NoRepeats

\* The same for a single id.
LEMMA MarkOneInv ==
  ASSUME Core, NEW r \in Request, r \notin Terminal, MarkTerminal(<<r>>)
  PROVE  /\ recent_terminal' \in Seq(Request)
         /\ NoRepeats(recent_terminal)'
         /\ Len(recent_terminal') <= DedupWindow
         /\ Terminal' \subseteq Terminal \cup {r}
         /\ evicted' \in SUBSET Request
         /\ evicted \subseteq evicted'
         /\ Terminal \cup {r} \subseteq Terminal' \cup evicted'
<1> DEFINE one == <<r>>
<1>1. one \in Seq(Request) /\ NoRepeats(one) /\ Range(one) = {r}
  BY SingletonList
<1>2. MarkTerminal(one)
  OBVIOUS
<1> HIDE DEF one
<1>3. QED
  BY <1>1, <1>2, MarkTerminalInv

\* Dropping the reservations of ids frees exactly the slots they held, and the
\* clamp at zero never bites.
LEMMA ReleaseInv ==
  ASSUME Core, NEW ids \in SUBSET Request, ReleaseReservations(ids)
  PROVE  /\ reservations' \in [Request -> Optional(Nat)]
         /\ Reserved' = Reserved \ ids
         /\ in_flight' \in Nat
         /\ SlotAccounting'
<1>1. /\ reservations' \in [Request -> Optional(Nat)]
      /\ Reserved' = Reserved \ ids
  BY DEF Core, ReleaseReservations, Reserved, Optional
<1>2. Cardinality(Reserved \ ids) = Cardinality(Reserved) - Cardinality(Reserved \cap ids)
  BY ReservedFinite, FS_Difference
<1>3. Cardinality(Reserved \ ids) \in Nat
  BY ReservedFinite, FS_Difference, FS_CardinalityType
<1>4. Cardinality(Reserved \cap ids) \in Nat
  BY ReservedFinite, FS_Intersection, FS_CardinalityType
<1>5. ids \cap Reserved = Reserved \cap ids
  OBVIOUS
<1>6. in_flight = Cardinality(Reserved) /\ in_flight <= MaxInFlight
  BY DEF Core, SlotAccounting
<1>7. in_flight' = NonNegative(in_flight - Cardinality(Reserved \cap ids))
  BY <1>5 DEF ReleaseReservations
<1>8. in_flight' = Cardinality(Reserved \ ids)
  BY <1>2, <1>3, <1>4, <1>6, <1>7, ReservedFinite DEF NonNegative
<1>9. in_flight' <= MaxInFlight
  BY <1>2, <1>3, <1>4, <1>6, <1>8, ReservedFinite, LimitAssumption
<1>10. QED
  BY <1>1, <1>3, <1>8, <1>9 DEF SlotAccounting

-----------------------------------------------------------------------------
(* The Signal handlers *)

\* apply_permit_request keeps the core, and nothing granted is forgotten: the id
\* it queues or denies is neither reserved nor in the window.
LEMMA ApplyRequestInv ==
  ASSUME Core, NEW r \in Request, ApplyRequest(r)
  PROVE  Core' /\ Kept \subseteq Kept'
<1> USE DEF ApplyRequest
<1>1. UNCHANGED <<Reserved, Terminal, evicted>>
  BY DEF Reserved, Terminal
<1>2. pending \in Seq(Request) /\ NoRepeats(pending) /\ Len(pending) \in Nat
      /\ pending_denials \in Seq(Request)
  BY LenProperties DEF Core, LifeStages
<1>3. pending_denials' \in Seq(Request)
  BY <1>2, AppendProperties
<1>4. CASE pending' = pending
  BY <1>1, <1>3, <1>4 DEF Core, Kept, SlotAccounting, LifeStages, Pending, NoRepeats
<1>5. CASE pending' # pending
  <2> DEFINE one == <<r>>
  <2>1. /\ pending' = pending \o one
        /\ r \notin Known /\ ~disabled
        /\ ~(Len(pending) >= MaxPending)
    BY <1>2, <1>5, AppendIsConcat DEF Enqueue
  <2>6. one \in Seq(Request) /\ NoRepeats(one) /\ Range(one) = {r} /\ Len(one) = 1
    BY SingletonList
  <2> HIDE DEF one
  <2>2. pending' \in Seq(Request) /\ Range(pending') = Pending \cup {r}
        /\ Len(pending') = Len(pending) + 1
    <3> HIDE DEF ApplyRequest
    <3>1. pending' \in Seq(Request) /\ Len(pending') = Len(pending) + Len(one)
      BY <1>2, <2>1, <2>6, ConcatProperties
    <3>2. Range(pending \o one) = Range(pending) \cup Range(one)
      BY <1>2, <2>6, RangeConcatenation
    <3>3. QED
      BY <2>1, <2>6, <3>1, <3>2 DEF Pending
  <2>3. NoRepeats(pending')
    BY <1>2, <2>1, <2>6, ConcatNoRepeats DEF Known, Pending
  <2>4. Len(pending') <= MaxPending
    BY <1>2, <2>1, <2>2, LimitAssumption
  <2>5. QED
    BY <1>1, <1>3, <2>1, <2>2, <2>3, <2>4
    DEF Core, Kept, SlotAccounting, LifeStages, Pending, Known, NoRepeats
<1>6. QED
  BY <1>4, <1>5

\* apply_cancel_permit keeps the core: the id leaves the queue or its slot and
\* enters the window in one step.
LEMMA ApplyCancelInv ==
  ASSUME Core, NEW r \in Request, ApplyCancel(r)
  PROVE  Core' /\ Kept \subseteq Kept'
<1>1. CASE r \in Terminal
  BY <1>1 DEF ApplyCancel, Core, Kept, SlotAccounting, LifeStages, Pending, Reserved,
              Terminal, NoRepeats
<1>2. CASE r \notin Terminal
  <2>1. /\ pending' = Without(pending, {r})
        /\ MarkTerminal(<<r>>)
        /\ IF r \in Pending THEN UNCHANGED <<reservations, in_flight>>
                            ELSE ReleaseReservations({r})
        /\ UNCHANGED <<configured_limit, remaining, reset_at, blocked_until,
                       disabled, window, pending_denials, fenced>>
    BY <1>2 DEF ApplyCancel
  <2>2. /\ pending' \in Seq(Request)
        /\ Len(pending') <= Len(pending)
        /\ Pending' = Pending \ {r}
        /\ NoRepeats(pending')
    BY <2>1, WithoutProperties DEF Core, LifeStages, Pending
  <2>3. /\ reservations' \in [Request -> Optional(Nat)]
        /\ Reserved' = Reserved \ {r}
        /\ in_flight' \in Nat
        /\ SlotAccounting'
    <3>1. CASE r \in Pending
      BY <2>1, <3>1 DEF Core, LifeStages, Reserved, SlotAccounting
    <3>2. CASE r \notin Pending
      BY <2>1, <3>2, ReleaseInv
    <3>3. QED
      BY <3>1, <3>2
  <2>4. /\ recent_terminal' \in Seq(Request)
        /\ NoRepeats(recent_terminal)'
        /\ Len(recent_terminal') <= DedupWindow
        /\ Terminal' \subseteq Terminal \cup {r}
        /\ evicted' \in SUBSET Request
        /\ evicted \subseteq evicted'
        /\ Terminal \cup {r} \subseteq Terminal' \cup evicted'
    BY <1>2, <2>1, MarkOneInv
  <2>5. Len(pending') <= MaxPending
    BY <2>2, LenProperties, LimitAssumption DEF Core, LifeStages
  <2>6. disabled' => pending' = <<>>
    <3> SUFFICES ASSUME disabled'
                 PROVE  pending' = <<>>
      OBVIOUS
    <3>1. Len(pending) = 0
      BY <2>1 DEF Core, LifeStages
    <3>2. Len(pending') = 0
      BY <3>1, <2>2, LenProperties
    <3>3. QED
      BY <3>2, <2>2, EmptySeq
  <2>7. LifeStages'
    BY <2>2, <2>3, <2>4, <2>5, <2>6 DEF Core, LifeStages, NoRepeats
  <2>8. QED
    BY <2>1, <2>2, <2>3, <2>4, <2>7 DEF Core, Kept
<1>3. QED
  BY <1>1, <1>2

\* Shrinking the queue keeps its cap, and an empty queue stays empty.
LEMMA ShorterQueue ==
  ASSUME Core, pending' \in Seq(Request), Len(pending') <= Len(pending), disabled' = disabled
  PROVE  Len(pending') <= MaxPending /\ (disabled' => pending' = <<>>)
<1>1. Len(pending') <= MaxPending
  BY LenProperties, LimitAssumption DEF Core, LifeStages
<1>2. ASSUME disabled' PROVE pending' = <<>>
  <2>1. Len(pending) = 0
    BY <1>2 DEF Core, LifeStages
  <2>2. Len(pending') = 0
    BY <2>1, LenProperties
  <2>3. QED
    BY <2>2, EmptySeq
<1>3. QED
  BY <1>1, <1>2

\* Cancelling a generation finishes exactly its pending and granted ids.
LEMMA ApplyCancelGenerationInv ==
  ASSUME Core, NEW g \in Generations, ApplyCancelGeneration(g)
  PROVE  Core' /\ Kept \subseteq Kept'
<1> DEFINE canceled == {r \in Pending \cup Reserved : Generation[r] = g}
           ids == Sorted(canceled)
<1>1. /\ pending' = Without(pending, canceled)
      /\ ReleaseReservations(canceled)
      /\ MarkTerminal(ids)
      /\ fenced' = fenced \cup {g}
      /\ UNCHANGED <<configured_limit, remaining, reset_at, blocked_until,
                     disabled, window, pending_denials>>
  BY DEF ApplyCancelGeneration
<1>2. pending \in Seq(Request) /\ NoRepeats(pending)
  BY DEF Core, LifeStages
<1>3. canceled \subseteq Pending \cup Reserved /\ canceled \in SUBSET Request
  BY <1>2, RangeOfSeq DEF Pending, Reserved
<1> HIDE DEF canceled
<1>4. IsFiniteSet(canceled) /\ canceled \in SUBSET Int
  <2>1. IsFiniteSet(canceled)
    BY <1>3, RequestAssumption, FS_Subset
  <2>2. canceled \in SUBSET Int
    BY <1>3, RequestAssumption
  <2>3. QED
    BY <2>1, <2>2
<1>5. ids \in Seq(canceled) /\ NoRepeats(ids) /\ Range(ids) = canceled
  BY <1>4, SortedProperties
<1> HIDE DEF ids
<1>6. ids \in Seq(Request)
  BY <1>3, <1>5
<1>7. /\ pending' \in Seq(Request)
      /\ Len(pending') <= Len(pending)
      /\ Pending' = Pending \ canceled
      /\ NoRepeats(pending')
  BY <1>1, <1>2, WithoutProperties DEF Pending
<1>8. /\ reservations' \in [Request -> Optional(Nat)]
      /\ Reserved' = Reserved \ canceled
      /\ in_flight' \in Nat
      /\ SlotAccounting'
  BY <1>1, <1>3, ReleaseInv
<1>9. Range(ids) \cap Terminal = {}
  BY <1>3, <1>5 DEF Core, LifeStages
<1>10. /\ recent_terminal' \in Seq(Request)
       /\ NoRepeats(recent_terminal)'
       /\ Len(recent_terminal') <= DedupWindow
       /\ Terminal' \subseteq Terminal \cup canceled
       /\ evicted' \in SUBSET Request
       /\ evicted \subseteq evicted'
       /\ Terminal \cup canceled \subseteq Terminal' \cup evicted'
  BY <1>1, <1>5, <1>6, <1>9, MarkTerminalInv
<1>11. Len(pending') <= MaxPending /\ (disabled' => pending' = <<>>)
  BY <1>1, <1>7, ShorterQueue
<1>12. LifeStages'
  BY <1>7, <1>8, <1>10, <1>11 DEF Core, LifeStages, NoRepeats
<1>13. QED
  BY <1>1, <1>7, <1>8, <1>10, <1>12 DEF Core, Kept

\* A completion frees its slot only when it names the permit that is reserved.
LEMMA ApplyCompleteInv ==
  ASSUME Core, NEW r \in Request, NEW w \in Nat, ApplyComplete(r, w)
  PROVE  Core' /\ Kept \subseteq Kept'
<1>1. CASE r \notin Terminal /\ r \in Reserved /\ reservations[r] = w
  <2>1. /\ ReleaseReservations({r})
        /\ MarkTerminal(<<r>>)
        /\ UNCHANGED <<configured_limit, remaining, reset_at, blocked_until,
                       disabled, pending, window, pending_denials, fenced>>
    BY <1>1 DEF ApplyComplete
  <2>2. /\ reservations' \in [Request -> Optional(Nat)]
        /\ Reserved' = Reserved \ {r}
        /\ in_flight' \in Nat
        /\ SlotAccounting'
    BY <2>1, ReleaseInv
  <2>3. /\ recent_terminal' \in Seq(Request)
        /\ NoRepeats(recent_terminal)'
        /\ Len(recent_terminal') <= DedupWindow
        /\ Terminal' \subseteq Terminal \cup {r}
        /\ evicted' \in SUBSET Request
        /\ evicted \subseteq evicted'
        /\ Terminal \cup {r} \subseteq Terminal' \cup evicted'
    BY <1>1, <2>1, MarkOneInv
  <2>4. Pending' = Pending
    BY <2>1 DEF Pending
  <2>5. LifeStages'
    BY <1>1, <2>1, <2>2, <2>3, <2>4 DEF Core, LifeStages, NoRepeats
  <2>6. QED
    BY <2>1, <2>2, <2>3, <2>5 DEF Core, Kept
<1>2. CASE ~(r \notin Terminal /\ r \in Reserved /\ reservations[r] = w)
  BY <1>2 DEF ApplyComplete, Core, Kept, SlotAccounting, LifeStages, Pending, Reserved,
              Terminal, NoRepeats
<1>3. QED
  BY <1>1, <1>2

\* An observation changes only the balance and the boundaries, and neither
\* becomes negative.
LEMMA ApplyObservationInv ==
  ASSUME Core, NEW o \in Observation, NEW at \in Nat, ApplyObservation(o, at)
  PROVE  Core' /\ Kept \subseteq Kept'
<1>1. /\ o.limit \in Optional(Int) /\ o.remaining \in Optional(Int)
      /\ o.reset_at \in Optional(Nat) /\ o.retry_after \in Optional(Int)
  BY ObservationAssumption
<1>2. UNCHANGED <<in_flight, disabled, pending, reservations, recent_terminal,
                  window, pending_denials, evicted, fenced>>
  BY DEF ApplyObservation
<1>3. UNCHANGED <<Pending, Reserved, Terminal>>
  BY <1>2 DEF Pending, Reserved, Terminal
<1>4. \A n \in Int : NonNegative(n) \in Nat
  BY DEF NonNegative
<1>5. \A s, t \in Optional(Nat) : Later(s, t) \in Optional(Nat)
  BY DEF Later, Optional
<1>6. LowerBalance(o) \in Optional(Nat)
  BY <1>1, <1>4 DEF LowerBalance, Core, Optional
<1>7. /\ configured_limit' \in Optional(Nat)
      /\ remaining' \in Optional(Nat)
      /\ reset_at' \in Optional(Nat)
      /\ blocked_until' \in Optional(Nat)
  <2>1. CASE ~o.in_scope
    BY <2>1 DEF ApplyObservation, Core
  <2>2. CASE o.in_scope
    <3> DEFINE retry == RetryAt(o, at)
    <3>1. retry \in Optional(Nat)
      BY <1>1, <1>4, LimitAssumption DEF Optional, RetryAt
    <3>2. /\ configured_limit' =
               IF o.limit # None THEN NonNegative(o.limit) ELSE configured_limit
          /\ remaining' = IF o.exhausted THEN 0 ELSE LowerBalance(o)
          /\ reset_at' = Later(reset_at, o.reset_at)
          /\ blocked_until' = IF o.exhausted
                              THEN Later(blocked_until, Later(o.reset_at, retry))
                              ELSE blocked_until
      BY <2>2 DEF ApplyObservation
    <3> HIDE DEF retry
    <3>3. configured_limit' \in Optional(Nat)
      BY <3>2, <1>1, <1>4 DEF Core, Optional
    <3>4. remaining' \in Optional(Nat)
      BY <3>2, <1>6 DEF Optional
    <3>5. reset_at' \in Optional(Nat)
      BY <3>2, <1>1, <1>5 DEF Core
    <3>6. blocked_until' \in Optional(Nat)
      BY <3>1, <3>2, <1>1, <1>5 DEF Core
    <3>7. QED
      BY <3>3, <3>4, <3>5, <3>6
  <2>3. QED
    BY <2>1, <2>2
<1>8. QED
  BY <1>2, <1>3, <1>7 DEF Core, Kept, SlotAccounting, LifeStages, NoRepeats

\* Disabling finishes every queued id.
LEMMA ApplyDisableInv ==
  ASSUME Core, ApplyDisable
  PROVE  Core' /\ Kept \subseteq Kept'
<1>1. /\ disabled' = TRUE
      /\ UNCHANGED <<configured_limit, remaining, reset_at, blocked_until,
                     in_flight, reservations, window, fenced>>
  BY DEF ApplyDisable
<1>2. Reserved' = Reserved
  BY <1>1 DEF Reserved
<1>3. CASE disabled
  BY <1>1, <1>2, <1>3 DEF ApplyDisable, Core, Kept, SlotAccounting, LifeStages,
                          Pending, Terminal, NoRepeats
<1>4. CASE ~disabled
  <2>1. /\ pending' = <<>>
        /\ MarkTerminal(pending)
        /\ pending_denials' = pending_denials \o pending
    BY <1>4 DEF ApplyDisable
  <2>2. pending \in Seq(Request) /\ NoRepeats(pending) /\ Pending \cap Terminal = {}
    BY DEF Core, LifeStages
  <2>3. /\ recent_terminal' \in Seq(Request)
        /\ NoRepeats(recent_terminal)'
        /\ Len(recent_terminal') <= DedupWindow
        /\ Terminal' \subseteq Terminal \cup Pending
        /\ evicted' \in SUBSET Request
        /\ evicted \subseteq evicted'
        /\ Terminal \cup Pending \subseteq Terminal' \cup evicted'
    BY <2>1, <2>2, MarkTerminalInv DEF Pending
  <2>4. pending_denials' \in Seq(Request)
    BY <2>1, <2>2, ConcatProperties DEF Core
  <2>5. /\ Pending' = {} /\ Len(pending') = 0
        /\ NoRepeats(pending') /\ pending' \in Seq(Request)
    BY <2>1 DEF Pending, NoRepeats, Range
  <2>6. LifeStages'
    BY <1>2, <2>1, <2>3, <2>5, LimitAssumption DEF Core, LifeStages, NoRepeats
  <2>7. QED
    BY <1>1, <1>2, <2>3, <2>4, <2>5, <2>6 DEF Core, Kept, SlotAccounting
<1>5. QED
  BY <1>3, <1>4

\* Every Signal, at once or deferred, keeps the core and forgets no id silently.
LEMMA ApplyInv ==
  ASSUME Core, NEW m \in Message, Apply(m)
  PROVE  Core' /\ Kept \subseteq Kept' /\ dirty' = TRUE
<1>1. CASE m.type = "request" /\ ApplyRequest(m.request)
  BY <1>1, ApplyRequestInv DEF Message, Apply
<1>2. CASE m.type = "cancel" /\ ApplyCancel(m.request)
  BY <1>2, ApplyCancelInv DEF Message, Apply
<1>3. CASE m.type = "cancel_generation" /\ ApplyCancelGeneration(m.generation)
  BY <1>3, ApplyCancelGenerationInv DEF Message, Apply
<1>4. CASE m.type = "complete" /\ ApplyComplete(m.request, m.window)
  BY <1>4, ApplyCompleteInv DEF Message, Apply
<1>5. CASE m.type = "observe" /\ ApplyObservation(m.observation, m.at)
  BY <1>5, ApplyObservationInv DEF Message, Apply
<1>6. CASE m.type = "disable" /\ ApplyDisable
  BY <1>6, ApplyDisableInv DEF Apply
<1>7. QED
  BY <1>1, <1>2, <1>3, <1>4, <1>5, <1>6 DEF Apply

\* A step that leaves the state and the queued denials alone keeps the core.
LEMMA CoreFrame ==
  ASSUME Core, UNCHANGED <<stateVars, pending_denials, evicted, fenced>>
  PROVE  Core' /\ Kept' = Kept
BY DEF stateVars, Core, Kept, SlotAccounting, LifeStages, Pending, Reserved, Terminal,
       NoRepeats

\* A delivered Signal keeps the whole invariant but for the caller's record.
LEMMA ReceiveInv ==
  ASSUME IInv, NEW m \in Message, Receive(m),
         caller' \in [Request -> {"idle", "waiting", "holding", "done"}]
  PROVE  IInv'
<1>1. Core' /\ Kept \subseteq Kept' /\ dirty' = TRUE /\ deferred' \in Seq(Message)
  <2>1. CASE pc = "start"
    <3>1. deferred' = Append(deferred, m) /\ dirty' = TRUE
          /\ UNCHANGED <<stateVars, pending_denials, evicted, fenced>>
      BY <2>1 DEF Receive
    <3>2. deferred' \in Seq(Message)
      BY <3>1, AppendProperties DEF IInv, RunOK
    <3>3. QED
      BY <3>1, <3>2, CoreFrame DEF IInv
  <2>2. CASE pc # "start"
    BY <2>2, ApplyInv DEF Receive, IInv, RunOK
  <2>3. QED
    BY <2>1, <2>2
<1>2. UNCHANGED <<pc, rollover, grants, denials, sending, now, issued, refilled_at>>
  BY DEF Receive
<1>3. QED
  BY <1>1, <1>2 DEF IInv, RunOK, IssuedIsKept

\* Every Signal a caller, a deactivation or a reporter can send keeps the
\* invariant.
LEMMA SignalsInv ==
  ASSUME IInv, Signals
  PROVE  IInv'
<1> USE DEF IInv, RunOK
<1>1. ASSUME NEW r \in Request, RequestPermit(r) PROVE IInv'
  BY <1>1, ReceiveInv DEF RequestPermit, Message
<1>2. ASSUME NEW r \in Request, CancelPermit(r) PROVE IInv'
  BY <1>2, ReceiveInv DEF CancelPermit, Message
<1>3. ASSUME NEW p \in issued, PermitCompleted(p) PROVE IInv'
  <2>1. p.request \in Request /\ p.window \in Nat
    BY DEF Permit
  <2>2. [type |-> "complete", request |-> p.request, window |-> p.window] \in Message
    BY <2>1 DEF Message
  <2>3. QED
    BY <1>3, <2>1, <2>2, ReceiveInv DEF PermitCompleted
<1>4. ASSUME NEW g \in Generations, CancelGeneration(g) PROVE IInv'
  BY <1>4, ReceiveInv DEF CancelGeneration, Message
<1>5. ASSUME NEW o \in Observation, ObserveQuota(o) PROVE IInv'
  BY <1>5, ReceiveInv DEF ObserveQuota, Message
<1>6. CASE DisableScope
  BY <1>6, ReceiveInv DEF DisableScope, Message
<1>7. QED
  BY <1>1, <1>2, <1>3, <1>4, <1>5, <1>6 DEF Signals

-----------------------------------------------------------------------------
(* The run loop *)

\* Compaction changes nothing: the counter is already right and the window
\* within its cap.
LEMMA CompactIsIdle ==
  ASSUME Core, Compact
  PROVE  UNCHANGED <<in_flight, recent_terminal, evicted>>
<1>1. Newest(recent_terminal, DedupWindow) = recent_terminal
  BY NewestProperties, LimitAssumption DEF Core, LifeStages
<1>2. QED
  BY <1>1 DEF Compact, Terminal, Core, SlotAccounting

\* One iteration of the granting loop takes a free slot for the head of the
\* queue and pays for it.
LEMMA GrantInv ==
  ASSUME IInv, Grant
  PROVE  IInv'
<1> DEFINE r == Head(pending)
           p == [request |-> r, window |-> window]
<1>1. /\ pc = "grant" /\ CanGrant
      /\ pending' = Tail(pending)
      /\ reservations' = [reservations EXCEPT ![r] = window]
      /\ in_flight' = in_flight + 1
      /\ remaining' = IF remaining = None THEN None ELSE remaining - Cost[r]
      /\ grants' = Append(grants, p)
      /\ issued' = issued \cup {p}
      /\ UNCHANGED <<configured_limit, reset_at, blocked_until, disabled,
                     recent_terminal, window, pc, dirty, rollover, deferred,
                     pending_denials, denials, sending, now, caller, refilled_at,
                     evicted, fenced>>
  BY DEF Grant, Turn
<1>2. /\ pending \in Seq(Request) /\ pending # <<>> /\ NoRepeats(pending)
      /\ in_flight < MaxInFlight /\ ~disabled
      /\ remaining # None => remaining >= Cost[r]
      /\ window \in Nat
  BY <1>1 DEF IInv, Core, LifeStages, CanGrant, Affordable, Turn, Blocked
<1>3. /\ pending' \in Seq(Request) /\ Len(pending') <= Len(pending)
      /\ NoRepeats(pending') /\ Pending = Pending' \cup {r} /\ r \notin Pending'
      /\ r \in Request
  BY <1>1, <1>2, TailProperties DEF Pending
<1> HIDE DEF r
<1>4. Reserved' = Reserved \cup {r} /\ r \notin Reserved
      /\ reservations' \in [Request -> Optional(Nat)]
  BY <1>1, <1>2, <1>3, LimitAssumption DEF IInv, Core, LifeStages, Reserved, Optional
<1>5. SlotAccounting' /\ in_flight' \in Nat
  <2>1. Cardinality(Reserved \cup {r}) = Cardinality(Reserved) + 1
    BY <1>4, ReservedFinite, FS_AddElement
  <2>2. QED
    BY <1>1, <1>2, <1>4, <2>1, LimitAssumption DEF IInv, Core, SlotAccounting
<1>6. remaining' \in Optional(Nat)
  <2>1. Cost[r] \in Nat
    BY <1>3, RequestAssumption
  <2>2. QED
    BY <1>1, <1>2, <2>1 DEF IInv, Core, Optional
<1>7. Terminal' = Terminal
  BY <1>1 DEF Terminal
<1>8. Len(pending') <= MaxPending
  BY <1>1, <1>3, ShorterQueue DEF IInv
<1>9. LifeStages'
  BY <1>1, <1>2, <1>3, <1>4, <1>7, <1>8 DEF IInv, Core, LifeStages, NoRepeats
<1>10. Core'
  BY <1>1, <1>3, <1>4, <1>5, <1>6, <1>9 DEF IInv, Core
<1>11. p \in Permit
  BY <1>2, <1>3 DEF Permit
<1>12. p.request = r
  OBVIOUS
<1> HIDE DEF p
<1>13. grants' \in Seq(Permit)
  BY <1>1, <1>11, AppendProperties DEF IInv, RunOK
<1>14. RunOK'
  BY <1>1, <1>11, <1>13 DEF IInv, RunOK
<1>15. IssuedIsKept'
  BY <1>1, <1>4, <1>7, <1>12 DEF IInv, IssuedIsKept, Kept
<1>16. QED
  BY <1>10, <1>14, <1>15 DEF IInv

\* A new window or a boundary that moves keeps the balance and the instants
\* well formed.
LEMMA BeginRoundInv ==
  ASSUME IInv, BeginRound
  PROVE  IInv'
<1>1. /\ AdvanceWindow
      /\ pc' = "grant"
      /\ UNCHANGED <<configured_limit, in_flight, disabled, pending, reservations,
                     recent_terminal, dirty, deferred, pending_denials, grants,
                     denials, sending, now, caller, issued, evicted, fenced>>
  BY DEF BeginRound
<1>2. /\ window' \in Nat
      /\ remaining' \in Optional(Nat)
      /\ blocked_until' \in Optional(Nat)
      /\ reset_at' \in Optional(Nat)
      /\ rollover' \in BOOLEAN
      /\ refilled_at' \in Optional(Nat)
  <2> DEFINE resetDue == Due(reset_at)
             early    == Due(blocked_until) /\ reset_at # None /\ ~resetDue
             blockDue == Due(blocked_until) /\ ~early
             b == IF blockDue THEN blocked_until ELSE None
             r == IF resetDue THEN reset_at ELSE None
  <2>1. /\ configured_limit \in Optional(Nat) /\ remaining \in Optional(Nat)
        /\ reset_at \in Optional(Nat) /\ blocked_until \in Optional(Nat)
        /\ window \in Nat /\ rollover \in BOOLEAN /\ refilled_at \in Optional(Nat)
    BY DEF IInv, Core, RunOK
  <2>2. b \in Optional(Nat) /\ r \in Optional(Nat)
    BY <2>1 DEF Optional
  <2>3. Later(b, r) \in Optional(Nat)
    BY <2>2 DEF Later
  <2>4. CASE blockDue \/ resetDue
    <3>1. /\ window' = window + 1
          /\ remaining' = configured_limit
          /\ blocked_until' = IF blockDue THEN None ELSE blocked_until
          /\ reset_at' = IF resetDue THEN None ELSE reset_at
          /\ rollover' = TRUE
          /\ refilled_at' = Later(b, r)
      BY <1>1, <2>4 DEF AdvanceWindow
    <3> HIDE DEF blockDue, resetDue, b, r
    <3>2. QED
      BY <2>1, <2>3, <3>1 DEF Optional
  <2>5. CASE ~(blockDue \/ resetDue)
    BY <1>1, <2>1, <2>5 DEF AdvanceWindow
  <2>6. QED
    BY <2>4, <2>5
<1>3. UNCHANGED <<Pending, Reserved, Terminal>>
  BY <1>1 DEF Pending, Reserved, Terminal
<1>4. QED
  BY <1>1, <1>2, <1>3 DEF IInv, Core, RunOK, IssuedIsKept, Kept, SlotAccounting,
                          LifeStages, NoRepeats

\* Every step of the run loop keeps the invariant.
LEMMA LoopInv ==
  ASSUME IInv, Loop
  PROVE  IInv'
<1>1. CASE Initialize
  <2>1. UNCHANGED <<stateVars, pending_denials, evicted, fenced>>
    BY <1>1, CompactIsIdle DEF IInv, Initialize, stateVars
  <2>2. QED
    BY <1>1, <2>1, CoreFrame DEF Initialize, IInv, RunOK, IssuedIsKept
<1>2. CASE ApplyDeferred
  <2>1. /\ deferred \in Seq(Message) /\ deferred # <<>>
        /\ Apply(Head(deferred))
        /\ deferred' = Tail(deferred)
        /\ UNCHANGED <<pc, rollover, grants, denials, sending, now, caller, issued,
                       refilled_at>>
    BY <1>2 DEF ApplyDeferred, IInv, RunOK
  <2>2. Head(deferred) \in Message /\ deferred' \in Seq(Message)
    BY <2>1, HeadTailProperties
  <2>3. Core' /\ Kept \subseteq Kept' /\ dirty' = TRUE
    BY <2>1, <2>2, ApplyInv DEF IInv
  <2>4. QED
    BY <2>1, <2>2, <2>3 DEF IInv, RunOK, IssuedIsKept
<1>3. CASE BeginRound
  BY <1>3, BeginRoundInv
<1>4. CASE Grant
  BY <1>4, GrantInv
<1>5. CASE BeginDelivery
  <2>1. /\ UNCHANGED <<configured_limit, remaining, reset_at, blocked_until, in_flight,
                       disabled, pending, reservations, recent_terminal, window,
                       evicted, fenced, issued, refilled_at>>
        /\ pending_denials' = <<>> /\ denials' = pending_denials
    BY <1>5 DEF BeginDelivery, stateVars, histVars
  <2>2. pending_denials' \in Seq(Request)
    BY <2>1
  <2>3. UNCHANGED <<Pending, Reserved, Terminal>>
    BY <2>1 DEF Pending, Reserved, Terminal
  <2>4. Core' /\ Kept' = Kept
    BY <2>1, <2>2, <2>3 DEF IInv, Core, Kept, SlotAccounting, LifeStages, NoRepeats
  <2>5. RunOK'
    BY <1>5, <2>1 DEF BeginDelivery, IInv, Core, RunOK
  <2>6. QED
    BY <2>1, <2>4, <2>5 DEF IInv, IssuedIsKept
<1>6. CASE SendGrant
  <2>1. UNCHANGED <<stateVars, pending_denials, evicted, fenced>>
    BY <1>6 DEF SendGrant, histVars
  <2>2. /\ grants \in Seq(Permit) /\ grants # <<>> /\ grants' = Tail(grants)
        /\ pc = "deliver"
    BY <1>6 DEF SendGrant, IInv, RunOK
  <2>3. grants' \in Seq(Permit) /\ Head(grants) \in Permit
    BY <2>2, HeadTailProperties
  <2>4. Head(grants).request \in Request
    BY <2>3 DEF Permit
  <2>5. sending' \in Optional({"grant", "denial"} \X Request)
        /\ pc' \in {"deliver", "sending"}
        /\ (pc' = "sending" => sending' \in {"grant", "denial"} \X Request)
    BY <1>6, <2>2, <2>4 DEF SendGrant, IInv, RunOK, Optional
  <2>6. QED
    BY <1>6, <2>1, <2>3, <2>5, CoreFrame DEF SendGrant, histVars, IInv, RunOK, IssuedIsKept
<1>7. CASE SendDenial
  <2>1. UNCHANGED <<stateVars, pending_denials, evicted, fenced>>
    BY <1>7 DEF SendDenial, histVars
  <2>2. /\ denials \in Seq(Request) /\ denials # <<>> /\ denials' = Tail(denials)
        /\ sending' = <<"denial", Head(denials)>> /\ pc' = "sending"
    BY <1>7 DEF SendDenial, IInv, RunOK
  <2>3. denials' \in Seq(Request) /\ Head(denials) \in Request
    BY <2>2, HeadTailProperties
  <2>4. sending' \in {"grant", "denial"} \X Request
    BY <2>2, <2>3
  <2>5. QED
    BY <1>7, <2>1, <2>2, <2>3, <2>4, CoreFrame
    DEF SendDenial, histVars, IInv, RunOK, IssuedIsKept, Optional
<1>8. CASE Delivered
  <2>1. UNCHANGED <<stateVars, pending_denials, evicted, fenced>>
    BY <1>8 DEF Delivered, histVars
  <2>2. QED
    BY <1>8, <2>1, CoreFrame DEF Delivered, histVars, IInv, RunOK, IssuedIsKept, Optional
<1>9. CASE DeliveryFailed
  <2>1. sending \in {"grant", "denial"} \X Request
    BY <1>9 DEF DeliveryFailed, IInv, RunOK, Optional
  <2>2. Core' /\ Kept \subseteq Kept' /\ dirty' \in BOOLEAN
    <3>1. CASE sending[1] = "grant" /\ ApplyCancel(sending[2]) /\ dirty' = TRUE
      BY <2>1, <3>1, ApplyCancelInv DEF IInv
    <3>2. CASE sending[1] = "denial" /\ UNCHANGED <<stateVars, pending_denials, dirty,
                                                    evicted, fenced>>
      BY <3>2, CoreFrame DEF IInv, RunOK
    <3>3. QED
      BY <1>9, <3>1, <3>2 DEF DeliveryFailed
  <2>3. QED
    BY <1>9, <2>2 DEF DeliveryFailed, IInv, RunOK, IssuedIsKept, Optional
<1>10. CASE ContinueAsNew
  <2>1. UNCHANGED <<stateVars, pending_denials, evicted, fenced>>
    BY <1>10, CompactIsIdle DEF IInv, ContinueAsNew, MayContinueAsNew, stateVars
  <2>2. QED
    BY <1>10, <2>1, CoreFrame DEF ContinueAsNew, IInv, RunOK, IssuedIsKept
<1>11. CASE Wait
  <2>1. UNCHANGED <<stateVars, pending_denials, evicted, fenced>>
    BY <1>11 DEF Wait, histVars
  <2>2. QED
    BY <1>11, <2>1, CoreFrame DEF Wait, histVars, IInv, RunOK, IssuedIsKept
<1>12. QED
  BY <1>1, <1>2, <1>3, <1>4, <1>5, <1>6, <1>7, <1>8, <1>9, <1>10, <1>11 DEF Loop

\* The initial state satisfies the invariant.
LEMMA InitInv == Init => IInv
<1> SUFFICES ASSUME Init PROVE IInv
  OBVIOUS
<1> USE DEF Init
<1>1. Reserved = {} /\ Pending = {} /\ Terminal = {}
  BY DEF Reserved, Pending, Terminal, Range
<1>2. SlotAccounting
  BY <1>1, FS_EmptySet, LimitAssumption DEF SlotAccounting
<1>3. LifeStages
  BY <1>1, LimitAssumption DEF LifeStages, NoRepeats
<1>4. Core
  <2>1. pending \in Seq(Request) /\ recent_terminal \in Seq(Request)
        /\ pending_denials \in Seq(Request)
    OBVIOUS
  <2>2. /\ configured_limit \in Optional(Nat) /\ remaining \in Optional(Nat)
        /\ reset_at \in Optional(Nat) /\ blocked_until \in Optional(Nat)
        /\ reservations \in [Request -> Optional(Nat)]
    BY LimitAssumption DEF Optional
  <2>3. /\ in_flight \in Nat /\ disabled \in BOOLEAN /\ window \in Nat
        /\ evicted \in SUBSET Request /\ fenced \in SUBSET Generations
    OBVIOUS
  <2>4. QED
    BY <1>2, <1>3, <2>1, <2>2, <2>3 DEF Core
<1>5. RunOK
  <2>1. deferred \in Seq(Message) /\ grants \in Seq(Permit) /\ denials \in Seq(Request)
    OBVIOUS
  <2>2. /\ pc = "start" /\ dirty \in BOOLEAN /\ rollover \in BOOLEAN /\ now \in Nat
        /\ caller \in [Request -> {"idle", "waiting", "holding", "done"}]
        /\ issued \in SUBSET Permit
    OBVIOUS
  <2>3. /\ sending \in Optional({"grant", "denial"} \X Request)
        /\ refilled_at \in Optional(Nat)
    BY DEF Optional
  <2>4. QED
    BY <2>1, <2>2, <2>3 DEF RunOK
<1>6. QED
  BY <1>4, <1>5 DEF IInv, IssuedIsKept

\* Every step keeps the invariant.
LEMMA NextInv == IInv /\ [Next]_vars => IInv'
<1> SUFFICES ASSUME IInv, [Next]_vars PROVE IInv'
  OBVIOUS
<1>1. CASE Signals
  BY <1>1, SignalsInv
<1>2. CASE Loop
  BY <1>2, LoopInv
<1>3. CASE SuggestContinueAsNew
  <2>1. UNCHANGED <<stateVars, pending_denials, evicted, fenced>>
    BY <1>3 DEF SuggestContinueAsNew, histVars
  <2>2. QED
    BY <1>3, <2>1, CoreFrame DEF SuggestContinueAsNew, histVars, IInv, RunOK, IssuedIsKept
<1>4. CASE Tick
  <2>1. UNCHANGED <<stateVars, pending_denials, evicted, fenced>>
    BY <1>4 DEF Tick, runVars, histVars
  <2>2. QED
    BY <1>4, <2>1, CoreFrame DEF Tick, runVars, histVars, IInv, RunOK, IssuedIsKept
<1>5. CASE UNCHANGED vars
  <2>1. UNCHANGED <<stateVars, pending_denials, evicted, fenced>>
    BY <1>5 DEF vars, runVars, histVars
  <2>2. QED
    BY <1>5, <2>1, CoreFrame DEF vars, runVars, histVars, IInv, RunOK, IssuedIsKept
<1>6. QED
  BY <1>1, <1>2, <1>3, <1>4, <1>5 DEF Next

\* The inductive invariant holds in every reachable state.
THEOREM Invariant == Spec => []IInv
<1>1. Init => IInv
  BY InitInv
<1>2. IInv /\ [Next]_vars => IInv'
  BY NextInv
<1>3. QED
  BY <1>1, <1>2, PTL DEF Spec



\* The in-flight counter of the coordinator is the number of live reservations
\* and never passes USER_QUOTA_MAX_IN_FLIGHT.
THEOREM SlotsAccounted == Spec => []SlotAccounting
<1>1. IInv => SlotAccounting
  BY DEF IInv, Core
<1>2. QED
  BY <1>1, Invariant, PTL

\* An id is queued, reserved or finished, never two of them; the queue and the
\* dedup window keep their caps.
THEOREM StagesDisjoint == Spec => []LifeStages
<1>1. IInv => LifeStages
  BY DEF IInv, Core
<1>2. QED
  BY <1>1, Invariant, PTL

-----------------------------------------------------------------------------
(* What a step may never do *)

\* No handler makes a reservation, opens a window or raises the balance.
LEMMA ApplyIsFrugal ==
  ASSUME Core, NEW m \in Message, Apply(m)
  PROVE  /\ Reserved' \subseteq Reserved
         /\ window' = window
         /\ remaining # None => remaining' # None /\ remaining' <= remaining
<1>1. remaining # None => remaining \in Nat
  BY DEF Core, Optional
<1>2. CASE m.type = "observe" /\ ApplyObservation(m.observation, m.at)
  <2>1. UNCHANGED <<window, reservations>>
    BY <1>2 DEF ApplyObservation
  <2> DEFINE o == m.observation
  <2>2. o \in Observation
    BY <1>2 DEF Message
  <2>3. o.remaining # None => o.remaining \in Int
    BY <2>2, ObservationAssumption DEF Optional
  <2>4. remaining' \in {0, remaining, LowerBalance(o)}
    BY <1>2 DEF ApplyObservation
  <2> HIDE DEF o
  <2>5. ASSUME remaining # None PROVE remaining' # None /\ remaining' <= remaining
    <3>1. LowerBalance(o) \in Nat /\ LowerBalance(o) <= remaining
      BY <1>1, <2>3, <2>5 DEF LowerBalance, NonNegative
    <3>2. QED
      BY <1>1, <2>4, <2>5, <3>1, LimitAssumption
  <2>6. QED
    BY <2>1, <2>5 DEF Reserved
<1>3. CASE ~(m.type = "observe" /\ ApplyObservation(m.observation, m.at))
  <2>1. UNCHANGED <<window, remaining>>
    BY <1>3 DEF Apply, ApplyRequest, ApplyCancel, ApplyCancelGeneration, ApplyComplete,
                ApplyDisable
  <2>2. \/ reservations' = reservations
        \/ \E ids : ReleaseReservations(ids)
    BY <1>3 DEF Apply, ApplyRequest, ApplyCancel, ApplyCancelGeneration, ApplyComplete,
                ApplyDisable
  <2>3. Reserved' \subseteq Reserved
    BY <2>2 DEF Reserved, ReleaseReservations
  <2>4. QED
    BY <1>1, <2>1, <2>3
<1>4. QED
  BY <1>2, <1>3

\* A step that makes no reservation, and raises the balance only by opening a
\* window.
Frugal ==
  /\ Reserved' \subseteq Reserved
  /\ window' = window /\ remaining # None =>
       remaining' # None /\ remaining' <= remaining

\* Every step but the granting one is frugal.
LEMMA OtherStepsAreFrugal ==
  ASSUME IInv, [Next]_vars, ~Grant
  PROVE  Frugal
<1>1. remaining # None => remaining \in Nat
  BY DEF IInv, Core, Optional
<1>2. ASSUME UNCHANGED <<reservations, window, remaining>> PROVE Frugal
  BY <1>1, <1>2 DEF Frugal, Reserved
<1>3. ASSUME NEW m \in Message, Apply(m) PROVE Frugal
  BY <1>3, ApplyIsFrugal DEF IInv, Frugal
<1>4. ASSUME NEW m \in Message, Receive(m) PROVE Frugal
  BY <1>2, <1>3, <1>4 DEF Receive, stateVars
<1>5. CASE Signals
  <2>1. ASSUME NEW r \in Request, RequestPermit(r) \/ CancelPermit(r) PROVE Frugal
    BY <1>4, <2>1 DEF RequestPermit, CancelPermit, Message
  <2>2. ASSUME NEW p \in issued, PermitCompleted(p) PROVE Frugal
    <3>1. p.request \in Request /\ p.window \in Nat
      BY DEF IInv, RunOK, Permit
    <3>2. [type |-> "complete", request |-> p.request, window |-> p.window] \in Message
      BY <3>1 DEF Message
    <3>3. QED
      BY <1>4, <2>2, <3>2 DEF PermitCompleted
  <2>3. ASSUME NEW g \in Generations, CancelGeneration(g) PROVE Frugal
    BY <1>4, <2>3 DEF CancelGeneration, Message
  <2>4. ASSUME NEW o \in Observation, ObserveQuota(o) PROVE Frugal
    BY <1>4, <2>4 DEF ObserveQuota, Message, IInv, RunOK
  <2>5. CASE DisableScope
    BY <1>4, <2>5 DEF DisableScope, Message
  <2>6. QED
    BY <1>5, <2>1, <2>2, <2>3, <2>4, <2>5 DEF Signals
<1>6. CASE ApplyDeferred
  <2>1. Head(deferred) \in Message
    BY <1>6, HeadTailProperties DEF ApplyDeferred, IInv, RunOK
  <2>2. QED
    BY <1>3, <1>6, <2>1 DEF ApplyDeferred
<1>7. CASE BeginRound
  <2>1. UNCHANGED reservations
    BY <1>7 DEF BeginRound
  <2>2. window' = window => remaining' = remaining
    BY <1>7 DEF BeginRound, AdvanceWindow, IInv, Core
  <2>3. QED
    BY <1>1, <2>1, <2>2 DEF Frugal, Reserved
<1>8. CASE DeliveryFailed
  <2>1. CASE ApplyCancel(sending[2])
    <3>1. UNCHANGED <<window, remaining>>
      BY <2>1 DEF ApplyCancel
    <3>2. reservations' = reservations \/ ReleaseReservations({sending[2]})
      BY <2>1 DEF ApplyCancel
    <3>3. QED
      BY <1>1, <3>1, <3>2 DEF Frugal, Reserved, ReleaseReservations
  <2>2. CASE UNCHANGED stateVars
    BY <1>2, <2>2 DEF stateVars
  <2>3. QED
    BY <1>8, <2>1, <2>2 DEF DeliveryFailed
<1>9. CASE Initialize \/ BeginDelivery \/ SendGrant \/ SendDenial \/ Delivered
           \/ ContinueAsNew \/ Wait \/ SuggestContinueAsNew \/ Tick \/ UNCHANGED vars
  BY <1>2, <1>9 DEF Initialize, BeginDelivery, SendGrant, SendDenial, Delivered,
       ContinueAsNew, Wait, SuggestContinueAsNew, Tick, vars, stateVars
<1>10. QED
  BY <1>5, <1>6, <1>7, <1>8, <1>9 DEF Next, Loop

\* What the granting step does to the reservations and the balance.
LEMMA GrantStep ==
  ASSUME IInv, Grant
  PROVE  /\ pending # <<>>
         /\ NewlyReserved \subseteq {Head(pending)}
         /\ Head(pending) \in Request /\ Head(pending) \in Pending
         /\ ~Blocked
         /\ window' = window
         /\ remaining # None => /\ remaining' \in Nat /\ remaining \in Nat
                                /\ remaining' + Cost[Head(pending)] <= remaining
                                /\ Cost[Head(pending)] \in Nat
<1>1. pending \in Seq(Request) /\ NoRepeats(pending) /\ pending # <<>> /\ ~Blocked
  BY DEF IInv, Core, LifeStages, Grant, CanGrant
<1>2. Head(pending) \in Request /\ Head(pending) \in Pending
  BY <1>1, TailProperties DEF Pending
<1>3. NewlyReserved \subseteq {Head(pending)} /\ window' = window
  BY <1>2 DEF Grant, Turn, NewlyReserved, IInv, Core
<1>4. ASSUME remaining # None
      PROVE  /\ remaining' \in Nat /\ remaining \in Nat /\ Cost[Head(pending)] \in Nat
             /\ remaining' + Cost[Head(pending)] <= remaining
  <2>1. Cost[Head(pending)] \in Nat /\ remaining \in Nat
    BY <1>2, <1>4, RequestAssumption DEF IInv, Core, Optional
  <2>2. /\ remaining' = remaining - Cost[Head(pending)]
        /\ remaining >= Cost[Head(pending)]
    BY <1>4 DEF Grant, Turn, CanGrant, Affordable
  <2>3. QED
    BY <2>1, <2>2
<1>5. QED
  BY <1>1, <1>2, <1>3, <1>4

\* A step that is not a grant reserves nothing new.
LEMMA NothingNew ==
  ASSUME Reserved' \subseteq Reserved
  PROVE  NewlyReserved = {}
BY DEF NewlyReserved, Reserved

\* An id the window still remembers is never reserved twice, in whatever order
\* requests, duplicates, cancellations and completions arrive.
THEOREM GrantedOnce == Spec => OneGrantPerRequest
<1> DEFINE Once == \A r \in NewlyReserved : (\E p \in issued : p.request = r) => r \in evicted
<1>1. IInv /\ [Next]_vars => [Once]_vars
  <2> SUFFICES ASSUME IInv, [Next]_vars PROVE Once
    OBVIOUS
  <2>1. CASE Grant
    BY <2>1, GrantStep DEF IInv, Core, LifeStages, IssuedIsKept, Kept
  <2>2. CASE ~Grant
    BY <2>2, OtherStepsAreFrugal, NothingNew DEF Frugal
  <2>3. QED
    BY <2>1, <2>2
<1>2. QED
  BY <1>1, Invariant, PTL DEF Spec, OneGrantPerRequest

\* Within a quota window the known balance only goes down: no cancellation,
\* completion, failed delivery or late header gives any of it back.
THEOREM NoRefund == Spec => NoRefundWithinWindow
<1> DEFINE Down == window' = window /\ remaining # None =>
                     remaining' # None /\ remaining' <= remaining
<1>1. IInv /\ [Next]_vars => [Down]_vars
  <2> SUFFICES ASSUME IInv, [Next]_vars PROVE Down
    OBVIOUS
  <2>1. CASE Grant
    BY <2>1, GrantStep, LimitAssumption
  <2>2. CASE ~Grant
    BY <2>2, OtherStepsAreFrugal DEF Frugal
  <2>3. QED
    BY <2>1, <2>2
<1>2. QED
  BY <1>1, Invariant, PTL DEF Spec, NoRefundWithinWindow

-----------------------------------------------------------------------------
(* Arrival order *)

\* The order of the queue is the order of arrival: whoever queued before a
\* queued request, and waits still, stands before it.
LineOK ==
  /\ ahead \in [Request -> SUBSET Request]
  /\ \A i \in DOMAIN pending : ahead[pending[i]] \subseteq {pending[k] : k \in 1..(i - 1)}

\* All that ever happens to the queue: a request joins at its end, some leave it
\* wherever they stand, its head is granted, or it is emptied.
LineMoves ==
  \/ UNCHANGED <<pending, ahead>>
  \/ \E r \in Request \ Pending :
       pending' = Append(pending, r) /\ ahead' = [ahead EXCEPT ![r] = Pending]
  \/ \E R \in SUBSET Request : pending' = Without(pending, R) /\ LeaveLine(R)
  \/ pending # <<>> /\ pending' = Tail(pending) /\ LeaveLine({Head(pending)})
  \/ pending' = <<>> /\ LeaveLine(Pending)

\* Each of these keeps the order.
LEMMA MovesKeepLine ==
  ASSUME IInv, LineOK, LineMoves
  PROVE  LineOK'
<1>1. pending \in Seq(Request) /\ NoRepeats(pending) /\ Pending \in SUBSET Request
  BY RangeOfSeq DEF IInv, Core, LifeStages, Pending
<1>2. DOMAIN pending = 1..Len(pending) /\ Len(pending) \in Nat
  BY <1>1, LenProperties
<1>3. \A i \in DOMAIN pending : pending[i] \in Request
  BY <1>1, <1>2, ElementOfSeq
<1>4. CASE UNCHANGED <<pending, ahead>>
  BY <1>4 DEF LineOK
<1>5. ASSUME NEW r \in Request \ Pending,
             pending' = Append(pending, r), ahead' = [ahead EXCEPT ![r] = Pending]
      PROVE  LineOK'
  <2> DEFINE n == Len(pending)
             q == Append(pending, r)
  <2>1. DOMAIN q = 1..(n + 1) /\ q[n + 1] = r /\ \A k \in 1..n : q[k] = pending[k]
    BY <1>1, <1>2
  <2>2. ahead' \in [Request -> SUBSET Request]
    BY <1>1, <1>5 DEF LineOK
  <2> HIDE DEF q, n
  <2>3. n \in Nat /\ DOMAIN pending = 1..n
    BY <1>2 DEF n
  <2>4. Pending = {q[k] : k \in 1..n}
    BY <2>1, <2>3 DEF Pending, Range
  <2>5. ASSUME NEW i \in 1..(n + 1) PROVE ahead'[q[i]] \subseteq {q[k] : k \in 1..(i - 1)}
    <3>1. CASE q[i] = r /\ i = n + 1
      BY <1>5, <2>3, <2>4, <3>1 DEF LineOK
    <3>2. CASE i \in 1..n
      <4>1. 1..(i - 1) \subseteq 1..n
        BY <2>3
      <4>2. {pending[k] : k \in 1..(i - 1)} = {q[k] : k \in 1..(i - 1)}
        BY <2>1, <4>1
      <4>3. q[i] = pending[i] /\ ahead[q[i]] \subseteq {q[k] : k \in 1..(i - 1)}
        BY <2>1, <2>3, <3>2, <4>2 DEF LineOK
      <4>4. CASE q[i] # r
        BY <1>5, <2>3, <1>3, <3>2, <4>3, <4>4 DEF LineOK
      <4>5. CASE q[i] = r
        BY <1>2, <2>3, <3>2, <4>3, <4>5 DEF Pending, Range
      <4>6. QED
        BY <4>4, <4>5
    <3>3. QED
      BY <2>1, <2>3, <3>1, <3>2
  <2>6. pending' = q
    BY <1>5 DEF q
  <2>7. QED
    BY <2>1, <2>2, <2>5, <2>6 DEF LineOK
<1>6. ASSUME NEW R \in SUBSET Request, pending' = Without(pending, R), LeaveLine(R)
      PROVE  LineOK'
  <2> DEFINE w == Without(pending, R)
  <2>1. ahead' = [r \in Request |-> IF r \in R THEN {} ELSE ahead[r] \ R]
    BY <1>6 DEF LeaveLine
  <2>2. ahead' \in [Request -> SUBSET Request]
    BY <2>1 DEF LineOK
  <2>3. ASSUME NEW j \in DOMAIN w PROVE ahead'[w[j]] \subseteq {w[m] : m \in 1..(j - 1)}
    <3>1. PICK i \in DOMAIN pending :
            /\ w[j] = pending[i] /\ pending[i] \notin R
            /\ {pending[k] : k \in 1..(i - 1)} \ R \subseteq {w[m] : m \in 1..(j - 1)}
      BY <1>1, WithoutKeepsOrder
    <3> HIDE DEF w
    <3>2. ahead'[w[j]] = ahead[pending[i]] \ R
      BY <1>3, <2>1, <3>1
    <3>3. ahead[pending[i]] \subseteq {pending[k] : k \in 1..(i - 1)}
      BY DEF LineOK
    <3>4. QED
      BY <3>1, <3>2, <3>3
  <2>4. QED
    BY <1>6, <2>2, <2>3 DEF LineOK
<1>7. CASE pending # <<>> /\ pending' = Tail(pending) /\ LeaveLine({Head(pending)})
  <2> DEFINE t == Tail(pending)
             h == Head(pending)
  <2>1. ahead' = [r \in Request |-> IF r \in {h} THEN {} ELSE ahead[r] \ {h}]
    BY <1>7 DEF LeaveLine
  <2>2. ahead' \in [Request -> SUBSET Request]
    BY <2>1 DEF LineOK
  <2>3. /\ DOMAIN t = 1..(Len(pending) - 1) /\ h = pending[1]
        /\ \A i \in 1..(Len(pending) - 1) : t[i] = pending[i + 1]
    BY <1>1, <1>2, <1>7
  <2> HIDE DEF t, h
  <2>4. ASSUME NEW i \in DOMAIN t PROVE ahead'[t[i]] \subseteq {t[k] : k \in 1..(i - 1)}
    <3>1. i + 1 \in DOMAIN pending /\ t[i] = pending[i + 1] /\ t[i] \in Request
      BY <1>2, <1>3, <2>3
    <3>2. ahead[t[i]] \subseteq {pending[k] : k \in 1..((i + 1) - 1)}
      BY <3>1 DEF LineOK
    <3>3. ahead'[t[i]] \subseteq ahead[t[i]] \ {pending[1]}
      BY <2>1, <2>3, <3>1
    <3>4. ASSUME NEW x \in ahead'[t[i]] PROVE x \in {t[k] : k \in 1..(i - 1)}
      <4>1. PICK k \in 1..((i + 1) - 1) : x = pending[k] /\ k # 1
        BY <3>2, <3>3, <3>4
      <4>2. i \in 1..(Len(pending) - 1) /\ Len(pending) \in Nat
        BY <1>2, <2>3
      <4>3. k - 1 \in 1..(i - 1) /\ k - 1 \in 1..(Len(pending) - 1) /\ (k - 1) + 1 = k
        BY <4>1, <4>2
      <4>4. t[k - 1] = x
        BY <2>3, <4>1, <4>3
      <4>5. QED
        BY <4>3, <4>4
    <3>5. QED
      BY <3>4
  <2>5. pending' = t
    BY <1>7 DEF t
  <2>6. QED
    BY <2>2, <2>4, <2>5 DEF LineOK
<1>8. CASE pending' = <<>> /\ LeaveLine(Pending)
  <2>1. ahead' \in [Request -> SUBSET Request]
    BY <1>8 DEF LeaveLine, LineOK
  <2>2. DOMAIN pending' = {}
    BY <1>8
  <2>3. QED
    BY <2>1, <2>2 DEF LineOK
<1>9. QED
  BY <1>4, <1>5, <1>6, <1>7, <1>8 DEF LineMoves

\* Every Signal handler moves the queue in one of these ways.
LEMMA ApplyMovesLine ==
  ASSUME IInv, NEW m \in Message, Apply(m)
  PROVE  LineMoves
<1>1. CASE m.type = "request" /\ ApplyRequest(m.request)
  <2>1. m.request \in Request
    BY <1>1 DEF Message
  <2>2. QED
    BY <1>1, <2>1 DEF ApplyRequest, Enqueue, LineMoves, Known
<1>2. CASE m.type = "cancel" /\ ApplyCancel(m.request)
  <2>1. {m.request} \in SUBSET Request
    BY <1>2 DEF Message
  <2>2. QED
    BY <1>2, <2>1 DEF ApplyCancel, LineMoves
<1>3. CASE m.type = "cancel_generation" /\ ApplyCancelGeneration(m.generation)
  <2> DEFINE R == {r \in Pending \cup Reserved : Generation[r] = m.generation}
  <2>1. R \in SUBSET Request
    BY RangeOfSeq DEF Pending, Reserved, IInv, Core
  <2>2. pending' = Without(pending, R) /\ LeaveLine(R)
    BY <1>3 DEF ApplyCancelGeneration
  <2> HIDE DEF R
  <2>3. QED
    BY <2>1, <2>2 DEF LineMoves
<1>4. CASE m.type = "complete" /\ ApplyComplete(m.request, m.window)
  BY <1>4 DEF ApplyComplete, LineMoves
<1>5. CASE m.type = "observe" /\ ApplyObservation(m.observation, m.at)
  BY <1>5 DEF ApplyObservation, LineMoves
<1>6. CASE m.type = "disable" /\ ApplyDisable
  BY <1>6 DEF ApplyDisable, LineMoves
<1>7. QED
  BY <1>1, <1>2, <1>3, <1>4, <1>5, <1>6 DEF Apply

\* And so does every step.
LEMMA NextMovesLine ==
  ASSUME IInv, [Next]_vars
  PROVE  LineMoves
<1>1. ASSUME UNCHANGED <<pending, ahead>> PROVE LineMoves
  BY <1>1 DEF LineMoves
<1>2. ASSUME NEW m \in Message, Receive(m) PROVE LineMoves
  BY <1>1, <1>2, ApplyMovesLine DEF Receive, stateVars
<1>3. CASE Signals
  <2>1. ASSUME NEW r \in Request, RequestPermit(r) \/ CancelPermit(r) PROVE LineMoves
    BY <1>2, <2>1 DEF RequestPermit, CancelPermit, Message
  <2>2. ASSUME NEW p \in issued, PermitCompleted(p) PROVE LineMoves
    <3>1. p.request \in Request /\ p.window \in Nat
      BY DEF IInv, RunOK, Permit
    <3>2. [type |-> "complete", request |-> p.request, window |-> p.window] \in Message
      BY <3>1 DEF Message
    <3>3. QED
      BY <1>2, <2>2, <3>2 DEF PermitCompleted
  <2>3. ASSUME NEW g \in Generations, CancelGeneration(g) PROVE LineMoves
    BY <1>2, <2>3 DEF CancelGeneration, Message
  <2>4. ASSUME NEW o \in Observation, ObserveQuota(o) PROVE LineMoves
    BY <1>2, <2>4 DEF ObserveQuota, Message, IInv, RunOK
  <2>5. CASE DisableScope
    BY <1>2, <2>5 DEF DisableScope, Message
  <2>6. QED
    BY <1>3, <2>1, <2>2, <2>3, <2>4, <2>5 DEF Signals
<1>4. CASE ApplyDeferred
  <2>1. Head(deferred) \in Message
    BY <1>4, HeadTailProperties DEF ApplyDeferred, IInv, RunOK
  <2>2. QED
    BY <1>4, <2>1, ApplyMovesLine DEF ApplyDeferred
<1>5. CASE Grant
  BY <1>5 DEF Grant, CanGrant, Turn, LineMoves
<1>6. CASE DeliveryFailed
  <2>1. CASE ApplyCancel(sending[2])
    <3>1. pc = "sending" => sending[2] \in Request
      BY DEF IInv, RunOK
    <3>2. {sending[2]} \in SUBSET Request
      BY <1>6, <3>1 DEF DeliveryFailed
    <3>3. QED
      BY <2>1, <3>2 DEF ApplyCancel, LineMoves
  <2>2. CASE UNCHANGED <<stateVars, ahead>>
    BY <1>1, <2>2 DEF stateVars
  <2>3. QED
    BY <1>6, <2>1, <2>2 DEF DeliveryFailed
<1>7. CASE Initialize \/ BeginRound \/ BeginDelivery \/ SendGrant \/ SendDenial
           \/ Delivered \/ ContinueAsNew \/ Wait \/ SuggestContinueAsNew \/ Tick
           \/ UNCHANGED vars
  BY <1>1, <1>7 DEF Initialize, BeginRound, BeginDelivery, SendGrant, SendDenial,
       Delivered, ContinueAsNew, Wait, SuggestContinueAsNew, Tick, vars, stateVars,
       histVars
<1>8. QED
  BY <1>3, <1>4, <1>5, <1>6, <1>7 DEF Next, Loop

\* The queue is in arrival order in every reachable state.
THEOREM LineInvariant == Spec => []LineOK
<1>1. Init => LineOK
  BY DEF Init, LineOK
<1>2. IInv /\ LineOK /\ [Next]_vars => LineOK'
  BY NextMovesLine, MovesKeepLine
<1>3. QED
  BY <1>1, <1>2, Invariant, PTL DEF Spec

\* Nobody is overtaken: a request is granted only when none of those that queued
\* before it is queued still.
THEOREM FirstComeFirstServed == Spec => GrantsInOrder
<1> DEFINE InOrder == \A r \in NewlyReserved : r \in Pending /\ ahead[r] = {}
<1>1. IInv /\ LineOK /\ [Next]_vars => [InOrder]_vars
  <2> SUFFICES ASSUME IInv, LineOK, [Next]_vars PROVE InOrder
    OBVIOUS
  <2>1. CASE Grant
    <3>1. /\ pending # <<>> /\ NewlyReserved \subseteq {Head(pending)}
          /\ Head(pending) \in Pending
      BY <2>1, GrantStep
    <3>2. 1 \in DOMAIN pending /\ Head(pending) = pending[1]
      BY <3>1 DEF IInv, Core
    <3>3. ahead[pending[1]] \subseteq {pending[k] : k \in 1..(1 - 1)}
      BY <3>2 DEF LineOK
    <3>4. 1..(1 - 1) = {}
      OBVIOUS
    <3>5. QED
      BY <3>1, <3>2, <3>3, <3>4
  <2>2. CASE ~Grant
    BY <2>2, OtherStepsAreFrugal, NothingNew DEF Frugal
  <2>3. QED
    BY <2>1, <2>2
<1>2. QED
  BY <1>1, Invariant, LineInvariant, PTL DEF Spec, GrantsInOrder

\* Type correctness: for every set of requests, every cost, limit and stream of
\* observations the balance stays a number that is not negative, and the queue,
\* the reservations and the window hold request ids only.
THEOREM TypeCorrect == Spec => []TypeOK
<1>1. IInv /\ LineOK => TypeOK
  BY DEF IInv, Core, RunOK, LineOK, TypeOK
<1>2. QED
  BY <1>1, Invariant, LineInvariant, PTL

-----------------------------------------------------------------------------
(* The loop never sleeps on work *)

\* What makes NoLostWakeup inductive: from the moment the flag is cleared, and
\* through every await of the deliveries, either the flag is up again, a timer
\* is due, or there is nothing to grant and no denial is owed.
Watched ==
  pc \in {"deliver", "sending", "wait"} /\ ~dirty /\ ~TimerDue =>
    ~CanGrant /\ pending_denials = <<>>

\* Every step keeps watch.
LEMMA NextWatched == IInv /\ Watched /\ [Next]_vars => Watched'
<1> SUFFICES ASSUME IInv, Watched, [Next]_vars PROVE Watched'
  OBVIOUS
<1> DEFINE Idle == UNCHANGED <<stateVars, pending_denials, dirty, now>>
<1>1. ASSUME Idle, pc' = pc \/ pc \in {"deliver", "sending", "wait"} PROVE Watched'
  BY <1>1 DEF Watched, stateVars, TimerDue, Due, CanGrant, Blocked, Affordable, Turn
<1>2. ASSUME dirty' = TRUE PROVE Watched'
  BY <1>2 DEF Watched
<1>3. CASE Signals
  <2>1. dirty' = TRUE
    BY <1>3 DEF Signals, RequestPermit, CancelPermit, PermitCompleted, CancelGeneration,
                ObserveQuota, DisableScope, Receive, Apply
  <2>2. QED
    BY <1>2, <2>1
<1>4. CASE Initialize \/ ApplyDeferred \/ BeginRound \/ Grant \/ ContinueAsNew
  <2>1. pc' \in {"init", "grant", "start"}
    BY <1>4 DEF Initialize, ApplyDeferred, BeginRound, Grant, ContinueAsNew
  <2>2. QED
    BY <2>1 DEF Watched
<1>5. CASE BeginDelivery
  BY <1>5 DEF BeginDelivery, Watched, stateVars, TimerDue, Due, CanGrant, Blocked,
              Affordable, Turn
<1>6. CASE SendGrant \/ SendDenial \/ Delivered \/ Wait \/ SuggestContinueAsNew
  BY <1>1, <1>6 DEF SendGrant, SendDenial, Delivered, Wait, DeliveryDone,
                    SuggestContinueAsNew
<1>7. CASE DeliveryFailed
  BY <1>1, <1>2, <1>7 DEF DeliveryFailed
<1>8. CASE Tick
  <2>1. /\ UNCHANGED <<stateVars, pc, dirty, pending_denials>> /\ now' = now + 1
        /\ now \in Nat
    BY <1>8 DEF Tick, runVars, IInv, RunOK
  <2>2. TimerDue => TimerDue'
    BY <2>1 DEF TimerDue, Due, stateVars, IInv, Core, Optional
  <2>3. ~TimerDue' /\ Blocked => Blocked'
    BY <2>1 DEF TimerDue, Due, Blocked, stateVars
  <2>4. ~TimerDue' /\ CanGrant' => CanGrant
    BY <2>1, <2>3 DEF CanGrant, Affordable, Turn, stateVars
  <2>5. QED
    BY <2>1, <2>2, <2>4 DEF Watched, stateVars
<1>9. CASE UNCHANGED vars
  BY <1>1, <1>9 DEF vars, runVars
<1>10. QED
  BY <1>3, <1>4, <1>5, <1>6, <1>7, <1>8, <1>9 DEF Next, Loop

\* The loop never sleeps on a request it could grant or a denial it owes, for
\* every interleaving of Signals with the awaits of the deliveries.
THEOREM WakeupKept == Spec => []NoLostWakeup
<1>1. Init => Watched
  BY DEF Init, Watched
<1>2. IInv /\ Watched /\ [Next]_vars => Watched'
  BY NextWatched
<1>3. Watched => NoLostWakeup
  BY DEF Watched, NoLostWakeup
<1>4. QED
  BY <1>1, <1>2, <1>3, Invariant, PTL DEF Spec

-----------------------------------------------------------------------------
(* The callers: what their permits entitle them to, and that none of them is *)
(* left waiting in silence.                                                   *)

\* The coordinator may still owe the caller something: it has not given up or
\* finished, and its generation has not been cancelled.
Concerned(r) == caller[r] # "done" /\ Generation[r] \notin fenced

\* A caller that works on a permit, and one whose grant is under way, has a slot:
\* what makes WorkWithinSlots inductive.
InSlot ==
  \A r \in Request :
    /\ Concerned(r)
    /\ caller[r] = "holding" \/ (pc = "sending" /\ sending = <<"grant", r>>)
    => r \in Reserved

\* Deferred cancellations and completions come from callers that are done; a
\* deferred request comes from one that has asked.
DeferredOK ==
  \A i \in DOMAIN deferred :
    /\ deferred[i].type \in {"cancel", "complete"} => caller[deferred[i].request] = "done"
    /\ deferred[i].type = "request" => caller[deferred[i].request] # "idle"

\* The coordinator knows no id before its caller has sent something.
IdleOK == \A r \in Request : caller[r] = "idle" => r \notin Known

\* Each round starts with nothing left to deliver.
PhasesOK ==
  /\ pc \in {"start", "init", "grant", "wait"} => denials = <<>>
  /\ pc \in {"start", "init", "wait"} => grants = <<>>

Waits(r) == r \notin Anonymous /\ caller[r] = "waiting" /\ Generation[r] \notin fenced

\* Where the id of a waiting caller can be.  It is somewhere; if it is reserved,
\* its grant is still to be delivered; if it is finished, it is owed a denial.
\* The last two are what keeps a duplicate of its request from being ignored
\* after the answer was lost.
WaitersOK ==
  \A r \in Request :
    Waits(r) =>
      /\ r \in DeferredRequests \cup Pending \cup DenialsOwed \cup Reserved
      /\ r \in Reserved => r \in Undelivered
      /\ r \in Terminal => r \in DenialsOwed

CallersOK == DeferredOK /\ IdleOK /\ PhasesOK /\ InSlot /\ WaitersOK

-----------------------------------------------------------------------------
(* What a Signal does to one id *)

Owed == Range(pending_denials)

\* The message leaves id q where it was, or queues a denial for it.
Spared(q) ==
  /\ q \in Reserved' <=> q \in Reserved
  /\ q \in Pending => q \in Pending' \cup Owed'
  /\ q \in Terminal' => q \in Terminal \cup Owed'

\* The whole effect of a message m on an id q.
Effect(m, q) ==
  /\ fenced \subseteq fenced'
  /\ Owed \subseteq Owed'
  /\ q \in Known' => q \in Known \/ (m.type \in {"request", "cancel"} /\ m.request = q)
  /\ ~(m.type \in {"cancel", "complete"} /\ m.request = q) /\ Generation[q] \notin fenced'
       => Spared(q)
  /\ m.type = "request" /\ m.request = q /\ q \notin Anonymous
       => q \in Known \cup Pending' \cup Owed' \cup DeferredRequests'

\* Marking ids as finished makes no other id finished.
LEMMA MarkedTerminal ==
  ASSUME Core, NEW ids \in Seq(Request), MarkTerminal(ids)
  PROVE  Terminal' \subseteq Terminal \cup Range(ids)
<1>1. recent_terminal \in Seq(Request)
  BY DEF Core
<1> DEFINE all == recent_terminal \o ids
<1>2. all \in Seq(Request) /\ Range(all) = Terminal \cup Range(ids)
  BY <1>1, ConcatProperties, RangeConcatenation DEF Terminal
<1>3. recent_terminal' = Newest(all, DedupWindow)
  BY DEF MarkTerminal
<1> HIDE DEF all
<1>4. Range(Newest(all, DedupWindow)) \subseteq Range(all)
  BY <1>2, NewestProperties, LimitAssumption
<1>5. QED
  BY <1>2, <1>3, <1>4 DEF Terminal

\* Releasing slots frees exactly those of the given ids.
LEMMA ReleasedSlots ==
  ASSUME Core, NEW ids \in SUBSET Request, ReleaseReservations(ids)
  PROVE  Reserved' = Reserved \ ids
BY DEF Core, ReleaseReservations, Reserved

\* What Append adds.
LEMMA AppendRange ==
  ASSUME NEW T, NEW s \in Seq(T), NEW x \in T
  PROVE  Range(Append(s, x)) = Range(s) \cup {x}
<1> DEFINE one == <<x>>
<1>1. one \in Seq(T) /\ Range(one) = {x}
  BY DEF Range
<1>2. Append(s, x) = s \o one
  BY AppendIsConcat
<1> HIDE DEF one
<1>3. QED
  BY <1>1, <1>2, RangeConcatenation

\* A request queues its id, owes it a denial, or finds it known.
LEMMA RequestEffect ==
  ASSUME Core, NEW m \in Message, m.type = "request", ApplyRequest(m.request),
         NEW q \in Request
  PROVE  Effect(m, q)
<1> DEFINE r == m.request
           denied == r \in Invalid \/ disabled \/ Len(pending) >= MaxPending
<1>1. r \in Request
  BY DEF Message
<1>2. /\ pending' = IF r \in Known \/ denied THEN pending ELSE Append(pending, r)
      /\ pending_denials' = IF r \notin Known /\ denied /\ r \notin Anonymous
                            THEN Append(pending_denials, r) ELSE pending_denials
      /\ UNCHANGED <<reservations, recent_terminal, fenced>>
  BY DEF ApplyRequest, Enqueue
<1>3. pending \in Seq(Request) /\ pending_denials \in Seq(Request)
  BY DEF Core
<1>4. Reserved' = Reserved /\ Terminal' = Terminal
  BY <1>2 DEF Reserved, Terminal
<1>5. \A s \in Seq(Request) : Range(Append(s, r)) = Range(s) \cup {r}
  BY <1>1, AppendRange
<1>6. Pending' = Pending \cup (IF r \in Known \/ denied THEN {} ELSE {r})
  BY <1>2, <1>3, <1>5 DEF Pending
<1>7. Owed' = Owed \cup (IF r \notin Known /\ denied /\ r \notin Anonymous THEN {r} ELSE {})
  BY <1>2, <1>3, <1>5 DEF Owed
<1> HIDE DEF denied
<1>8. QED
  BY <1>2, <1>4, <1>6, <1>7 DEF Effect, Spared, Known

\* A cancellation touches its own id only.
LEMMA CancelEffect ==
  ASSUME Core, NEW r \in Request, ApplyCancel(r), NEW q \in Request
  PROVE  /\ fenced' = fenced /\ Owed' = Owed
         /\ q \in Known' => q \in Known \cup {r}
         /\ q # r => Spared(q)
<1>1. fenced' = fenced /\ Owed' = Owed
  BY DEF ApplyCancel, Owed
<1>2. CASE r \in Terminal
  <2>1. UNCHANGED <<pending, reservations, recent_terminal>>
    BY <1>2 DEF ApplyCancel
  <2>2. QED
    BY <1>1, <2>1 DEF Pending, Reserved, Terminal, Known, Spared
<1>3. CASE r \notin Terminal
  <2> DEFINE one == <<r>>
  <2>1. /\ pending' = Without(pending, {r})
        /\ MarkTerminal(one)
        /\ reservations' = reservations \/ ReleaseReservations({r})
    BY <1>3 DEF ApplyCancel
  <2>2. one \in Seq(Request) /\ Range(one) = {r}
    BY SingletonList
  <2> HIDE DEF one
  <2>3. Pending' = Pending \ {r}
    BY <2>1, WithoutProperties DEF Core, Pending
  <2>4. Reserved' \subseteq Reserved /\ Reserved \ {r} \subseteq Reserved'
    BY <2>1, ReleasedSlots DEF Reserved
  <2>5. Terminal' \subseteq Terminal \cup {r}
    BY <2>1, <2>2, MarkedTerminal
  <2>6. QED
    BY <1>1, <2>3, <2>4, <2>5 DEF Known, Spared
<1>4. QED
  BY <1>2, <1>3

\* Cancelling a generation touches the ids of that generation only, and only
\* those it still had here.
LEMMA CancelGenerationEffect ==
  ASSUME Core, NEW g \in Generations, ApplyCancelGeneration(g), NEW q \in Request
  PROVE  /\ fenced' = fenced \cup {g} /\ Owed' = Owed
         /\ q \in Known' => q \in Known
         /\ Generation[q] # g => Spared(q)
<1> DEFINE canceled == {r \in Pending \cup Reserved : Generation[r] = g}
           ids == Sorted(canceled)
<1>1. /\ pending' = Without(pending, canceled)
      /\ ReleaseReservations(canceled)
      /\ MarkTerminal(ids)
      /\ fenced' = fenced \cup {g}
      /\ Owed' = Owed
  BY DEF ApplyCancelGeneration, Owed
<1>2. pending \in Seq(Request)
  BY DEF Core
<1>3. canceled \subseteq Pending \cup Reserved /\ canceled \in SUBSET Request
  BY <1>2, RangeOfSeq DEF Pending, Reserved
<1>4. \A r \in canceled : Generation[r] = g
  OBVIOUS
<1> HIDE DEF canceled
<1>5. IsFiniteSet(canceled) /\ canceled \in SUBSET Int
  <2>1. IsFiniteSet(canceled)
    BY <1>3, RequestAssumption, FS_Subset
  <2>2. canceled \in SUBSET Int
    BY <1>3, RequestAssumption
  <2>3. QED
    BY <2>1, <2>2
<1>6. ids \in Seq(canceled) /\ Range(ids) = canceled
  BY <1>5, SortedProperties
<1> HIDE DEF ids
<1>11. ids \in Seq(Request)
  BY <1>3, <1>6
<1>7. Pending' = Pending \ canceled
  BY <1>1, <1>2, WithoutProperties DEF Pending
<1>8. Reserved' = Reserved \ canceled
  BY <1>1, <1>3, ReleasedSlots
<1>9. Terminal' \subseteq Terminal \cup canceled
  BY <1>1, <1>6, <1>11, MarkedTerminal
<1>10. QED
  BY <1>1, <1>3, <1>4, <1>7, <1>8, <1>9 DEF Known, Spared

\* A completion touches its own id only.
LEMMA CompleteEffect ==
  ASSUME Core, NEW r \in Request, NEW w \in Nat, ApplyComplete(r, w), NEW q \in Request
  PROVE  /\ fenced' = fenced /\ Owed' = Owed
         /\ q \in Known' => q \in Known
         /\ q # r => Spared(q)
<1>1. fenced' = fenced /\ Owed' = Owed /\ Pending' = Pending
  BY DEF ApplyComplete, Owed, Pending
<1>2. CASE r \in Reserved /\ ReleaseReservations({r}) /\ MarkTerminal(<<r>>)
  <2> DEFINE one == <<r>>
  <2>1. one \in Seq(Request) /\ Range(one) = {r} /\ MarkTerminal(one)
    BY <1>2, SingletonList
  <2> HIDE DEF one
  <2>2. Terminal' \subseteq Terminal \cup {r}
    BY <2>1, MarkedTerminal
  <2>3. Reserved' = Reserved \ {r}
    BY <1>2, ReleasedSlots
  <2>4. QED
    BY <1>1, <1>2, <2>2, <2>3 DEF Known, Spared
<1>3. CASE UNCHANGED <<reservations, recent_terminal>>
  BY <1>1, <1>3 DEF Known, Spared, Reserved, Terminal
<1>4. QED
  BY <1>2, <1>3 DEF ApplyComplete

\* Disabling owes a denial to every id it finishes.
LEMMA DisableEffect ==
  ASSUME Core, ApplyDisable, NEW q \in Request
  PROVE  /\ fenced' = fenced /\ Owed \subseteq Owed'
         /\ q \in Known' => q \in Known
         /\ Spared(q)
<1>1. fenced' = fenced /\ Reserved' = Reserved
  BY DEF ApplyDisable, Reserved
<1>2. CASE disabled
  BY <1>1, <1>2 DEF ApplyDisable, Owed, Known, Spared, Pending, Terminal
<1>3. CASE ~disabled
  <2>1. /\ pending' = <<>>
        /\ MarkTerminal(pending)
        /\ pending_denials' = pending_denials \o pending
    BY <1>3 DEF ApplyDisable
  <2>2. pending \in Seq(Request) /\ pending_denials \in Seq(Request)
    BY DEF Core
  <2>3. Owed' = Owed \cup Pending
    BY <2>1, <2>2, RangeConcatenation DEF Owed, Pending
  <2>4. Terminal' \subseteq Terminal \cup Pending
    BY <2>1, <2>2, MarkedTerminal DEF Pending
  <2>5. Pending' = {}
    BY <2>1 DEF Pending, Range
  <2>6. QED
    BY <1>1, <2>3, <2>4, <2>5 DEF Known, Spared
<1>4. QED
  BY <1>2, <1>3

\* The effect of any message, at once or deferred.
LEMMA ApplyEffect ==
  ASSUME Core, NEW m \in Message, Apply(m), NEW q \in Request
  PROVE  Effect(m, q)
<1>1. CASE m.type = "request" /\ ApplyRequest(m.request)
  BY <1>1, RequestEffect
<1>2. CASE m.type = "cancel" /\ ApplyCancel(m.request)
  <2>1. m.request \in Request
    BY <1>2 DEF Message
  <2>2. QED
    BY <1>2, <2>1, CancelEffect DEF Effect
<1>3. CASE m.type = "cancel_generation" /\ ApplyCancelGeneration(m.generation)
  <2>1. m.generation \in Generations
    BY <1>3 DEF Message
  <2>2. QED
    BY <1>3, <2>1, CancelGenerationEffect DEF Effect
<1>4. CASE m.type = "complete" /\ ApplyComplete(m.request, m.window)
  <2>1. m.request \in Request /\ m.window \in Nat
    BY <1>4 DEF Message
  <2>2. QED
    BY <1>4, <2>1, CompleteEffect DEF Effect
<1>5. CASE m.type = "observe" /\ ApplyObservation(m.observation, m.at)
  <2>1. UNCHANGED <<pending, reservations, recent_terminal, pending_denials, fenced>>
    BY <1>5 DEF ApplyObservation
  <2>2. QED
    BY <1>5, <2>1 DEF Effect, Owed, Known, Spared, Pending, Reserved, Terminal
<1>6. CASE m.type = "disable" /\ ApplyDisable
  BY <1>6, DisableEffect DEF Effect
<1>7. QED
  BY <1>1, <1>2, <1>3, <1>4, <1>5, <1>6 DEF Apply

-----------------------------------------------------------------------------
(* What a Signal does to the callers *)

\* Whoever sent m is at the point of its life that m belongs to; no other caller
\* moves.
Moves(m) ==
  /\ caller' \in [Request -> {"idle", "waiting", "holding", "done"}]
  /\ \A q \in Request : caller'[q] # caller[q] =>
       \/ m.type \in {"cancel", "complete"} /\ m.request = q /\ caller'[q] = "done"
       \/ m.type = "request" /\ m.request = q /\ caller[q] = "idle" /\ caller'[q] = "waiting"
  /\ m.type \in {"cancel", "complete"} => caller'[m.request] = "done"
  /\ m.type = "request" => caller'[m.request] # "idle"

\* No caller goes back to before its first request, and none resumes.
LEMMA MovesForward ==
  ASSUME RunOK, NEW m \in Message, Moves(m), NEW q \in Request
  PROVE  /\ caller'[q] = "idle" => caller[q] = "idle"
         /\ caller[q] = "done" => caller'[q] = "done"
         /\ caller'[q] = "holding" => caller[q] = "holding"
         /\ caller'[q] = "waiting" => caller[q] = "waiting" \/
              (caller[q] = "idle" /\ m.type = "request" /\ m.request = q)
BY DEF Moves, RunOK

\* Where its sender must be by now, for a message that is still deferred.
SenderMoved(m) ==
  /\ m.type \in {"cancel", "complete"} => caller[m.request] = "done"
  /\ m.type = "request" => caller[m.request] # "idle"

\* The deferred messages, by content rather than by position, before and after a
\* step.
LEMMA DeferredMembers ==
  /\ DeferredRequests = {m.request : m \in {x \in Range(deferred) : x.type = "request"}}
  /\ (DeferredRequests = {m.request : m \in {x \in Range(deferred) : x.type = "request"}})'
  /\ DeferredOK <=> \A m \in Range(deferred) : SenderMoved(m)
  /\ (DeferredOK <=> \A m \in Range(deferred) : SenderMoved(m))'
<1>1. \A m : m \in Range(deferred) <=> \E i \in DOMAIN deferred : deferred[i] = m
  BY DEF Range
<1>2. (\A m : m \in Range(deferred) <=> \E i \in DOMAIN deferred : deferred[i] = m)'
  BY DEF Range
<1>3. DeferredRequests = {m.request : m \in {x \in Range(deferred) : x.type = "request"}}
  BY <1>1 DEF DeferredRequests
<1>4. (DeferredRequests = {m.request : m \in {x \in Range(deferred) : x.type = "request"}})'
  BY <1>2 DEF DeferredRequests
<1>5. DeferredOK <=> \A m \in Range(deferred) : SenderMoved(m)
  BY <1>1 DEF DeferredOK, SenderMoved
<1>6. (DeferredOK <=> \A m \in Range(deferred) : SenderMoved(m))'
  BY <1>2 DEF DeferredOK, SenderMoved
<1>7. QED
  BY <1>3, <1>4, <1>5, <1>6

\* Senders only move on.
LEMMA SenderStaysMoved ==
  ASSUME RunOK, NEW m \in Message, Moves(m), NEW x \in Message, SenderMoved(x)
  PROVE  SenderMoved(x)'
<1>1. CASE x.type \in {"cancel", "complete"}
  <2>1. x.request \in Request /\ caller[x.request] = "done"
    BY <1>1 DEF Message, SenderMoved
  <2>2. caller'[x.request] = "done"
    BY <2>1, MovesForward
  <2>3. QED
    BY <1>1, <2>2 DEF SenderMoved
<1>2. CASE x.type = "request"
  <2>1. x.request \in Request /\ caller[x.request] # "idle"
    BY <1>2 DEF Message, SenderMoved
  <2>2. caller'[x.request] # "idle"
    BY <2>1, MovesForward
  <2>3. QED
    BY <1>2, <2>2 DEF SenderMoved
<1>3. QED
  BY <1>1, <1>2 DEF SenderMoved

\* A message that takes effect keeps every caller's claim.
LEMMA EffectKeeps ==
  ASSUME Core, RunOK, IdleOK, InSlot, WaitersOK, NEW m \in Message, Moves(m),
         \A q \in Request : Effect(m, q),
         DeferredRequests \subseteq DeferredRequests' \cup
           {q \in Request : m.type = "request" /\ m.request = q},
         UNCHANGED <<pc, grants, denials, sending>>
  PROVE  IdleOK' /\ InSlot' /\ WaitersOK'
<1>1. Undelivered' = Undelivered
  BY DEF Undelivered
<1>2. DenialsOwed \subseteq DenialsOwed' /\ Owed' \subseteq DenialsOwed'
  <2>1. Owed \subseteq Request
    BY RangeOfSeq DEF Core, Owed
  <2>2. Owed \subseteq Owed'
    BY <2>1 DEF Effect
  <2>3. QED
    BY <2>2 DEF DenialsOwed, Owed
<1>3. ASSUME NEW q \in Request, caller'[q] = "idle" PROVE q \notin Known'
  <2>1. caller[q] = "idle" /\ q \notin Known
    BY <1>3, MovesForward DEF IdleOK
  <2>2. ~(m.type \in {"request", "cancel"} /\ m.request = q)
    BY <1>3 DEF Moves
  <2>3. QED
    BY <2>1, <2>2 DEF Effect
<1>4. ASSUME NEW q \in Request, caller'[q] # "done", Generation[q] \notin fenced'
      PROVE  Spared(q) /\ caller[q] # "done" /\ Generation[q] \notin fenced
  BY <1>4, MovesForward DEF Effect, Moves
<1>5. InSlot'
  <2> SUFFICES ASSUME NEW q \in Request, Concerned(q)',
                      caller'[q] = "holding" \/ (pc = "sending" /\ sending = <<"grant", q>>)
               PROVE  q \in Reserved'
    BY DEF InSlot
  <2>1. Spared(q) /\ Concerned(q)
    BY <1>4 DEF Concerned
  <2>2. caller[q] = "holding" \/ (pc = "sending" /\ sending = <<"grant", q>>)
    BY MovesForward
  <2>3. QED
    BY <2>1, <2>2 DEF InSlot, Spared
<1>6. WaitersOK'
  <2> SUFFICES ASSUME NEW q \in Request, Waits(q)'
               PROVE  /\ q \in DeferredRequests' \cup Pending' \cup DenialsOwed' \cup Reserved'
                      /\ q \in Reserved' => q \in Undelivered'
                      /\ q \in Terminal' => q \in DenialsOwed'
    BY DEF WaitersOK
  <2>1. Spared(q) /\ q \notin Anonymous /\ Generation[q] \notin fenced
        /\ caller'[q] = "waiting"
    BY <1>4 DEF Waits
  <2>2. CASE caller[q] = "waiting"
    <3>1. /\ q \in DeferredRequests \cup Pending \cup DenialsOwed \cup Reserved
          /\ q \in Reserved => q \in Undelivered
          /\ q \in Terminal => q \in DenialsOwed
      BY <2>1, <2>2 DEF WaitersOK, Waits
    <3>2. q \in Known => q \in Pending' \cup DenialsOwed' \cup Reserved'
      BY <1>2, <2>1, <3>1 DEF Spared, Known
    <3>3. m.type = "request" /\ m.request = q
            => q \in DeferredRequests' \cup Pending' \cup DenialsOwed' \cup Reserved'
      BY <1>2, <2>1, <3>2 DEF Effect
    <3>4. q \in DeferredRequests' \cup Pending' \cup DenialsOwed' \cup Reserved'
      BY <1>2, <3>1, <3>2, <3>3 DEF Known
    <3>5. QED
      BY <1>1, <1>2, <2>1, <3>1, <3>4 DEF Spared
  <2>3. CASE caller[q] # "waiting"
    <3>1. caller[q] = "idle" /\ m.type = "request" /\ m.request = q
      BY <2>1, <2>3, MovesForward
    <3>2. q \notin Known
      BY <3>1 DEF IdleOK
    <3>3. q \in Pending' \cup Owed' \cup DeferredRequests'
      BY <2>1, <3>1, <3>2 DEF Effect
    <3>4. QED
      BY <1>2, <2>1, <3>2, <3>3 DEF Spared, Known
  <2>4. QED
    BY <2>2, <2>3
<1>7. QED
  BY <1>3, <1>5, <1>6 DEF IdleOK

\* A Signal, deferred or handled at once, keeps every caller's claim.
LEMMA ReceiveKeeps ==
  ASSUME IInv, CallersOK, NEW m \in Message, Receive(m), Moves(m)
  PROVE  CallersOK'
<1> USE DEF CallersOK
<1>1. UNCHANGED <<pc, grants, denials, sending>>
  BY DEF Receive
<1>2. PhasesOK'
  BY <1>1 DEF PhasesOK
<1>3. deferred \in Seq(Message)
  BY DEF IInv, RunOK
<1>4. CASE pc = "start"
  <2>1. deferred' = Append(deferred, m)
        /\ UNCHANGED <<stateVars, pending_denials, fenced>>
    BY <1>4 DEF Receive
  <2>2. Range(deferred') = Range(deferred) \cup {m}
    BY <1>3, <2>1, AppendRange
  <2>3. DeferredRequests \subseteq DeferredRequests'
        /\ (m.type = "request" => m.request \in DeferredRequests')
    BY <2>2, DeferredMembers
  <2>4. \A q \in Request : Effect(m, q)
    BY <2>1, <2>3 DEF Effect, Spared, stateVars, Known, Pending, Reserved, Terminal, Owed
  <2>5. DeferredOK'
    <3> SUFFICES ASSUME NEW x \in Range(deferred')
                 PROVE  SenderMoved(x)'
      BY DeferredMembers
    <3>1. CASE x = m
      BY <3>1 DEF Moves, SenderMoved
    <3>2. CASE x \in Range(deferred)
      BY <1>3, <3>2, RangeOfSeq, DeferredMembers, SenderStaysMoved DEF IInv
    <3>3. QED
      BY <2>2, <3>1, <3>2
  <2>6. QED
    BY <1>1, <1>2, <2>3, <2>4, <2>5, EffectKeeps DEF IInv
<1>5. CASE pc # "start"
  <2>1. Apply(m) /\ deferred' = deferred
    BY <1>5 DEF Receive
  <2>2. \A q \in Request : Effect(m, q)
    BY <2>1, ApplyEffect DEF IInv
  <2>3. DeferredRequests' = DeferredRequests
    BY <2>1 DEF DeferredRequests
  <2>4. DeferredOK'
    <3> SUFFICES ASSUME NEW x \in Range(deferred)
                 PROVE  SenderMoved(x)'
      BY <2>1, DeferredMembers
    <3>1. QED
      BY <1>3, RangeOfSeq, DeferredMembers, SenderStaysMoved DEF IInv
  <2>5. QED
    BY <1>1, <1>2, <2>2, <2>3, <2>4, EffectKeeps DEF IInv
<1>6. QED
  BY <1>4, <1>5

\* Every Signal keeps every caller's claim.
LEMMA SignalsKeep ==
  ASSUME IInv, CallersOK, Signals
  PROVE  CallersOK'
<1>1. caller \in [Request -> {"idle", "waiting", "holding", "done"}]
  BY DEF IInv, RunOK
<1>2. ASSUME NEW r \in Request, RequestPermit(r) PROVE CallersOK'
  <2> DEFINE m == [type |-> "request", request |-> r]
  <2>1. m \in Message /\ m.type = "request" /\ m.request = r
    BY DEF Message
  <2>2. Receive(m) /\ caller' = [caller EXCEPT ![r] = IF @ = "idle" THEN "waiting" ELSE @]
    BY <1>2 DEF RequestPermit
  <2> HIDE DEF m
  <2>3. Moves(m)
    BY <1>1, <2>1, <2>2 DEF Moves
  <2>4. QED
    BY <2>1, <2>2, <2>3, ReceiveKeeps
<1>3. ASSUME NEW r \in Request, CancelPermit(r) PROVE CallersOK'
  <2> DEFINE m == [type |-> "cancel", request |-> r]
  <2>1. m \in Message /\ m.type = "cancel" /\ m.request = r
    BY DEF Message
  <2>2. Receive(m) /\ caller' = [caller EXCEPT ![r] = "done"]
    BY <1>3 DEF CancelPermit
  <2> HIDE DEF m
  <2>3. Moves(m)
    BY <1>1, <2>1, <2>2 DEF Moves
  <2>4. QED
    BY <2>1, <2>2, <2>3, ReceiveKeeps
<1>4. ASSUME NEW p \in issued, PermitCompleted(p) PROVE CallersOK'
  <2> DEFINE m == [type |-> "complete", request |-> p.request, window |-> p.window]
  <2>1. p.request \in Request /\ p.window \in Nat
    BY DEF IInv, RunOK, Permit
  <2>2. m \in Message /\ m.type = "complete" /\ m.request = p.request
    BY <2>1 DEF Message
  <2>3. Receive(m) /\ caller' = [caller EXCEPT ![p.request] = "done"]
    BY <1>4 DEF PermitCompleted
  <2> HIDE DEF m
  <2>4. Moves(m)
    BY <1>1, <2>1, <2>2, <2>3 DEF Moves
  <2>5. QED
    BY <2>2, <2>3, <2>4, ReceiveKeeps
<1>5. ASSUME NEW m \in Message, m.type \in {"cancel_generation", "observe", "disable"},
             Receive(m), UNCHANGED caller
      PROVE  CallersOK'
  <2>1. Moves(m)
    BY <1>1, <1>5 DEF Moves
  <2>2. QED
    BY <1>5, <2>1, ReceiveKeeps
<1>6. ASSUME NEW g \in Generations, CancelGeneration(g) PROVE CallersOK'
  BY <1>5, <1>6 DEF CancelGeneration, Message
<1>7. ASSUME NEW o \in Observation, ObserveQuota(o) PROVE CallersOK'
  BY <1>5, <1>7 DEF ObserveQuota, Message, IInv, RunOK
<1>8. CASE DisableScope
  BY <1>5, <1>8 DEF DisableScope, Message
<1>9. QED
  BY <1>2, <1>3, <1>4, <1>6, <1>7, <1>8 DEF Signals

-----------------------------------------------------------------------------
(* What the run loop does to the callers *)

\* The messages still deferred after the first has been taken.
LEMMA TailRange ==
  ASSUME NEW T, NEW s \in Seq(T), s # <<>>
  PROVE  /\ Head(s) \in T /\ Tail(s) \in Seq(T)
         /\ Range(s) = Range(Tail(s)) \cup {Head(s)}
<1>1. Len(s) \in Nat /\ Len(s) # 0 /\ DOMAIN s = 1..Len(s) /\ Head(s) = s[1]
  BY LenProperties, EmptySeq
<1>2. /\ Head(s) \in T /\ Tail(s) \in Seq(T)
      /\ DOMAIN Tail(s) = 1..(Len(s) - 1)
      /\ \A i \in 1..(Len(s) - 1) : Tail(s)[i] = s[i + 1]
  BY <1>1, HeadTailProperties, LenProperties
<1>3. ASSUME NEW x \in Range(s) PROVE x \in Range(Tail(s)) \cup {Head(s)}
  <2>1. PICK i \in 1..Len(s) : s[i] = x
    BY <1>1 DEF Range
  <2>2. CASE i = 1
    BY <1>1, <2>1, <2>2
  <2>3. CASE i # 1
    <3>1. i - 1 \in 1..(Len(s) - 1)
      BY <1>1, <2>3
    <3>2. Tail(s)[i - 1] = x
      BY <1>1, <1>2, <2>1, <3>1
    <3>3. QED
      BY <1>2, <3>1, <3>2 DEF Range
  <2>4. QED
    BY <2>2, <2>3
<1>4. ASSUME NEW x \in Range(Tail(s)) PROVE x \in Range(s)
  <2>1. PICK i \in 1..(Len(s) - 1) : Tail(s)[i] = x
    BY <1>2 DEF Range
  <2>2. i + 1 \in 1..Len(s) /\ s[i + 1] = x
    BY <1>1, <1>2, <2>1
  <2>3. QED
    BY <1>1, <2>2 DEF Range
<1>5. Head(s) \in Range(s)
  BY <1>1 DEF Range
<1>6. QED
  BY <1>2, <1>3, <1>4, <1>5

\* A deferred message takes effect like any other: its sender has moved since.
LEMMA ApplyDeferredKeeps ==
  ASSUME IInv, CallersOK, ApplyDeferred
  PROVE  CallersOK'
<1> DEFINE m == Head(deferred)
<1>1. /\ Apply(m) /\ deferred # <<>> /\ deferred' = Tail(deferred)
      /\ UNCHANGED <<pc, grants, denials, sending, caller>>
  BY DEF ApplyDeferred
<1>2. deferred \in Seq(Message)
  BY DEF IInv, RunOK
<1>3. m \in Message /\ Range(deferred) = Range(deferred') \cup {m}
  BY <1>1, <1>2, TailRange
<1> HIDE DEF m
<1>4. SenderMoved(m)
  BY <1>3, DeferredMembers DEF CallersOK
<1>5. Moves(m)
  BY <1>1, <1>4 DEF Moves, SenderMoved, IInv, RunOK
<1>6. \A q \in Request : Effect(m, q)
  BY <1>1, <1>3, ApplyEffect DEF IInv
<1>7. DeferredRequests \subseteq DeferredRequests' \cup
        {q \in Request : m.type = "request" /\ m.request = q}
  <2>1. ASSUME NEW x \in Range(deferred), x.type = "request"
        PROVE  x.request \in DeferredRequests' \cup
                 {q \in Request : m.type = "request" /\ m.request = q}
    <3>1. CASE x = m
      BY <1>3, <2>1, <3>1 DEF Message
    <3>2. CASE x \in Range(deferred')
      BY <2>1, <3>2, DeferredMembers
    <3>3. QED
      BY <1>3, <3>1, <3>2
  <2>2. QED
    BY <2>1, DeferredMembers
<1>8. DeferredOK'
  <2>1. ASSUME NEW x \in Range(deferred') PROVE SenderMoved(x)'
    BY <1>1, <1>3, DeferredMembers DEF SenderMoved, CallersOK
  <2>2. QED
    BY <2>1, DeferredMembers
<1>9. PhasesOK'
  BY <1>1 DEF PhasesOK, CallersOK
<1>10. QED
  BY <1>1, <1>3, <1>5, <1>6, <1>7, <1>8, <1>9, EffectKeeps DEF CallersOK, IInv

\* The head of the queue gets its slot and a grant to be delivered.
LEMMA GrantKeeps ==
  ASSUME IInv, CallersOK, Grant
  PROVE  CallersOK'
<1> DEFINE r == Head(pending)
           p == [request |-> r, window |-> window]
<1>1. /\ pc = "grant" /\ pending # <<>>
      /\ pending' = Tail(pending)
      /\ reservations' = [reservations EXCEPT ![r] = window]
      /\ grants' = Append(grants, p)
      /\ UNCHANGED <<recent_terminal, pc, deferred, pending_denials, denials, sending,
                     caller, fenced>>
  BY DEF Grant, Turn, CanGrant
<1>2. pending \in Seq(Request) /\ grants \in Seq(Permit) /\ window \in Nat
      /\ NoRepeats(pending)
  BY DEF IInv, Core, LifeStages, RunOK
<1>3. Pending = Pending' \cup {r} /\ r \in Request
  BY <1>1, <1>2, TailProperties DEF Pending
<1>4. p \in Permit /\ p.request = r
  BY <1>2, <1>3 DEF Permit
<1> HIDE DEF r, p
<1>5. Reserved' = Reserved \cup {r}
  BY <1>1, <1>2, <1>3, LimitAssumption DEF IInv, Core, Reserved, Optional
<1>6. Range(grants') = Range(grants) \cup {p}
  BY <1>1, <1>2, <1>4, AppendRange
<1>7. Undelivered' = Undelivered \cup {r}
  BY <1>1, <1>4, <1>6 DEF Undelivered
<1>8. /\ DenialsOwed' = DenialsOwed /\ DeferredRequests' = DeferredRequests
      /\ Terminal' = Terminal
  BY <1>1 DEF DenialsOwed, DeferredRequests, Terminal
<1>9. DeferredOK' /\ PhasesOK'
  BY <1>1 DEF CallersOK, DeferredOK, PhasesOK
<1>10. IdleOK'
  BY <1>1, <1>3, <1>5, <1>8 DEF CallersOK, IdleOK, Known
<1>11. InSlot'
  BY <1>1, <1>5 DEF CallersOK, InSlot, Concerned
<1>12. WaitersOK'
  BY <1>1, <1>3, <1>5, <1>7, <1>8 DEF CallersOK, WaitersOK, Waits
<1>13. QED
  BY <1>9, <1>10, <1>11, <1>12 DEF CallersOK

\* A step that leaves the ids, the deliveries and the callers alone, and does not
\* leave the phase its deliveries belong to, keeps every caller's claim.
LEMMA CallersFrame ==
  ASSUME CallersOK, PhasesOK',
         UNCHANGED <<pending, reservations, recent_terminal, deferred, pending_denials,
                     grants, denials, sending, caller, fenced>>,
         pc = "sending" <=> pc' = "sending"
  PROVE  CallersOK'
BY DEF CallersOK, DeferredOK, IdleOK, InSlot, WaitersOK, Waits, Concerned, Known, Pending,
       Reserved, Terminal, DeferredRequests, DenialsOwed, Undelivered

\* From queued denials to a round's deliveries to the Signal under way: nothing
\* owed is dropped.
LEMMA DeliverySteps ==
  ASSUME IInv, CallersOK, BeginDelivery \/ SendGrant \/ SendDenial
  PROVE  CallersOK'
<1> USE DEF CallersOK
<1>1. /\ grants \in Seq(Permit) /\ denials \in Seq(Request)
  BY DEF IInv, RunOK
<1>2. UNCHANGED <<stateVars, deferred, caller, fenced>>
  BY DEF BeginDelivery, SendGrant, SendDenial, histVars
<1>3. UNCHANGED <<Pending, Reserved, Terminal, Known, DeferredRequests>>
  BY <1>2 DEF stateVars, Pending, Reserved, Terminal, Known, DeferredRequests
<1>4. DeferredOK' /\ IdleOK'
  BY <1>2, <1>3 DEF DeferredOK, IdleOK
<1>5. ASSUME DenialsOwed \subseteq DenialsOwed',
             Undelivered \cap Reserved \subseteq Undelivered'
      PROVE  WaitersOK'
  BY <1>2, <1>3, <1>5 DEF WaitersOK, Waits
<1>6. CASE BeginDelivery
  <2>1. /\ pc = "grant" /\ pc' = "deliver" /\ denials = <<>>
        /\ denials' = pending_denials /\ UNCHANGED <<grants, sending>>
    BY <1>6 DEF BeginDelivery, PhasesOK
  <2>2. DenialsOwed \subseteq DenialsOwed'
    BY <2>1 DEF DenialsOwed, Range
  <2>3. Undelivered' = Undelivered
    BY <2>1 DEF Undelivered
  <2>4. PhasesOK' /\ InSlot'
    BY <1>2, <1>3, <2>1 DEF PhasesOK, InSlot, Concerned
  <2>5. QED
    BY <1>4, <1>5, <2>2, <2>3, <2>4
<1>7. CASE SendGrant
  <2> DEFINE r == Head(grants).request
  <2>1. /\ pc = "deliver" /\ grants # <<>> /\ grants' = Tail(grants)
        /\ IF r \in Reserved THEN pc' = "sending" /\ sending' = <<"grant", r>>
                             ELSE UNCHANGED <<pc, sending>>
        /\ UNCHANGED <<pending_denials, denials>>
    BY <1>7 DEF SendGrant
  <2>2. Range(grants) = Range(grants') \cup {Head(grants)}
    BY <1>1, <2>1, TailRange
  <2>3. Undelivered \cap Reserved \subseteq Undelivered'
    BY <2>1, <2>2 DEF Undelivered
  <2>4. DenialsOwed \subseteq DenialsOwed'
    BY <2>1 DEF DenialsOwed
  <2>5. PhasesOK'
    BY <2>1 DEF PhasesOK
  <2>6. InSlot'
    <3>1. CASE r \in Reserved
      BY <1>2, <1>3, <2>1, <3>1 DEF InSlot, Concerned
    <3>2. CASE r \notin Reserved
      BY <1>2, <1>3, <2>1, <3>2 DEF InSlot, Concerned
    <3>3. QED
      BY <3>1, <3>2
  <2>7. QED
    BY <1>4, <1>5, <2>3, <2>4, <2>5, <2>6
<1>8. CASE SendDenial
  <2> DEFINE r == Head(denials)
  <2>1. /\ pc = "deliver" /\ grants = <<>> /\ denials # <<>> /\ denials' = Tail(denials)
        /\ pc' = "sending" /\ sending' = <<"denial", r>>
        /\ UNCHANGED <<pending_denials, grants>>
    BY <1>8 DEF SendDenial
  <2>2. Range(denials) = Range(denials') \cup {r}
    BY <1>1, <2>1, TailRange
  <2>3. Undelivered \cap Reserved \subseteq Undelivered'
    BY <2>1 DEF Undelivered
  <2>4. DenialsOwed \subseteq DenialsOwed'
    BY <2>1, <2>2 DEF DenialsOwed
  <2>5. PhasesOK'
    BY <2>1 DEF PhasesOK
  <2>6. InSlot'
    BY <1>2, <1>3, <2>1 DEF InSlot, Concerned
  <2>7. QED
    BY <1>4, <1>5, <2>3, <2>4, <2>5, <2>6
<1>9. QED
  BY <1>6, <1>7, <1>8

\* The answer takes the caller out of its wait, delivered or not.
LEMMA AnswerSteps ==
  ASSUME IInv, CallersOK, Delivered \/ DeliveryFailed
  PROVE  CallersOK'
<1> USE DEF CallersOK
<1> DEFINE kind == sending[1]
           r == sending[2]
<1>1. /\ pc = "sending" /\ pc' = "deliver" /\ UNCHANGED <<deferred, grants, denials>>
      /\ caller \in [Request -> {"idle", "waiting", "holding", "done"}]
      /\ sending \in {"grant", "denial"} \X Request
  BY DEF Delivered, DeliveryFailed, IInv, RunOK
<1>2. kind \in {"grant", "denial"} /\ r \in Request /\ sending = <<kind, r>>
  BY <1>1
<1> HIDE DEF kind, r
<1>3. PhasesOK' /\ DeferredRequests' = DeferredRequests
  BY <1>1 DEF PhasesOK, DeferredRequests
<1>4. Undelivered' = Undelivered \ (IF kind = "grant" THEN {r} \ Undelivered' ELSE {})
  BY <1>1, <1>2 DEF Undelivered
<1>5. CASE Delivered
  <2>1. /\ UNCHANGED <<stateVars, pending_denials, fenced>>
        /\ caller' = [caller EXCEPT ![r] = IF @ # "waiting" THEN @
                        ELSE IF kind = "grant" THEN "holding" ELSE "done"]
    BY <1>5 DEF Delivered, histVars, kind, r
  <2>2. UNCHANGED <<Pending, Reserved, Terminal, Known>>
    BY <2>1 DEF stateVars, Pending, Reserved, Terminal, Known
  <2>3. DenialsOwed \ {r} \subseteq DenialsOwed'
    BY <1>1, <1>2, <2>1 DEF DenialsOwed
  <2>4. \A q \in Request : q # r => caller'[q] = caller[q]
    BY <1>1, <2>1
  <2>5. /\ caller'[r] # "waiting"
        /\ caller'[r] = "idle" => caller[r] = "idle"
        /\ caller[r] = "done" => caller'[r] = "done"
        /\ caller[r] # "idle" => caller'[r] # "idle"
        /\ caller'[r] = "holding" => caller[r] = "holding" \/ (kind = "grant" /\ caller[r] = "waiting")
    BY <1>1, <1>2, <2>1
  <2>6. IdleOK'
    BY <2>2, <2>4, <2>5 DEF IdleOK
  <2>7. InSlot'
    BY <1>1, <1>2, <2>1, <2>2, <2>4, <2>5 DEF InSlot, Concerned
  <2>8. WaitersOK'
    BY <1>3, <1>4, <2>1, <2>2, <2>3, <2>4, <2>5 DEF WaitersOK, Waits
  <2>9. DeferredOK'
    BY <1>1, <2>4, <2>5, DeferredMembers, RangeOfSeq DEF DeferredOK, SenderMoved, Message, IInv, RunOK
  <2>10. QED
    BY <1>3, <2>6, <2>7, <2>8, <2>9
<1>6. CASE DeliveryFailed
  <2>1. caller' = [caller EXCEPT ![r] = "done"]
    BY <1>6 DEF DeliveryFailed, r
  <2>2. \A q \in Request : q # r => caller'[q] = caller[q]
    BY <1>1, <2>1
  <2>3. caller'[r] = "done"
    BY <1>1, <1>2, <2>1
  <2>4. fenced' = fenced /\ Owed' = Owed
        /\ \A q \in Request : q # r => Spared(q) /\ (q \in Known' => q \in Known)
    <3>1. CASE ApplyCancel(r)
      BY <1>2, <3>1, CancelEffect DEF IInv
    <3>2. CASE UNCHANGED <<stateVars, pending_denials, fenced>>
      BY <3>2 DEF stateVars, Owed, Spared, Known, Pending, Reserved, Terminal
    <3>3. QED
      BY <1>6, <3>1, <3>2 DEF DeliveryFailed, r
  <2>5. DenialsOwed \ {r} \subseteq DenialsOwed' /\ Owed' \subseteq DenialsOwed'
    BY <1>1, <1>2, <2>4 DEF DenialsOwed, Owed
  <2>6. IdleOK'
    BY <2>2, <2>3, <2>4 DEF IdleOK
  <2>7. InSlot'
    BY <1>1, <2>2, <2>3, <2>4 DEF InSlot, Concerned, Spared
  <2>8. WaitersOK'
    <3> SUFFICES ASSUME NEW q \in Request, Waits(q)'
                 PROVE  /\ q \in DeferredRequests' \cup Pending' \cup DenialsOwed' \cup Reserved'
                        /\ q \in Reserved' => q \in Undelivered'
                        /\ q \in Terminal' => q \in DenialsOwed'
      BY DEF WaitersOK
    <3>1. q # r /\ Waits(q)
      BY <2>2, <2>3, <2>4 DEF Waits
    <3>2. QED
      BY <1>3, <1>4, <2>4, <2>5, <3>1 DEF WaitersOK, Spared
  <2>9. DeferredOK'
    BY <1>1, <2>2, <2>3, DeferredMembers, RangeOfSeq DEF DeferredOK, SenderMoved, Message, IInv, RunOK
  <2>10. QED
    BY <1>3, <2>6, <2>7, <2>8, <2>9
<1>7. QED
  BY <1>5, <1>6

\* Every step keeps every caller's claim.
LEMMA NextKeeps == IInv /\ CallersOK /\ [Next]_vars => CallersOK'
<1> SUFFICES ASSUME IInv, CallersOK, [Next]_vars PROVE CallersOK'
  OBVIOUS
<1>1. CASE Signals
  BY <1>1, SignalsKeep
<1>2. CASE ApplyDeferred
  BY <1>2, ApplyDeferredKeeps
<1>3. CASE Grant
  BY <1>3, GrantKeeps
<1>4. CASE BeginDelivery \/ SendGrant \/ SendDenial
  BY <1>4, DeliverySteps
<1>5. CASE Delivered \/ DeliveryFailed
  BY <1>5, AnswerSteps
<1>6. CASE Initialize
  <2>1. UNCHANGED recent_terminal
    BY <1>6, CompactIsIdle DEF IInv, Initialize
  <2>2. PhasesOK'
    BY <1>6 DEF Initialize, CallersOK, PhasesOK
  <2>3. QED
    BY <1>6, <2>1, <2>2, CallersFrame DEF Initialize
<1>7. CASE BeginRound
  <2>1. PhasesOK'
    BY <1>7 DEF BeginRound, CallersOK, PhasesOK
  <2>2. QED
    BY <1>7, <2>1, CallersFrame DEF BeginRound
<1>8. CASE ContinueAsNew
  <2>1. UNCHANGED recent_terminal
    BY <1>8, CompactIsIdle DEF IInv, ContinueAsNew
  <2>2. PhasesOK' /\ pending_denials' = pending_denials
    BY <1>8 DEF ContinueAsNew, DeliveryDone, MayContinueAsNew, CallersOK, PhasesOK
  <2>3. QED
    BY <1>8, <2>1, <2>2, CallersFrame DEF ContinueAsNew, DeliveryDone
<1>9. CASE Wait
  <2>1. PhasesOK'
    BY <1>9 DEF Wait, DeliveryDone, CallersOK, PhasesOK
  <2>2. QED
    BY <1>9, <2>1, CallersFrame DEF Wait, DeliveryDone, stateVars, histVars
<1>10. CASE SuggestContinueAsNew \/ Tick \/ UNCHANGED vars
  <2>1. UNCHANGED <<stateVars, pc, deferred, pending_denials, grants, denials, sending,
                    caller, fenced>>
    BY <1>10 DEF SuggestContinueAsNew, Tick, vars, runVars, histVars
  <2>2. PhasesOK'
    BY <2>1 DEF CallersOK, PhasesOK
  <2>3. QED
    BY <2>1, <2>2, CallersFrame DEF stateVars
<1>11. QED
  BY <1>1, <1>2, <1>3, <1>4, <1>5, <1>6, <1>7, <1>8, <1>9, <1>10 DEF Next, Loop

\* What every caller can rely on holds in every reachable state.
THEOREM CallersInvariant == Spec => []CallersOK
<1>1. Init => CallersOK
  <2> SUFFICES ASSUME Init PROVE CallersOK
    OBVIOUS
  <2>1. Reserved = {} /\ Pending = {} /\ Terminal = {}
    BY DEF Init, Reserved, Pending, Terminal, Range
  <2>2. DOMAIN deferred = {}
    BY DEF Init
  <2>3. QED
    BY <2>1, <2>2 DEF Init, CallersOK, DeferredOK, IdleOK, PhasesOK, InSlot, WaitersOK, Waits,
                      Known
<1>2. IInv /\ CallersOK /\ [Next]_vars => CallersOK'
  BY NextKeeps
<1>3. QED
  BY <1>1, <1>2, Invariant, PTL DEF Spec

\* No more callers than slots work on a permit at a time, for every order of
\* completions, cancellations, failed deliveries and rollovers.
THEOREM SlotsBoundWork == Spec => []WorkWithinSlots
<1>1. IInv /\ CallersOK => WorkWithinSlots
  <2> SUFFICES ASSUME IInv, CallersOK PROVE WorkWithinSlots
    OBVIOUS
  <2>1. AtWork \subseteq Reserved
    BY DEF AtWork, CallersOK, InSlot, Concerned
  <2>2. Cardinality(AtWork) \in Nat /\ Cardinality(AtWork) <= Cardinality(Reserved)
    BY <2>1, ReservedFinite, FS_Subset, FS_CardinalityType
  <2>3. Cardinality(Reserved) <= MaxInFlight
    BY DEF IInv, Core, SlotAccounting
  <2>4. QED
    BY <2>2, <2>3, ReservedFinite, LimitAssumption DEF WorkWithinSlots
<1>2. QED
  BY <1>1, Invariant, CallersInvariant, PTL

\* No caller is left waiting in silence: whatever is repeated, cancelled, denied,
\* disabled or rolled over, a caller that still waits is queued, granted with the
\* grant still to be delivered, or owed a denial.
THEOREM NobodyWaitsInSilence == Spec => []EveryWaiterWillHear
<1>1. CallersOK => EveryWaiterWillHear
  BY DEF CallersOK, WaitersOK, Waits, EveryWaiterWillHear, WillHear
<1>2. QED
  BY <1>1, CallersInvariant, PTL
=============================================================================
