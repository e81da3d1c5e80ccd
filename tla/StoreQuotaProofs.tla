-------------------------- MODULE StoreQuotaProofs --------------------------
(***************************************************************************)
(* What the controller knows of the operations of its store, for any number *)
(* of them and any order of their Signals, as long as its authority can     *)
(* always be read again (AuthorityMayFail = FALSE; a controller that loses  *)
(* its authority forgets its operations and their scopes).                  *)
(*                                                                          *)
(* The argument follows the queue.  A root sync is registered when it       *)
(* starts and reports its end once, so it is at work or has one report      *)
(* queued exactly while it is registered.  A remediation is begun by a root *)
(* at work, which sends its registration before its own report; so when no  *)
(* sync and no remediation is registered, no report of one is on its way    *)
(* and none is at work.  The lemmas are about a queue q, the operations at  *)
(* work W, the registered syncs A and remediations M, and what the open     *)
(* roots have begun, B, and not yet registered, P.                          *)
(***************************************************************************)
EXTENDS StoreTypeProofs

Ends(m) == m.kind \in {"operation_status", "remediation_finished"}

\* Message i of q reports the end of x, or registers the remediation r.
EndAt(q, i, x) == i \in 1..Len(q) /\ Ends(q[i]) /\ q[i].operation = x
StartAt(q, i, r) ==
  i \in 1..Len(q) /\ q[i].kind = "remediation_started" /\ q[i].operation = r

\* The sync that begins a remediation.
RootOf(r) == SyncId(r[2], r[3])

Reporting == Operation \cup Deactivating

\* Nothing reports its end twice.
EndsOnce(q) ==
  \A x \in Reporting : \A i, j \in Nat : EndAt(q, i, x) /\ EndAt(q, j, x) => i = j

\* At most one sync is registered; it is at work or has reported.
RootsKnown(q, W, A) ==
  /\ \A a, b \in A : a = b
  /\ \A op \in Sync : op \in W => op \in A /\ \A i \in Nat : ~EndAt(q, i, op)
  /\ \A op \in Sync : \A i \in Nat : EndAt(q, i, op) => op \in A

\* The root of r is at work, or reports only after message i.
RootLater(q, W, r, i) ==
  RootOf(r) \in W \/ \E j \in Nat : j > i /\ EndAt(q, j, RootOf(r))

\* A registration comes before the report of the root.
StartsInTime(q, W) ==
  \A r \in Remediation : \A i \in Nat : StartAt(q, i, r) => RootLater(q, W, r, i)

\* A remediation reports when it is registered, or before its root does.
EndsInTime(q, W, M) ==
  \A r \in Remediation : \A i \in Nat :
    EndAt(q, i, r) =>
      r \in M \/ RootLater(q, W, r, i) \/ \E j \in Nat : j < i /\ StartAt(q, j, r)

\* A remediation at work is registered or will be, has not reported, and is one
\* its root has begun; one that its root has not begun has not reported.
RemediationKnown(q, W, M, B, P, r) ==
  /\ r \in P => RootOf(r) \in W
  /\ r \in W => /\ r \in P \cup M \/ \E i \in Nat : StartAt(q, i, r)
                /\ \A i \in Nat : ~EndAt(q, i, r)
                /\ RootOf(r) \in W => r \in B
  /\ RootOf(r) \in W /\ r \notin B => \A i \in Nat : ~EndAt(q, i, r)

WorkKnown(q, W, M, B, P) ==
  \A r \in Remediation : RemediationKnown(q, W, M, B, P, r)

Accounted(q, W, A, M, B, P) ==
  /\ EndsOnce(q)
  /\ RootsKnown(q, W, A)
  /\ StartsInTime(q, W)
  /\ EndsInTime(q, W, M)
  /\ WorkKnown(q, W, M, B, P)

\* The registered deactivation id is open (phase ph, of generation g) or has its
\* report queued.
DeactivationKnown(q, ph, g, id) ==
  /\ ph # "none" => id = g /\ \A i \in Nat : ~EndAt(q, i, DeactivationId(g))
  /\ \A x \in Deactivating : \A i \in Nat :
       EndAt(q, i, x) => id # None /\ x = DeactivationId(id)

-----------------------------------------------------------------------------
(* Kinds of operations and messages *)

\* A sync, a remediation and a deactivation are never the same workflow.
LEMMA KindsDiffer ==
  /\ Sync \cap Remediation = {} /\ Sync \cap Deactivating = {}
  /\ Remediation \cap Deactivating = {}
<1>1. /\ \A x \in Sync : x[1] = "sync"
      /\ \A x \in Remediation : x[1] = "remediation"
      /\ \A x \in Deactivating : x[1] = "deactivation"
  BY DEF Sync, Remediation, Deactivating
<1>2. QED
  BY <1>1

\* The remediations of a sync are those whose root it is.
LEMMA RootsAndRemediations ==
  /\ \A r \in Remediation : RootOf(r) \in Sync
  /\ \A op \in Sync : \A r \in RemediationsOf(op) : r \in Remediation /\ RootOf(r) = op
  /\ \A r \in Remediation : r \in RemediationsOf(RootOf(r))
<1>1. \A r \in Remediation :
        \E g \in Nat, s \in Sequence, p \in Partition : r = RemediationId(g, s, p)
  BY DEF Remediation, RemediationId
<1>2. \A g \in Nat, s \in Sequence, p \in Partition :
        /\ RootOf(RemediationId(g, s, p)) = SyncId(g, s)
        /\ SyncId(g, s) \in Sync
        /\ RemediationId(g, s, p) \in Remediation
        /\ RemediationId(g, s, p) \in RemediationsOf(SyncId(g, s))
  BY DEF RootOf, RemediationId, SyncId, Sync, RemediationsOf, Remediation
<1>3. \A op \in Sync : \E g \in Nat, s \in Sequence : op = SyncId(g, s)
  BY DEF Sync, SyncId
<1>4. \A op \in Sync : \A r \in RemediationsOf(op) : r \in Remediation /\ RootOf(r) = op
  BY <1>2, <1>3 DEF RemediationsOf, SyncId
<1>5. QED
  BY <1>1, <1>2, <1>4

\* What is where in a longer queue.
LEMMA AppendAt ==
  ASSUME NEW q \in Seq(Envelope), NEW m \in Envelope, NEW x, NEW i \in Nat
  PROVE  /\ EndAt(Append(q, m), i, x) <=>
              EndAt(q, i, x) \/ (i = Len(q) + 1 /\ Ends(m) /\ m.operation = x)
         /\ StartAt(Append(q, m), i, x) <=>
              StartAt(q, i, x) \/
              (i = Len(q) + 1 /\ m.kind = "remediation_started" /\ m.operation = x)
         /\ EndAt(q, i, x) \/ StartAt(q, i, x) => i < Len(q) + 1
<1> DEFINE a == Append(q, m)
<1>1. Len(q) \in Nat /\ Len(a) = Len(q) + 1
  BY LenProperties, AppendProperties
<1>2. /\ \A k \in 1..Len(q) : a[k] = q[k]
      /\ a[Len(q) + 1] = m
  BY AppendProperties
<1> HIDE DEF a
<1>3. i \in 1..Len(a) <=> i \in 1..Len(q) \/ i = Len(q) + 1
  BY <1>1
<1>4. i \in 1..Len(q) => i < Len(q) + 1
  BY <1>1
<1>5. QED
  BY <1>1, <1>2, <1>3, <1>4 DEF EndAt, StartAt, a

\* What is where once the head is taken.
LEMMA TailAt ==
  ASSUME NEW q \in Seq(Envelope), q # <<>>, NEW x, NEW i \in Nat
  PROVE  /\ EndAt(Tail(q), i, x) <=> i > 0 /\ EndAt(q, i + 1, x)
         /\ StartAt(Tail(q), i, x) <=> i > 0 /\ StartAt(q, i + 1, x)
         /\ EndAt(q, 1, x) <=> Ends(Head(q)) /\ Head(q).operation = x
         /\ StartAt(q, 1, x) <=>
              Head(q).kind = "remediation_started" /\ Head(q).operation = x
         /\ EndAt(q, i, x) \/ StartAt(q, i, x) => i > 0
<1> DEFINE t == Tail(q)
<1>1. Len(q) \in Nat /\ Len(q) > 0 /\ Len(t) = Len(q) - 1 /\ Head(q) = q[1]
  BY LenProperties, EmptySeq, HeadTailProperties
<1>2. \A k \in 1..(Len(q) - 1) : t[k] = q[k + 1]
  BY HeadTailProperties
<1> HIDE DEF t
<1>3. i \in 1..Len(t) <=> i > 0 /\ i + 1 \in 1..Len(q)
  BY <1>1
<1>4. QED
  BY <1>1, <1>2, <1>3 DEF EndAt, StartAt, t

-----------------------------------------------------------------------------
(* A message joins the queue *)

Neutral(m) == ~Ends(m) /\ m.kind # "remediation_started"

\* A message that neither registers nor reports changes nothing here.
LEMMA AppendNeutral ==
  ASSUME NEW q \in Seq(Envelope), NEW m \in Envelope, Neutral(m),
         NEW W, NEW A, NEW M, NEW B, NEW P, Accounted(q, W, A, M, B, P)
  PROVE  Accounted(Append(q, m), W, A, M, B, P)
<1> DEFINE a == Append(q, m)
<1>1. \A x : \A i \in Nat : (EndAt(a, i, x) <=> EndAt(q, i, x))
                            /\ (StartAt(a, i, x) <=> StartAt(q, i, x))
  BY AppendAt DEF Neutral
<1> HIDE DEF a
<1>2. QED
  BY <1>1 DEF Accounted, EndsOnce, RootsKnown, StartsInTime, EndsInTime, WorkKnown, RemediationKnown, RootLater, a

\* The registration of a remediation joins the queue while its root is at work.
LEMMA AppendStart ==
  ASSUME NEW q \in Seq(Envelope), NEW m \in Envelope,
         NEW W, NEW A, NEW M, NEW B, NEW P, Accounted(q, W, A, M, B, P),
         NEW r \in P, r \in Remediation,
         m.kind = "remediation_started", m.operation = r
  PROVE  Accounted(Append(q, m), W, A, M, B, P \ {r})
<1> DEFINE a == Append(q, m)
           n == Len(q) + 1
<1>1. n \in Nat
  BY LenProperties
<1>2. \A x : \A i \in Nat : /\ EndAt(a, i, x) <=> EndAt(q, i, x)
                            /\ StartAt(a, i, x) <=> StartAt(q, i, x) \/ (i = n /\ x = r)
  BY AppendAt DEF Ends
<1> HIDE DEF a, n
<1>3. EndsOnce(a) /\ RootsKnown(a, W, A)
  BY <1>2 DEF Accounted, EndsOnce, RootsKnown
<1>4. RootOf(r) \in W
  BY DEF Accounted, WorkKnown, RemediationKnown
<1>5. StartsInTime(a, W)
  BY <1>2, <1>4 DEF Accounted, StartsInTime, RootLater
<1>6. EndsInTime(a, W, M)
  BY <1>2 DEF Accounted, EndsInTime, RootLater
<1>7. WorkKnown(a, W, M, B, P \ {r})
  BY <1>1, <1>2 DEF Accounted, WorkKnown, RemediationKnown
<1>8. QED
  BY <1>3, <1>5, <1>6, <1>7 DEF Accounted, a

\* A root reports its end and closes, with no registration outstanding.
LEMMA AppendSyncEnd ==
  ASSUME NEW q \in Seq(Envelope), NEW m \in Envelope,
         NEW W, NEW A, NEW M, NEW B, NEW P, Accounted(q, W, A, M, B, P),
         NEW op \in W, op \in Sync, RemediationsOf(op) \cap P = {},
         Ends(m), m.operation = op
  PROVE  Accounted(Append(q, m), W \ {op}, A, M, B \ RemediationsOf(op), P)
<1> DEFINE a == Append(q, m)
           n == Len(q) + 1
<1>1. n \in Nat
  BY LenProperties
<1>2. \A x : \A i \in Nat : /\ EndAt(a, i, x) <=> EndAt(q, i, x) \/ (i = n /\ x = op)
                            /\ StartAt(a, i, x) <=> StartAt(q, i, x)
                            /\ EndAt(q, i, x) \/ StartAt(q, i, x) => i < n
  BY AppendAt DEF Ends
<1> HIDE DEF a, n
<1>3. \A i \in Nat : ~EndAt(q, i, op)
  BY DEF Accounted, RootsKnown
<1>4. EndsOnce(a)
  BY <1>2, <1>3 DEF Accounted, EndsOnce
<1>5. RootsKnown(a, W \ {op}, A)
  BY <1>2 DEF Accounted, RootsKnown
<1>6. \A r \in Remediation : \A i \in Nat :
        i < n /\ RootLater(q, W, r, i) => RootLater(a, W \ {op}, r, i)
  BY <1>1, <1>2 DEF RootLater
<1>7. StartsInTime(a, W \ {op})
  BY <1>2, <1>6 DEF Accounted, StartsInTime
<1>8. EndsInTime(a, W \ {op}, M)
  BY <1>2, <1>6, KindsDiffer DEF Accounted, EndsInTime
<1>9. WorkKnown(a, W \ {op}, M, B \ RemediationsOf(op), P)
  <2> SUFFICES ASSUME NEW r \in Remediation
               PROVE  RemediationKnown(a, W \ {op}, M, B \ RemediationsOf(op), P, r)
    BY DEF WorkKnown
  <2>1. r # op /\ (RootOf(r) = op => r \in RemediationsOf(op))
        /\ (r \in RemediationsOf(op) => RootOf(r) = op)
    BY KindsDiffer, RootsAndRemediations
  <2>2. \A i \in Nat : (EndAt(a, i, r) <=> EndAt(q, i, r)) /\ (StartAt(a, i, r) <=> StartAt(q, i, r))
    BY <1>2, <2>1
  <2>3. QED
    BY <2>1, <2>2 DEF Accounted, WorkKnown, RemediationKnown
<1>10. QED
  BY <1>4, <1>5, <1>7, <1>8, <1>9 DEF Accounted, a

\* A remediation reports its end and closes.
LEMMA AppendRemediationEnd ==
  ASSUME NEW q \in Seq(Envelope), NEW m \in Envelope,
         NEW W, NEW A, NEW M, NEW B, NEW P, Accounted(q, W, A, M, B, P),
         NEW r \in W, r \in Remediation, Ends(m), m.operation = r
  PROVE  Accounted(Append(q, m), W \ {r}, A, M, B, P)
<1> DEFINE a == Append(q, m)
           n == Len(q) + 1
<1>1. n \in Nat
  BY LenProperties
<1>2. \A x : \A i \in Nat : /\ EndAt(a, i, x) <=> EndAt(q, i, x) \/ (i = n /\ x = r)
                            /\ StartAt(a, i, x) <=> StartAt(q, i, x)
                            /\ EndAt(q, i, x) \/ StartAt(q, i, x) => i < n
  BY AppendAt DEF Ends
<1> HIDE DEF a, n
<1>3. /\ \A i \in Nat : ~EndAt(q, i, r)
      /\ r \in P => RootOf(r) \in W
      /\ r \in P \cup M \/ \E i \in Nat : StartAt(q, i, r)
      /\ RootOf(r) \in W => r \in B
  BY DEF Accounted, WorkKnown, RemediationKnown
<1>4. r \notin Sync /\ \A x \in Remediation : RootOf(x) \in Sync
  BY KindsDiffer, RootsAndRemediations
<1>5. EndsOnce(a)
  BY <1>2, <1>3 DEF Accounted, EndsOnce
<1>6. RootsKnown(a, W \ {r}, A)
  BY <1>2, <1>4 DEF Accounted, RootsKnown
<1>7. \A x \in Remediation : \A i \in Nat : RootLater(q, W, x, i) => RootLater(a, W \ {r}, x, i)
  BY <1>2, <1>4 DEF RootLater
<1>8. StartsInTime(a, W \ {r})
  BY <1>2, <1>7 DEF Accounted, StartsInTime
<1>9. EndsInTime(a, W \ {r}, M)
  <2> SUFFICES ASSUME NEW x \in Remediation, NEW i \in Nat, EndAt(a, i, x)
               PROVE  \/ x \in M \/ RootLater(a, W \ {r}, x, i)
                      \/ \E j \in Nat : j < i /\ StartAt(a, j, x)
    BY DEF EndsInTime
  <2>1. CASE EndAt(q, i, x)
    BY <1>2, <1>7, <2>1 DEF Accounted, EndsInTime
  <2>2. CASE i = n /\ x = r
    BY <1>2, <1>3, <1>4, <2>2 DEF RootLater
  <2>3. QED
    BY <1>2, <2>1, <2>2
<1>10. WorkKnown(a, W \ {r}, M, B, P)
  <2> SUFFICES ASSUME NEW x \in Remediation
               PROVE  RemediationKnown(a, W \ {r}, M, B, P, x)
    BY DEF WorkKnown
  <2>1. RootOf(x) # r
    BY <1>4
  <2>2. QED
    BY <1>2, <1>3, <2>1 DEF Accounted, WorkKnown, RemediationKnown
<1>11. QED
  BY <1>5, <1>6, <1>8, <1>9, <1>10 DEF Accounted, a

\* A deactivation reports its end, once.
LEMMA AppendDeactivationEnd ==
  ASSUME NEW q \in Seq(Envelope), NEW m \in Envelope,
         NEW W, NEW A, NEW M, NEW B, NEW P, Accounted(q, W, A, M, B, P),
         Ends(m), m.operation \in Deactivating,
         \A i \in Nat : ~EndAt(q, i, m.operation)
  PROVE  Accounted(Append(q, m), W, A, M, B, P)
<1> DEFINE a == Append(q, m)
           n == Len(q) + 1
<1>1. n \in Nat
  BY LenProperties
<1>2. \A x : \A i \in Nat : /\ EndAt(a, i, x) <=> EndAt(q, i, x) \/ (i = n /\ x = m.operation)
                            /\ StartAt(a, i, x) <=> StartAt(q, i, x)
  BY AppendAt DEF Ends
<1> HIDE DEF a, n
<1>3. m.operation \notin Sync /\ m.operation \notin Remediation
      /\ \A x \in Remediation : RootOf(x) \in Sync
  BY KindsDiffer, RootsAndRemediations
<1>4. EndsOnce(a)
  BY <1>2 DEF Accounted, EndsOnce
<1>5. RootsKnown(a, W, A)
  BY <1>2, <1>3 DEF Accounted, RootsKnown
<1>6. StartsInTime(a, W)
  BY <1>2, <1>3 DEF Accounted, StartsInTime, RootLater
<1>7. EndsInTime(a, W, M)
  BY <1>2, <1>3 DEF Accounted, EndsInTime, RootLater
<1>8. WorkKnown(a, W, M, B, P)
  BY <1>2, <1>3 DEF Accounted, WorkKnown, RemediationKnown
<1>9. QED
  BY <1>4, <1>5, <1>6, <1>7, <1>8 DEF Accounted, a

-----------------------------------------------------------------------------
(* The head is taken *)

\* A report takes its operation off the books, a registration puts one on; any
\* other message changes nothing.
LEMMA TakeHead ==
  ASSUME NEW q \in Seq(Envelope), q # <<>>,
         NEW W, NEW A, NEW M, NEW B, NEW P, Accounted(q, W, A, M, B, P),
         NEW A2, \A x : x \in A2 <=> x \in A /\ ~EndAt(q, 1, x),
         NEW M2, \A x : x \in M2 <=> (x \in M /\ ~EndAt(q, 1, x)) \/ StartAt(q, 1, x)
  PROVE  Accounted(Tail(q), W, A2, M2, B, P)
<1> DEFINE t == Tail(q)
<1>1. \A x : \A i \in Nat : /\ EndAt(t, i, x) <=> i > 0 /\ EndAt(q, i + 1, x)
                            /\ StartAt(t, i, x) <=> i > 0 /\ StartAt(q, i + 1, x)
                            /\ EndAt(q, i, x) \/ StartAt(q, i, x) => i > 0
  BY TailAt
<1>2. \A x : ~(EndAt(q, 1, x) /\ StartAt(q, 1, x))
  BY TailAt DEF Ends
<1> HIDE DEF t
<1>3. \A x : \A j \in Nat : /\ EndAt(q, j, x) => j = 1 \/ (j - 1 \in Nat /\ EndAt(t, j - 1, x))
                            /\ StartAt(q, j, x) => j = 1 \/ (j - 1 \in Nat /\ StartAt(t, j - 1, x))
  <2> SUFFICES ASSUME NEW x, NEW j \in Nat, j # 1, EndAt(q, j, x) \/ StartAt(q, j, x)
               PROVE  /\ j - 1 \in Nat
                      /\ EndAt(q, j, x) => EndAt(t, j - 1, x)
                      /\ StartAt(q, j, x) => StartAt(t, j - 1, x)
    OBVIOUS
  <2>1. j - 1 \in Nat /\ j - 1 > 0 /\ (j - 1) + 1 = j
    BY <1>1
  <2>2. QED
    BY <1>1, <2>1
<1>4. \A x : \A i \in Nat : EndAt(t, i, x) => i + 1 \in Nat /\ i + 1 # 1 /\ EndAt(q, i + 1, x)
  BY <1>1
<1>5. EndsOnce(t)
  <2> SUFFICES ASSUME NEW x \in Reporting, NEW i \in Nat, NEW j \in Nat,
                      EndAt(t, i, x), EndAt(t, j, x)
               PROVE  i = j
    BY DEF EndsOnce
  <2>1. i + 1 = j + 1
    BY <1>4 DEF Accounted, EndsOnce
  <2>2. QED
    BY <2>1
<1>6. RootsKnown(t, W, A2)
  <2>1. \A op \in Sync : op \in W => op \in A2 /\ \A i \in Nat : ~EndAt(t, i, op)
    BY <1>4 DEF Accounted, RootsKnown
  <2>2. \A op \in Sync : \A i \in Nat : EndAt(t, i, op) => op \in A2
    <3> SUFFICES ASSUME NEW op \in Sync, NEW i \in Nat, EndAt(t, i, op)
                 PROVE  op \in A2
      OBVIOUS
    <3>1. op \in A /\ op \in Reporting
      BY <1>4 DEF Accounted, RootsKnown, Reporting, Operation
    <3>2. ~EndAt(q, 1, op)
      BY <1>4, <3>1 DEF Accounted, EndsOnce
    <3>3. QED
      BY <3>1, <3>2
  <2>3. QED
    BY <2>1, <2>2 DEF Accounted, RootsKnown
<1>7. \A r \in Remediation : \A i \in Nat : RootLater(q, W, r, i + 1) => RootLater(t, W, r, i)
  <2> SUFFICES ASSUME NEW r \in Remediation, NEW i \in Nat, NEW j \in Nat, j > i + 1,
                      EndAt(q, j, RootOf(r))
               PROVE  \E k \in Nat : k > i /\ EndAt(t, k, RootOf(r))
    BY DEF RootLater
  <2>1. j - 1 \in Nat /\ j - 1 > i /\ EndAt(t, j - 1, RootOf(r))
    BY <1>3
  <2>2. QED
    BY <2>1
<1>8. StartsInTime(t, W)
  BY <1>1, <1>7 DEF Accounted, StartsInTime
<1>9. EndsInTime(t, W, M2)
  <2> SUFFICES ASSUME NEW r \in Remediation, NEW i \in Nat, EndAt(t, i, r)
               PROVE  \/ r \in M2 \/ RootLater(t, W, r, i)
                      \/ \E j \in Nat : j < i /\ StartAt(t, j, r)
    BY DEF EndsInTime
  <2>1. EndAt(q, i + 1, r) /\ i + 1 \in Nat /\ ~EndAt(q, 1, r)
    BY <1>4 DEF Accounted, EndsOnce, Reporting, Operation
  <2>2. CASE r \in M \/ RootLater(q, W, r, i + 1)
    BY <1>7, <2>1, <2>2
  <2>3. ASSUME NEW j \in Nat, j < i + 1, StartAt(q, j, r) PROVE r \in M2 \/ \E k \in Nat : k < i /\ StartAt(t, k, r)
    <3>1. CASE j = 1
      BY <2>3, <3>1
    <3>2. CASE j # 1
      <4>1. j - 1 \in Nat /\ j - 1 < i /\ StartAt(t, j - 1, r)
        BY <1>3, <2>3, <3>2
      <4>2. QED
        BY <4>1
    <3>3. QED
      BY <3>1, <3>2
  <2>4. QED
    BY <2>1, <2>2, <2>3 DEF Accounted, EndsInTime
<1>10. WorkKnown(t, W, M2, B, P)
  <2> SUFFICES ASSUME NEW r \in Remediation
               PROVE  RemediationKnown(t, W, M2, B, P, r)
    BY DEF WorkKnown
  <2>1. (\A i \in Nat : ~EndAt(q, i, r)) => \A i \in Nat : ~EndAt(t, i, r)
    BY <1>4
  <2>2. ASSUME r \in W PROVE r \in P \cup M2 \/ \E i \in Nat : StartAt(t, i, r)
    <3>1. ~EndAt(q, 1, r) /\ (r \in P \cup M \/ \E i \in Nat : StartAt(q, i, r))
      BY <2>2 DEF Accounted, WorkKnown, RemediationKnown
    <3>2. ASSUME NEW i \in Nat, StartAt(q, i, r) PROVE r \in M2 \/ \E k \in Nat : StartAt(t, k, r)
      BY <1>3, <3>2
    <3>3. QED
      BY <3>1, <3>2
  <2>3. QED
    BY <2>1, <2>2 DEF Accounted, WorkKnown, RemediationKnown
<1>11. QED
  BY <1>5, <1>6, <1>8, <1>9, <1>10 DEF Accounted, t

-----------------------------------------------------------------------------
(* Nothing is registered *)

\* With no sync and no remediation registered nothing is at work, and neither a
\* registration nor the report of an operation is on its way.
LEMMA Quiet ==
  ASSUME NEW q, NEW W \in SUBSET Operation, NEW B, NEW P, Accounted(q, W, {}, {}, B, P)
  PROVE  /\ W = {}
         /\ \A i \in Nat : \A op \in Operation : ~EndAt(q, i, op)
         /\ \A i \in Nat : \A r \in Remediation : ~StartAt(q, i, r)
         /\ P \cap Remediation = {}
<1>1. W \cap Sync = {} /\ \A i \in Nat : \A op \in Sync : ~EndAt(q, i, op)
  BY DEF Accounted, RootsKnown
<1>2. \A r \in Remediation : \A i \in Nat : ~RootLater(q, W, r, i)
  BY <1>1, RootsAndRemediations DEF RootLater
<1>3. \A r \in Remediation : \A i \in Nat : ~StartAt(q, i, r)
  BY <1>2 DEF Accounted, StartsInTime
<1>4. \A r \in Remediation : \A i \in Nat : ~EndAt(q, i, r)
  BY <1>2, <1>3 DEF Accounted, EndsInTime
<1>5. P \cap Remediation = {}
  BY <1>1, RootsAndRemediations DEF Accounted, WorkKnown, RemediationKnown
<1>6. W \cap Remediation = {}
  BY <1>3, <1>5 DEF Accounted, WorkKnown, RemediationKnown
<1>7. QED
  BY <1>1, <1>3, <1>4, <1>5, <1>6 DEF Operation

\* A sync starts when nothing is registered.
LEMMA SyncStart ==
  ASSUME NEW q, NEW W \in SUBSET Operation, NEW B, NEW P, Accounted(q, W, {}, {}, B, P),
         NEW op \in Sync
  PROVE  Accounted(q, W \cup {op}, {op}, {}, B, P)
<1>1. /\ W = {}
      /\ \A i \in Nat : \A x \in Operation : ~EndAt(q, i, x)
      /\ \A i \in Nat : \A r \in Remediation : ~StartAt(q, i, r)
      /\ P \cap Remediation = {}
  BY Quiet
<1>2. op \notin Remediation /\ Sync \subseteq Operation /\ Remediation \subseteq Operation
  BY KindsDiffer DEF Operation
<1>3. QED
  BY <1>1, <1>2 DEF Accounted, RootsKnown, StartsInTime, EndsInTime, WorkKnown, RemediationKnown

\* A root at work begins a remediation it has not begun before.
LEMMA RemediationStart ==
  ASSUME NEW q, NEW W, NEW A, NEW M, NEW B, NEW P, Accounted(q, W, A, M, B, P),
         NEW r \in Remediation, RootOf(r) \in W, r \notin B
  PROVE  Accounted(q, W \cup {r}, A, M, B \cup {r}, P \cup {r})
<1>1. r \notin Sync /\ \A x \in Remediation : RootOf(x) \in Sync
  BY KindsDiffer, RootsAndRemediations
<1>2. EndsOnce(q) /\ RootsKnown(q, W \cup {r}, A)
  BY <1>1 DEF Accounted, RootsKnown
<1>3. StartsInTime(q, W \cup {r}) /\ EndsInTime(q, W \cup {r}, M)
  BY DEF Accounted, StartsInTime, EndsInTime, RootLater
<1>4. WorkKnown(q, W \cup {r}, M, B \cup {r}, P \cup {r})
  BY <1>1 DEF Accounted, WorkKnown, RemediationKnown
<1>5. QED
  BY <1>2, <1>3, <1>4 DEF Accounted

-----------------------------------------------------------------------------
(* The deactivation and the queue *)

\* A deactivation is a workflow that reports its end.
LEMMA DeactivationIds ==
  \A g \in Nat : DeactivationId(g) \in Deactivating /\ DeactivationId(g) \in Reporting
BY DEF DeactivationId, Deactivating, Reporting

\* A message that is not its report changes nothing.
LEMMA DeactivationAppend ==
  ASSUME NEW q \in Seq(Envelope), NEW m \in Envelope,
         NEW ph, NEW g \in Nat, NEW id, DeactivationKnown(q, ph, g, id),
         ~Ends(m) \/ m.operation \notin Deactivating
  PROVE  DeactivationKnown(Append(q, m), ph, g, id)
<1> DEFINE a == Append(q, m)
<1>1. \A x \in Deactivating : \A i \in Nat : EndAt(a, i, x) <=> EndAt(q, i, x)
  BY AppendAt
<1> HIDE DEF a
<1>2. QED
  BY <1>1, DeactivationIds DEF DeactivationKnown, a

\* Its report joins the queue and it closes.
LEMMA DeactivationReports ==
  ASSUME NEW q \in Seq(Envelope), NEW m \in Envelope,
         NEW ph, ph # "none", NEW g \in Nat, NEW id, DeactivationKnown(q, ph, g, id),
         m.operation = DeactivationId(g), NEW g2
  PROVE  DeactivationKnown(Append(q, m), "none", g2, id)
<1> DEFINE a == Append(q, m)
<1>1. \A x \in Deactivating : \A i \in Nat :
        EndAt(a, i, x) => EndAt(q, i, x) \/ x = DeactivationId(g)
  BY AppendAt
<1> HIDE DEF a
<1>2. id = g /\ g # None
  BY ControllerAssumption DEF DeactivationKnown, ControllerAssumption
<1>3. QED
  BY <1>1, <1>2 DEF DeactivationKnown, a

\* The head is taken; when it is the report, the deactivation is forgotten.
LEMMA DeactivationTake ==
  ASSUME NEW q \in Seq(Envelope), q # <<>>, EndsOnce(q),
         NEW ph, NEW g \in Nat, NEW id \in Nat \cup {None}, DeactivationKnown(q, ph, g, id),
         NEW id2, \/ id2 = id
                  \/ id2 = None /\ id # None /\ EndAt(q, 1, DeactivationId(id))
  PROVE  DeactivationKnown(Tail(q), ph, g, id2)
<1> DEFINE t == Tail(q)
<1>1. \A x : \A i \in Nat : EndAt(t, i, x) => i + 1 \in Nat /\ i + 1 # 1 /\ EndAt(q, i + 1, x)
  BY TailAt
<1> HIDE DEF t
<1>2. CASE id2 = id
  BY <1>1, <1>2 DEF DeactivationKnown, t
<1>3. CASE id2 = None /\ id # None /\ EndAt(q, 1, DeactivationId(id))
  <2>1. id \in Nat /\ DeactivationId(id) \in Reporting
    BY <1>3, DeactivationIds
  <2>2. ph = "none"
    BY <1>3 DEF DeactivationKnown
  <2>3. \A i \in Nat : ~EndAt(t, i, DeactivationId(id))
    BY <1>1, <1>3, <2>1 DEF EndsOnce
  <2>4. \A x \in Deactivating : \A i \in Nat : ~EndAt(t, i, x)
    BY <1>1, <2>3 DEF DeactivationKnown
  <2>5. QED
    BY <2>2, <2>4 DEF DeactivationKnown, t
<1>4. QED
  BY <1>2, <1>3

\* With none registered, none is open and no report of one is on its way.
LEMMA NoDeactivation ==
  ASSUME NEW q, NEW ph, NEW g \in Nat, DeactivationKnown(q, ph, g, None)
  PROVE  /\ ph = "none"
         /\ \A g2 \in Nat : \A ph2 : DeactivationKnown(q, ph2, g2, g2)
<1>1. g # None
  BY ControllerAssumption DEF ControllerAssumption
<1>2. ph = "none" /\ \A x \in Deactivating : \A i \in Nat : ~EndAt(q, i, x)
  BY <1>1 DEF DeactivationKnown
<1>3. QED
  BY <1>2, DeactivationIds DEF DeactivationKnown

-----------------------------------------------------------------------------
(* The inductive invariant *)

WorkAccounted ==
  Accounted(commands, working, active_syncs, active_remediations,
            registration.begun, registration.pending)

DeactivationAccounted ==
  DeactivationKnown(commands, phase, task.generation, active_deactivation_id)

\* No operation outlives the controller, nothing waits for one that is down.
DownOK == controller = "down" => working = {} /\ commands = <<>>

\* The coordinator of every operation at work is known, and was known to the
\* deactivation when it began.
ScopesOK ==
  /\ \A op \in working : ScopeOf[op[3]] \in quota_workflow_ids \cup {None}
  /\ phase # "none" => \A op \in working : ScopeOf[op[3]] \in task.scopes \cup {None}

QuotaInv == WorkAccounted /\ DeactivationAccounted /\ DownOK /\ ScopesOK

accountVars == <<controller, commands, active_syncs, active_remediations,
                 active_deactivation_id, quota_workflow_ids, working, registration, task>>

\* The steps that touch none of this; a deactivation that is open may move on.
LEMMA FrameKeeps ==
  ASSUME QuotaInv, UNCHANGED accountVars,
         phase' # "none" => phase # "none"
  PROVE  QuotaInv'
BY DEF QuotaInv, WorkAccounted, DeactivationAccounted, DownOK, ScopesOK, accountVars,
       DeactivationKnown

\* The run's own steps.
LEMMA RunKeeps ==
  ASSUME TypeOK, QuotaInv, ~AuthorityMayFail,
         ReadAuthority \/ AssignAuthority \/ AuthorityLost \/ ControllerContinueAsNew
  PROVE  QuotaInv'
BY DEF ReadAuthority, AssignAuthority, AuthorityLost, ControllerContinueAsNew,
       QuotaInv, WorkAccounted, DeactivationAccounted, DownOK, ScopesOK,
       stateVars, operationVars, deactivationVars

\* The controller is up while anything is at work.
LEMMA SignalArrives ==
  ASSUME QuotaInv, working # {}, NEW m, Signal(m)
  PROVE  controller # "down" /\ commands' = Append(commands, m)
BY DEF QuotaInv, DownOK, Signal

\* A command of a client joins the queue.
LEMMA SendKeeps ==
  ASSUME TypeOK, QuotaInv, NEW c \in ClientCommand, SendCommand(c)
  PROVE  QuotaInv'
<1>1. c \in Envelope /\ Neutral(c)
  BY ControllerAssumption DEF ControllerAssumption, Envelope, Neutral, Ends
<1>2. commands \in Seq(Envelope) /\ task.generation \in Nat /\ commands' = Append(commands, c)
  BY DEF TypeOK, ControllerTypeOK, DeactivationTypeOK, SendCommand
<1>3. UNCHANGED <<working, active_syncs, active_remediations, registration, phase, task,
                  active_deactivation_id, quota_workflow_ids>> /\ controller' # "down"
  BY DEF SendCommand, operationVars, deactivationVars
<1>4. WorkAccounted'
  BY <1>1, <1>2, <1>3, AppendNeutral DEF QuotaInv, WorkAccounted
<1>5. DeactivationAccounted'
  BY <1>1, <1>2, <1>3, DeactivationAppend DEF QuotaInv, DeactivationAccounted, Neutral
<1>6. QED
  BY <1>3, <1>4, <1>5 DEF QuotaInv, DownOK, ScopesOK

\* The operation steps: begin a remediation, register it, end.
LEMMA BeginKeeps ==
  ASSUME TypeOK, QuotaInv, NEW op \in working, NEW r \in RemediationsOf(op),
         StartRemediation(op, r)
  PROVE  QuotaInv'
<1>1. /\ op \in Sync /\ r \in Remediation /\ RootOf(r) = op /\ r[3] = op[3]
      /\ r \notin registration.begun
  <2>1. op \in Sync /\ r \notin registration.begun
    BY DEF StartRemediation
  <2>2. r[3] = op[3]
    BY DEF RemediationsOf, RemediationId
  <2>3. QED
    BY <2>1, <2>2, RootsAndRemediations
<1>2. /\ registration'.begun = registration.begun \cup {r}
      /\ registration'.pending = registration.pending \cup {r}
  BY DEF StartRemediation, TypeOK, OperationTypeOK
<1>3. working' = working \cup {r} /\ UNCHANGED <<recordVars, controllerVars, stateVars, deactivationVars>>
  BY DEF StartRemediation
<1>4. WorkAccounted'
  BY <1>1, <1>2, <1>3, RemediationStart DEF QuotaInv, WorkAccounted, controllerVars, stateVars
<1>5. QED
  BY <1>1, <1>3, <1>4
  DEF QuotaInv, DeactivationAccounted, DownOK, ScopesOK, controllerVars, stateVars, deactivationVars

\* A root registers a remediation it has begun: it is still at work, so that its
\* own report comes later.
LEMMA RegisterKeeps ==
  ASSUME TypeOK, QuotaInv, NEW r \in registration.pending, RegisterRemediation(r)
  PROVE  QuotaInv'
<1> DEFINE m == [kind |-> "remediation_started", operation |-> r]
<1>1. r \in Remediation /\ commands \in Seq(Envelope) /\ task.generation \in Nat
  BY DEF TypeOK, OperationTypeOK, ControllerTypeOK, DeactivationTypeOK
<1>2. /\ m \in Envelope /\ m.kind = "remediation_started" /\ m.operation = r /\ ~Ends(m)
  BY <1>1 DEF Envelope, Ends
<1>3. Signal(m)
  BY DEF RegisterRemediation
<1> HIDE DEF m
<1>4. RootOf(r) \in working
  BY <1>1 DEF QuotaInv, WorkAccounted, Accounted, WorkKnown, RemediationKnown
<1>5. controller # "down" /\ commands' = Append(commands, m)
  BY <1>3, <1>4, SignalArrives
<1>6. /\ registration'.begun = registration.begun
      /\ registration'.pending = registration.pending \ {r}
  BY <1>5 DEF RegisterRemediation, TypeOK, OperationTypeOK
<1>7. UNCHANGED <<controller, stateVars, working, deactivationVars>>
  BY DEF RegisterRemediation
<1>8. WorkAccounted'
  BY <1>1, <1>2, <1>5, <1>6, <1>7, AppendStart DEF QuotaInv, WorkAccounted, stateVars
<1>9. DeactivationAccounted'
  BY <1>1, <1>2, <1>5, <1>7, DeactivationAppend
  DEF QuotaInv, DeactivationAccounted, stateVars, deactivationVars
<1>10. QED
  BY <1>5, <1>7, <1>8, <1>9 DEF QuotaInv, DownOK, ScopesOK, stateVars, deactivationVars

\* A root sync ends and reports: it was registered and had not reported before.
LEMMA SyncEndKeeps ==
  ASSUME TypeOK, QuotaInv, NEW op \in working, SyncEnds(op)
  PROVE  QuotaInv'
<1> DEFINE m == [kind |-> "operation_status", operation |-> op,
                 generation |-> GenerationOf(op), result |-> "ended"]
<1>1. op \in Sync /\ commands \in Seq(Envelope) /\ task.generation \in Nat
  BY DEF TypeOK, SyncEnds, ControllerTypeOK, DeactivationTypeOK
<1>2. GenerationOf(op) \in Nat /\ op \notin Deactivating
  BY <1>1, KindsDiffer DEF Sync, GenerationOf
<1>3. m \in Envelope /\ Ends(m) /\ m.operation = op
  BY <1>1, <1>2 DEF Envelope, Ends, Operation
<1>4. Signal(m)
  BY DEF SyncEnds
<1> HIDE DEF m
<1>5. controller # "down" /\ commands' = Append(commands, m)
  BY <1>4, SignalArrives
<1>6. /\ registration'.begun = registration.begun \ RemediationsOf(op)
      /\ registration'.pending = registration.pending
      /\ RemediationsOf(op) \cap registration.pending = {}
  BY DEF SyncEnds, TypeOK, OperationTypeOK
<1>7. working' = working \ {op} /\ UNCHANGED <<controller, stateVars, deactivationVars>>
  BY DEF SyncEnds
<1>8. WorkAccounted'
  BY <1>1, <1>3, <1>5, <1>6, <1>7, AppendSyncEnd DEF QuotaInv, WorkAccounted, stateVars
<1>9. DeactivationAccounted'
  BY <1>1, <1>2, <1>3, <1>5, <1>7, DeactivationAppend
  DEF QuotaInv, DeactivationAccounted, stateVars, deactivationVars
<1>10. QED
  BY <1>5, <1>7, <1>8, <1>9 DEF QuotaInv, DownOK, ScopesOK, stateVars, deactivationVars

\* A remediation ends and reports: it was registered, or its root reports later.
LEMMA RemediationEndKeeps ==
  ASSUME TypeOK, QuotaInv, NEW r \in working, RemediationEnds(r)
  PROVE  QuotaInv'
<1> DEFINE m == [kind |-> "remediation_finished", operation |-> r,
                 generation |-> GenerationOf(r), result |-> "ended"]
<1>1. r \in Remediation /\ commands \in Seq(Envelope) /\ task.generation \in Nat
  BY DEF TypeOK, RemediationEnds, ControllerTypeOK, DeactivationTypeOK
<1>2. GenerationOf(r) \in Nat /\ r \notin Deactivating
  BY <1>1, KindsDiffer DEF Remediation, GenerationOf
<1>3. m \in Envelope /\ Ends(m) /\ m.operation = r
  BY <1>1, <1>2 DEF Envelope, Ends, Operation
<1>4. Signal(m)
  BY DEF RemediationEnds
<1> HIDE DEF m
<1>5. controller # "down" /\ commands' = Append(commands, m)
  BY <1>4, SignalArrives
<1>6. working' = working \ {r} /\ UNCHANGED <<controller, stateVars, registration, deactivationVars>>
  BY DEF RemediationEnds
<1>7. WorkAccounted'
  BY <1>1, <1>3, <1>5, <1>6, AppendRemediationEnd DEF QuotaInv, WorkAccounted, stateVars
<1>8. DeactivationAccounted'
  BY <1>1, <1>2, <1>3, <1>5, <1>6, DeactivationAppend
  DEF QuotaInv, DeactivationAccounted, stateVars, deactivationVars
<1>9. QED
  BY <1>5, <1>6, <1>7, <1>8 DEF QuotaInv, DownOK, ScopesOK, stateVars, deactivationVars

\* The Signals of the deactivation.
LEMMA FenceKeeps ==
  ASSUME TypeOK, QuotaInv, SignalFence
  PROVE  QuotaInv'
<1> DEFINE m == [kind |-> "deactivation_fenced", operation |-> DeactivationId(task.generation),
                 generation |-> task.generation]
<1>1. commands \in Seq(Envelope) /\ task.generation \in Nat
  BY DEF TypeOK, ControllerTypeOK, DeactivationTypeOK
<1>2. m \in Envelope /\ Neutral(m)
  BY <1>1, DeactivationIds DEF Envelope, Ends, Neutral
<1>3. Signal(m) /\ phase # "none" /\ phase' # "none"
  BY DEF SignalFence
<1> HIDE DEF m
<1>4. UNCHANGED <<controller, stateVars, operationVars, task>>
  BY DEF SignalFence, othersUnchanged
<1>5. CASE controller = "down"
  BY <1>3, <1>4, <1>5, FrameKeeps DEF Signal, accountVars, stateVars, operationVars
<1>6. CASE controller # "down"
  <2>1. commands' = Append(commands, m)
    BY <1>3, <1>6 DEF Signal
  <2>2. WorkAccounted'
    BY <1>1, <1>2, <1>4, <2>1, AppendNeutral DEF QuotaInv, WorkAccounted, stateVars, operationVars
  <2>3. DeactivationKnown(commands', phase, task.generation, active_deactivation_id)
    BY <1>1, <1>2, <2>1, DeactivationAppend DEF QuotaInv, DeactivationAccounted, Neutral
  <2>4. DeactivationAccounted'
    BY <1>3, <1>4, <2>3 DEF DeactivationAccounted, DeactivationKnown, stateVars
  <2>5. QED
    BY <1>3, <1>4, <1>6, <2>2, <2>4 DEF QuotaInv, DownOK, ScopesOK, stateVars, operationVars
<1>7. QED
  BY <1>5, <1>6

\* The deactivation reports its outcome, once.
LEMMA ReportKeeps ==
  ASSUME TypeOK, QuotaInv, ReportTerminal
  PROVE  QuotaInv'
<1> DEFINE m == [kind |-> "operation_status", operation |-> DeactivationId(task.generation),
                 generation |-> outcome.generation, result |-> outcome.result]
<1>1. commands \in Seq(Envelope) /\ task.generation \in Nat
  BY DEF TypeOK, ControllerTypeOK, DeactivationTypeOK
<1>2. outcome.generation \in Nat /\ outcome.result \in {"succeeded", "partial", "failed"}
  BY DEF TypeOK, DeactivationTypeOK, ReportTerminal
<1>3. m \in Envelope /\ Ends(m) /\ m.operation = DeactivationId(task.generation)
  BY <1>1, <1>2, DeactivationIds DEF Envelope, Ends
<1>4. Signal(m) /\ phase # "none" /\ phase' = "none"
  BY DEF ReportTerminal
<1> HIDE DEF m
<1>5. UNCHANGED <<controller, stateVars, operationVars>>
  BY DEF ReportTerminal
<1>6. CASE controller = "down"
  BY <1>4, <1>5, <1>6 DEF Signal, QuotaInv, WorkAccounted, DeactivationAccounted, DownOK,
     ScopesOK, DeactivationKnown, stateVars, operationVars
<1>7. CASE controller # "down"
  <2>1. commands' = Append(commands, m)
    BY <1>4, <1>7 DEF Signal
  <2>2. \A i \in Nat : ~EndAt(commands, i, m.operation)
    BY <1>3, <1>4 DEF QuotaInv, DeactivationAccounted, DeactivationKnown
  <2>3. WorkAccounted'
    BY <1>1, <1>3, <1>5, <2>1, <2>2, AppendDeactivationEnd, DeactivationIds
    DEF QuotaInv, WorkAccounted, stateVars, operationVars
  <2>4. DeactivationAccounted'
    BY <1>1, <1>3, <1>4, <1>5, <2>1, DeactivationReports
    DEF QuotaInv, DeactivationAccounted, stateVars
  <2>5. QED
    BY <1>4, <1>5, <1>7, <2>3, <2>4 DEF QuotaInv, DownOK, ScopesOK, stateVars, operationVars
<1>8. QED
  BY <1>6, <1>7

\* The loop takes a command that neither registers nor reports.
LEMMA TakeNeutral ==
  ASSUME TypeOK, QuotaInv, NEW kind, Take(kind),
         kind \in {"request_sync", "cancel_sync", "start_deactivation", "deactivation_fenced"}
  PROVE  /\ Accounted(commands', working, active_syncs, active_remediations,
                      registration.begun, registration.pending)
         /\ DeactivationKnown(commands', phase, task.generation, active_deactivation_id)
         /\ controller' # "down"
<1>1. /\ commands \in Seq(Envelope) /\ commands # <<>> /\ commands' = Tail(commands)
      /\ controller' # "down" /\ Neutral(Head(commands))
      /\ task.generation \in Nat /\ active_deactivation_id \in Nat \cup {None}
  BY DEF TypeOK, ControllerTypeOK, DeactivationTypeOK, StateTypeOK, Take, Neutral, Ends
<1>2. \A x : ~EndAt(commands, 1, x) /\ ~StartAt(commands, 1, x)
  BY <1>1, TailAt DEF Neutral
<1>3. WorkAccounted /\ DeactivationAccounted /\ EndsOnce(commands)
  BY DEF QuotaInv, WorkAccounted, Accounted
<1>4. Accounted(Tail(commands), working, active_syncs, active_remediations,
                registration.begun, registration.pending)
  BY <1>1, <1>2, <1>3, TakeHead DEF WorkAccounted
<1>5. DeactivationKnown(Tail(commands), phase, task.generation, active_deactivation_id)
  BY <1>1, <1>3, DeactivationTake DEF DeactivationAccounted
<1>6. QED
  BY <1>1, <1>4, <1>5

\* A sync is requested: it starts only when no other is at work.
LEMMA RequestSyncKeeps ==
  ASSUME TypeOK, QuotaInv, RequestSync
  PROVE  QuotaInv' /\ \A op \in working' \ working : working = {}
<1> DEFINE c == Head(commands)
           op == SyncId(c.generation, c.sequence)
<1>1. Take("request_sync")
  BY DEF RequestSync
<1>2. c.generation \in Nat /\ c.sequence \in Sequence
  BY <1>1, TakenMessage
<1>3. op \in Sync /\ op[3] = c.sequence
  BY <1>2 DEF SyncId, Sync
<1>4. /\ Accounted(commands', working, active_syncs, active_remediations,
                   registration.begun, registration.pending)
      /\ DeactivationKnown(commands', phase, task.generation, active_deactivation_id)
      /\ controller' # "down"
  BY <1>1, TakeNeutral
<1>5. UNCHANGED <<registration, active_remediations, active_deactivation_id, phase, task>>
  BY DEF RequestSync, deactivationVars
<1>6. working \in SUBSET Operation /\ task.generation \in Nat
  BY DEF TypeOK, OperationTypeOK, DeactivationTypeOK
<1>7. CASE SyncAdmitted(c) /\ op \notin working
  <2>1. /\ working' = working \cup {op} /\ active_syncs' = active_syncs \cup {op}
        /\ quota_workflow_ids' = quota_workflow_ids \cup ({ScopeOf[c.sequence]} \ {None})
    BY <1>7 DEF RequestSync
  <2>2. active_syncs = {} /\ active_remediations = {} /\ active_deactivation_id = None
    BY <1>7 DEF SyncAdmitted
  <2> HIDE DEF c, op
  <2>3. Accounted(commands', working \cup {op}, {op}, {}, registration.begun, registration.pending)
    BY <1>3, <1>4, <1>6, <2>2, SyncStart
  <2>4. WorkAccounted'
    BY <1>5, <2>1, <2>2, <2>3 DEF WorkAccounted
  <2>5. working = {}
    BY <1>4, <1>6, <2>2, Quiet
  <2>6. phase = "none"
    BY <1>4, <1>6, <2>2, NoDeactivation
  <2>7. ScopesOK'
    BY <1>3, <1>5, <2>1, <2>5, <2>6 DEF ScopesOK
  <2>8. DeactivationAccounted' /\ DownOK'
    BY <1>4, <1>5 DEF DeactivationAccounted, DownOK
  <2>9. QED
    BY <2>4, <2>5, <2>7, <2>8 DEF QuotaInv
<1>8. CASE ~(SyncAdmitted(c) /\ op \notin working)
  <2>1. UNCHANGED <<working, active_syncs, quota_workflow_ids>>
    BY <1>8 DEF RequestSync
  <2>2. QED
    BY <1>4, <1>5, <2>1 DEF QuotaInv, WorkAccounted, DeactivationAccounted, DownOK, ScopesOK
<1>9. QED
  BY <1>7, <1>8

\* Cancelling the sync and the notice that the store is fenced register nothing.
LEMMA CancelOrFencedKeeps ==
  ASSUME TypeOK, QuotaInv, CancelSync \/ DeactivationFenced
  PROVE  QuotaInv'
<1>1. Take("cancel_sync") \/ Take("deactivation_fenced")
  BY DEF CancelSync, DeactivationFenced
<1>2. /\ Accounted(commands', working, active_syncs, active_remediations,
                   registration.begun, registration.pending)
      /\ DeactivationKnown(commands', phase, task.generation, active_deactivation_id)
      /\ controller' # "down"
  BY <1>1, TakeNeutral
<1>3. UNCHANGED <<working, registration, active_syncs, active_remediations,
                  active_deactivation_id, quota_workflow_ids, task, phase>>
  BY DEF CancelSync, DeactivationFenced, operationVars, deactivationVars
<1>4. QED
  BY <1>2, <1>3 DEF QuotaInv, WorkAccounted, DeactivationAccounted, DownOK, ScopesOK

\* A deactivation starts: its id is registered as the one that is open.
LEMMA StartDeactivationKeeps ==
  ASSUME TypeOK, TypeOK', QuotaInv, StartDeactivation
  PROVE  QuotaInv'
<1>1. Take("start_deactivation")
  BY DEF StartDeactivation
<1>2. /\ Accounted(commands', working, active_syncs, active_remediations,
                   registration.begun, registration.pending)
      /\ DeactivationKnown(commands', phase, task.generation, active_deactivation_id)
      /\ controller' # "down"
  BY <1>1, TakeNeutral
<1>3. UNCHANGED <<working, registration, active_syncs, active_remediations, quota_workflow_ids>>
  BY DEF StartDeactivation, operationVars
<1>4. task.generation \in Nat /\ task'.generation \in Nat
  BY DEF TypeOK, DeactivationTypeOK
<1>5. WorkAccounted' /\ DownOK'
  BY <1>2, <1>3 DEF WorkAccounted, DownOK
<1>6. CASE UNCHANGED <<task, phase, active_deactivation_id>>
  BY <1>2, <1>3, <1>5, <1>6 DEF QuotaInv, DeactivationAccounted, ScopesOK
<1>7. CASE /\ active_deactivation_id = None /\ active_deactivation_id' = task'.generation
           /\ task'.scopes = quota_workflow_ids
  <2>1. DeactivationAccounted'
    BY <1>2, <1>4, <1>7, NoDeactivation DEF DeactivationAccounted
  <2>2. ScopesOK'
    BY <1>3, <1>7 DEF QuotaInv, ScopesOK
  <2>3. QED
    BY <1>5, <2>1, <2>2 DEF QuotaInv
<1>8. QED
  <2>1. \/ UNCHANGED <<task, phase, active_deactivation_id>>
        \/ /\ ~AlreadyDecided(Head(commands)) /\ active_deactivation_id' = task'.generation
           /\ task'.scopes = quota_workflow_ids
    BY DEF StartDeactivation
  <2>2. QED
    BY <1>6, <1>7, <2>1 DEF AlreadyDecided

\* An operation that reports its end is no longer registered; the scopes are
\* forgotten only when nothing is at work.
LEMMA StatusKeeps ==
  ASSUME TypeOK, QuotaInv, OperationStatus
  PROVE  QuotaInv'
<1> DEFINE e == Head(commands)
           syncs == active_syncs \ {e.operation}
           rems == active_remediations \ {e.operation}
<1>1. /\ commands \in Seq(Envelope) /\ commands # <<>> /\ commands' = Tail(commands)
      /\ controller' # "down" /\ Ends(e) /\ e.kind # "remediation_started"
      /\ task.generation \in Nat /\ active_deactivation_id \in Nat \cup {None}
      /\ working \in SUBSET Operation
  BY DEF TypeOK, ControllerTypeOK, DeactivationTypeOK, StateTypeOK, OperationTypeOK,
     OperationStatus, Take, Ends
<1>2. /\ active_syncs' = syncs /\ active_remediations' = rems
      /\ \/ active_deactivation_id' = active_deactivation_id
         \/ /\ active_deactivation_id # None /\ active_deactivation_id' = None
            /\ e.operation = DeactivationId(active_deactivation_id)
      /\ quota_workflow_ids' = IF QuotaForgotten(syncs, rems, active_deactivation_id')
                               THEN {} ELSE quota_workflow_ids
      /\ UNCHANGED <<working, registration, task, phase>>
  BY DEF OperationStatus, operationVars
<1>3. \A x : (EndAt(commands, 1, x) <=> e.operation = x) /\ ~StartAt(commands, 1, x)
  BY <1>1, TailAt
<1> HIDE DEF e
<1>4. WorkAccounted /\ DeactivationAccounted /\ EndsOnce(commands)
  BY DEF QuotaInv, WorkAccounted, Accounted
<1>5. WorkAccounted'
  <2>1. Accounted(Tail(commands), working, syncs, rems, registration.begun, registration.pending)
    BY <1>1, <1>3, <1>4, TakeHead DEF WorkAccounted
  <2>2. QED
    BY <1>1, <1>2, <2>1 DEF WorkAccounted
<1>6. DeactivationAccounted'
  <2>1. DeactivationKnown(Tail(commands), phase, task.generation, active_deactivation_id')
    BY <1>1, <1>2, <1>3, <1>4, DeactivationTake DEF DeactivationAccounted
  <2>2. QED
    BY <1>1, <1>2, <2>1 DEF DeactivationAccounted
<1>7. ScopesOK'
  <2>1. CASE QuotaForgotten(syncs, rems, active_deactivation_id')
    <3>1. active_syncs' = {} /\ active_remediations' = {}
      BY <1>2, <2>1 DEF QuotaForgotten
    <3>2. /\ Accounted(commands', working', {}, {}, registration'.begun, registration'.pending)
          /\ working' \in SUBSET Operation
      BY <1>1, <1>2, <1>5, <3>1 DEF WorkAccounted
    <3>3. working' = {}
      BY <3>2, Quiet
    <3>4. QED
      BY <3>3 DEF ScopesOK
  <2>2. CASE ~QuotaForgotten(syncs, rems, active_deactivation_id')
    BY <1>2, <2>2 DEF QuotaInv, ScopesOK
  <2>3. QED
    BY <2>1, <2>2
<1>8. QED
  BY <1>1, <1>5, <1>6, <1>7 DEF QuotaInv, DownOK

\* The registration of a remediation is taken, before any report of it.
LEMMA RemediationStartedKeeps ==
  ASSUME TypeOK, QuotaInv, RemediationStarted
  PROVE  QuotaInv'
<1> DEFINE e == Head(commands)
<1>1. /\ commands \in Seq(Envelope) /\ commands # <<>> /\ commands' = Tail(commands)
      /\ controller' # "down" /\ ~Ends(e) /\ e.kind = "remediation_started"
      /\ task.generation \in Nat /\ active_deactivation_id \in Nat \cup {None}
  BY DEF TypeOK, ControllerTypeOK, DeactivationTypeOK, StateTypeOK, RemediationStarted,
     Take, Ends
<1>2. /\ active_remediations' = active_remediations \cup {e.operation}
      /\ UNCHANGED <<working, registration, active_syncs, active_deactivation_id,
                     quota_workflow_ids, task, phase>>
  BY DEF RemediationStarted, deactivationVars
<1>3. \A x : ~EndAt(commands, 1, x) /\ (StartAt(commands, 1, x) <=> e.operation = x)
  BY <1>1, TailAt
<1> HIDE DEF e
<1>4. WorkAccounted /\ DeactivationAccounted /\ EndsOnce(commands)
  BY DEF QuotaInv, WorkAccounted, Accounted
<1>5. Accounted(Tail(commands), working, active_syncs, active_remediations \cup {e.operation},
                registration.begun, registration.pending)
  BY <1>1, <1>3, <1>4, TakeHead DEF WorkAccounted
<1>6. DeactivationKnown(Tail(commands), phase, task.generation, active_deactivation_id)
  BY <1>1, <1>4, DeactivationTake DEF DeactivationAccounted
<1>7. QED
  BY <1>1, <1>2, <1>5, <1>6 DEF QuotaInv, WorkAccounted, DeactivationAccounted, DownOK, ScopesOK

-----------------------------------------------------------------------------
(* The theorems *)

\* A store begins with nothing at work and nothing registered.
LEMMA QuotaInit == Init => QuotaInv
<1> SUFFICES ASSUME Init PROVE QuotaInv
  OBVIOUS
<1>1. commands = <<>> /\ active_syncs = {} /\ active_remediations = {} /\ working = {}
      /\ active_deactivation_id = None /\ phase = "none" /\ registration.pending = {}
  BY DEF Init, ControllerInit, DeactivationInit
<1>2. Len(commands) = 0
  BY <1>1
<1>3. \A x : \A i \in Nat : ~EndAt(commands, i, x) /\ ~StartAt(commands, i, x)
  BY <1>2 DEF EndAt, StartAt
<1>4. WorkAccounted
  BY <1>1, <1>3 DEF WorkAccounted, Accounted, EndsOnce, RootsKnown, StartsInTime, EndsInTime,
     WorkKnown, RemediationKnown
<1>5. DeactivationAccounted
  BY <1>1, <1>3 DEF DeactivationAccounted, DeactivationKnown
<1>6. QED
  BY <1>1, <1>4, <1>5 DEF QuotaInv, DownOK, ScopesOK

\* Every step keeps the books, and a sync starts only when nothing is at work.
LEMMA QuotaStep ==
  ASSUME TypeOK, TypeOK', QuotaInv, ~AuthorityMayFail, [Next]_vars
  PROVE  QuotaInv' /\ \A op \in (working' \ working) \cap Sync : working = {}
<1>1. ASSUME NEW op \in working, NEW r \in RemediationsOf(op), StartRemediation(op, r)
      PROVE  QuotaInv' /\ \A x \in working' \ working : x \notin Sync
  <2>1. r \in Remediation
    BY <1>1, RootsAndRemediations DEF StartRemediation
  <2>2. QED
    BY <1>1, <2>1, BeginKeeps, KindsDiffer DEF StartRemediation
<1>2. CASE RequestSync
  BY <1>2, RequestSyncKeeps
<1>3. CASE \/ \E op \in working : SyncEnds(op) \/ RemediationEnds(op)
           \/ \E r \in registration.pending : RegisterRemediation(r)
  BY <1>3, SyncEndKeeps, RemediationEndKeeps, RegisterKeeps
  DEF SyncEnds, RemediationEnds, RegisterRemediation
<1>4. CASE ReadAuthority \/ AssignAuthority \/ AuthorityLost \/ ControllerContinueAsNew
  BY <1>4, RunKeeps
  DEF ReadAuthority, AssignAuthority, AuthorityLost, ControllerContinueAsNew, operationVars
<1>5. CASE \E c \in ClientCommand : SendCommand(c)
  BY <1>5, SendKeeps DEF SendCommand, operationVars
<1>6. CASE CancelSync \/ DeactivationFenced \/ StartDeactivation \/ OperationStatus
           \/ RemediationStarted
  BY <1>6, CancelOrFencedKeeps, StartDeactivationKeeps, StatusKeeps, RemediationStartedKeeps
  DEF CancelSync, DeactivationFenced, StartDeactivation, OperationStatus, RemediationStarted,
      operationVars
<1>7. CASE SignalFence \/ ReportTerminal
  BY <1>7, FenceKeeps, ReportKeeps DEF SignalFence, ReportTerminal, othersUnchanged, operationVars
<1>8. CASE \/ OperationWrites \/ LateAttempt \/ CallSucceeds \/ CallFails \/ MarkFailed
           \/ CancelOwnedWork \/ InvalidateQuota \/ Drain \/ UNCHANGED vars
  <2>1. UNCHANGED <<accountVars, working>> /\ (phase' # "none" => phase # "none")
    BY <1>8 DEF OperationWrites, LateAttempt, CallSucceeds, CallFails, MarkFailed,
       CancelOwnedWork, InvalidateQuota, Drain, vars, accountVars, othersUnchanged,
       controllerVars, stateVars, operationVars, deactivationVars, Calling
  <2>2. QED
    BY <2>1, FrameKeeps
<1>9. QED
  BY <1>1, <1>2, <1>3, <1>4, <1>5, <1>6, <1>7, <1>8
  DEF Next, Operations, Clients, Controller, Deactivation

\* While the authority can be read, the controller accounts for every operation.
THEOREM OperationsAccounted == ~AuthorityMayFail => (Spec => []QuotaInv)
<1> SUFFICES ASSUME ~AuthorityMayFail PROVE Spec => []QuotaInv
  OBVIOUS
<1>1. TypeOK /\ TypeOK' /\ QuotaInv /\ [Next]_vars => QuotaInv'
  BY QuotaStep
<1>2. QED
  BY <1>1, QuotaInit, StoreTypeCorrect, PTL DEF Spec

\* A deactivation that has Signalled the coordinators has named every scope in
\* which an operation still at work may hold or wait for a permit.
THEOREM QuotaInvalidated == ~AuthorityMayFail => (Spec => []QuotaIsInvalidated)
<1> SUFFICES ASSUME ~AuthorityMayFail PROVE Spec => []QuotaIsInvalidated
  OBVIOUS
<1>1. QuotaInv => QuotaIsInvalidated
  BY DEF QuotaInv, ScopesOK, QuotaIsInvalidated
<1>2. QED
  BY <1>1, OperationsAccounted, PTL

\* A sync starts only when no other operation of the store is at work.
THEOREM SyncsStartAlone == ~AuthorityMayFail => (Spec => SyncStartsAlone)
<1> SUFFICES ASSUME ~AuthorityMayFail PROVE Spec => SyncStartsAlone
  OBVIOUS
<1>1. TypeOK /\ TypeOK' /\ QuotaInv /\ [Next]_vars
        => [\A op \in (working' \ working) \cap Sync : working = {}]_vars
  BY QuotaStep
<1>2. QED
  BY <1>1, OperationsAccounted, StoreTypeCorrect, PTL DEF Spec, SyncStartsAlone
=============================================================================
