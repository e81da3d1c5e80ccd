---------------------------- MODULE ListsProofs ----------------------------
(***************************************************************************)
(* What the list operators of module Lists return, for every argument.      *)
(***************************************************************************)
EXTENDS Lists, FiniteSetTheorems, SequenceTheorems, TLAPS

\* Ranks count from one, stay within the size of the set, and grow with the
\* element.
LEMMA RankProperties ==
  ASSUME NEW S \in SUBSET Int, IsFiniteSet(S)
  PROVE  /\ \A x \in S : Rank(S, x) \in 1..Cardinality(S)
         /\ \A x, y \in S : x < y => Rank(S, x) < Rank(S, y)
<1> DEFINE Low(x) == {y \in S : y <= x}
<1>1. \A x \in S : /\ IsFiniteSet(Low(x))
                   /\ Cardinality(Low(x)) \in Nat
                   /\ Cardinality(Low(x)) <= Cardinality(S)
  <2> TAKE x \in S
  <2>1. Low(x) \in SUBSET S
    OBVIOUS
  <2>2. IsFiniteSet(Low(x)) /\ Cardinality(Low(x)) <= Cardinality(S)
    BY <2>1, FS_Subset
  <2>3. QED
    BY <2>2, FS_CardinalityType
<1>2. ASSUME NEW x \in S
      PROVE  Rank(S, x) \in 1..Cardinality(S)
  <2>1. x \in Low(x)
    BY <1>2
  <2>2. Cardinality(Low(x)) # 0
    BY <2>1, <1>1, FS_EmptySet
  <2>3. Cardinality(S) \in Nat
    BY FS_CardinalityType
  <2>4. QED
    BY <2>2, <2>3, <1>1 DEF Rank
<1>3. ASSUME NEW x \in S, NEW y \in S, x < y
      PROVE  Rank(S, x) < Rank(S, y)
  <2>1. Low(x) \in SUBSET Low(y)
    <3> SUFFICES ASSUME NEW z \in S, z <= x
                 PROVE  z <= y
      OBVIOUS
    <3>1. x \in Int /\ y \in Int /\ z \in Int
      OBVIOUS
    <3>2. QED
      BY <3>1, <1>3
  <2>2. y \in Low(y) /\ y \notin Low(x)
    BY <1>3
  <2>3. Cardinality(Low(x)) <= Cardinality(Low(y))
    BY <2>1, <1>1, FS_Subset
  <2>4. Cardinality(Low(x)) # Cardinality(Low(y))
    BY <2>1, <2>2, <1>1, FS_Subset
  <2>5. QED
    BY <2>3, <2>4, <1>1 DEF Rank
<1>4. QED
  BY <1>2, <1>3

\* Every position up to the size of the set is some element's rank.
LEMMA RankOnto ==
  ASSUME NEW S \in SUBSET Int, IsFiniteSet(S), NEW k \in 1..Cardinality(S)
  PROVE  \E x \in S : Rank(S, x) = k
<1> DEFINE f == [x \in S |-> Rank(S, x)]
           T == 1..Cardinality(S)
<1>1. Cardinality(S) \in Nat
  BY FS_CardinalityType
<1>2. IsFiniteSet(T) /\ Cardinality(T) = Cardinality(S)
  BY <1>1, FS_Interval
<1>3. f \in [S -> T]
  BY RankProperties
<1>4. \A x, y \in S : f[x] = f[y] => x = y
  <2> SUFFICES ASSUME NEW x \in S, NEW y \in S, f[x] = f[y]
               PROVE  x = y
    OBVIOUS
  <2>1. Rank(S, x) = Rank(S, y)
    OBVIOUS
  <2>2. Rank(S, x) \in Int
    BY RankProperties, <1>1
  <2>3. ~(x < y) /\ ~(y < x)
    BY <2>1, <2>2, RankProperties
  <2>4. QED
    BY <2>3
<1>5. f \in Injection(S, T)
  BY <1>3, <1>4 DEF Injection, IsInjective
<1>6. f \in Surjection(S, T)
  BY <1>5, <1>2, FS_Injection
<1>7. QED
  BY <1>6 DEF Surjection

\* sorted() lists exactly the set, once each, in increasing order.
LEMMA SortedProperties ==
  ASSUME NEW S \in SUBSET Int, IsFiniteSet(S)
  PROVE  /\ Sorted(S) \in [1..Cardinality(S) -> S]
         /\ Sorted(S) \in Seq(S)
         /\ Len(Sorted(S)) = Cardinality(S)
         /\ Range(Sorted(S)) = S
         /\ NoRepeats(Sorted(S))
<1> DEFINE n == Cardinality(S)
           At(k) == CHOOSE x \in S : Rank(S, x) = k
<1>1. n \in Nat
  BY FS_CardinalityType
<1>2. \A k \in 1..n : At(k) \in S /\ Rank(S, At(k)) = k
  BY RankOnto
<1>3. Sorted(S) = [k \in 1..n |-> At(k)]
  BY DEF Sorted
<1> HIDE DEF At
<1>4. Sorted(S) \in [1..n -> S]
  BY <1>2, <1>3
<1>5. Sorted(S) \in Seq(S) /\ Len(Sorted(S)) = n
  BY <1>1, <1>4
<1>6. \A x \in S : Sorted(S)[Rank(S, x)] = x
  <2> SUFFICES ASSUME NEW x \in S
               PROVE  At(Rank(S, x)) = x
    BY <1>3, RankProperties
  <2>1. Rank(S, x) \in 1..n
    BY RankProperties
  <2>2. PICK y \in S : y = At(Rank(S, x)) /\ Rank(S, y) = Rank(S, x)
    BY <2>1, <1>2
  <2>3. x < y => Rank(S, x) < Rank(S, y)
    BY RankProperties
  <2>4. y < x => Rank(S, y) < Rank(S, x)
    BY RankProperties
  <2>5. x \in Int /\ y \in Int /\ Rank(S, x) \in Int
    BY <2>1, <1>1
  <2>6. x = y
    BY <2>2, <2>3, <2>4, <2>5
  <2>7. QED
    BY <2>2, <2>6
<1>7. Range(Sorted(S)) = S
  BY <1>4, <1>6, RankProperties DEF Range
<1>8. NoRepeats(Sorted(S))
  BY <1>2, <1>3 DEF NoRepeats
<1>9. QED
  BY <1>4, <1>5, <1>7, <1>8

\* sorted() is in increasing order.
LEMMA SortedInOrder ==
  ASSUME NEW S \in SUBSET Int, IsFiniteSet(S),
         NEW a \in 1..Cardinality(S), NEW b \in 1..Cardinality(S),
         Sorted(S)[a] < Sorted(S)[b]
  PROVE  a < b
<1> DEFINE At(k) == CHOOSE x \in S : Rank(S, x) = k
<1>1. \A k \in 1..Cardinality(S) : At(k) \in S /\ Rank(S, At(k)) = k
  BY RankOnto
<1>2. Sorted(S)[a] = At(a) /\ Sorted(S)[b] = At(b)
  BY DEF Sorted
<1> HIDE DEF At
<1>3. Rank(S, At(a)) < Rank(S, At(b))
  BY <1>1, <1>2, RankProperties
<1>4. QED
  BY <1>1, <1>3

\* The filtered list holds exactly what was not filtered out, is no longer
\* than the list, and repeats nothing the list did not repeat.
LEMMA WithoutProperties ==
  ASSUME NEW T, NEW s \in Seq(T), NEW R
  PROVE  /\ Without(s, R) \in Seq(T)
         /\ Len(Without(s, R)) <= Len(s)
         /\ Range(Without(s, R)) = Range(s) \ R
         /\ NoRepeats(s) => NoRepeats(Without(s, R))
         /\ (\A i, j \in DOMAIN s : s[i] = s[j] /\ s[i] \notin R => i = j)
              => NoRepeats(Without(s, R))
<1> DEFINE keep == {i \in DOMAIN s : s[i] \notin R}
           kept == Sorted(keep)
           n == Cardinality(keep)
           w == Without(s, R)
<1>1. DOMAIN s = 1..Len(s) /\ Len(s) \in Nat
  BY LenProperties
<1>2. IsFiniteSet(1..Len(s)) /\ Cardinality(1..Len(s)) = Len(s)
  BY <1>1, FS_Interval
<1>3. keep \in SUBSET (1..Len(s))
  BY <1>1
<1>4. IsFiniteSet(keep) /\ n <= Len(s)
  BY <1>2, <1>3, FS_Subset
<1>5. keep \in SUBSET Int
  BY <1>3, <1>1
<1>6. /\ kept \in [1..n -> keep]
      /\ Range(kept) = keep
      /\ NoRepeats(kept)
  BY <1>4, <1>5, SortedProperties
<1>7. n \in Nat
  BY <1>4, FS_CardinalityType
<1>8. w = [k \in 1..n |-> s[kept[k]]]
  BY <1>6 DEF Without
<1> HIDE DEF kept, w, n
<1>9. \A k \in 1..n : kept[k] \in keep
  BY <1>6
<1>10. \A k \in 1..n : s[kept[k]] \in T
  BY <1>9, <1>1, <1>3, ElementOfSeq
<1>11. w \in Seq(T) /\ Len(w) = n
  BY <1>7, <1>8, <1>10
<1>12. Range(w) = Range(s) \ R
  <2>1. ASSUME NEW x \in Range(w)
        PROVE  x \in Range(s) \ R
    BY <1>8, <1>9, <2>1 DEF Range
  <2>2. ASSUME NEW x \in Range(s) \ R
        PROVE  x \in Range(w)
    <3>1. PICK i \in DOMAIN s : s[i] = x
      BY DEF Range
    <3>2. i \in keep
      BY <3>1
    <3>3. PICK k \in 1..n : kept[k] = i
      BY <3>2, <1>6 DEF Range
    <3>4. QED
      BY <3>1, <3>3, <1>8 DEF Range
  <2>3. QED
    BY <2>1, <2>2
<1>13. (\A i, j \in DOMAIN s : s[i] = s[j] /\ s[i] \notin R => i = j) => NoRepeats(w)
  BY <1>6, <1>8, <1>9 DEF NoRepeats
<1>14. NoRepeats(s) => NoRepeats(w)
  BY <1>13 DEF NoRepeats
<1>15. QED
  BY <1>4, <1>11, <1>12, <1>13, <1>14 DEF w

\* The filtered list keeps the order: what stood before an element that was kept,
\* and was kept too, still does.
LEMMA WithoutKeepsOrder ==
  ASSUME NEW T, NEW s \in Seq(T), NEW R, NEW j \in DOMAIN Without(s, R)
  PROVE  \E i \in DOMAIN s :
           /\ Without(s, R)[j] = s[i] /\ s[i] \notin R
           /\ {s[k] : k \in 1..(i - 1)} \ R \subseteq {Without(s, R)[m] : m \in 1..(j - 1)}
<1> DEFINE keep == {i \in DOMAIN s : s[i] \notin R}
           kept == Sorted(keep)
           n == Cardinality(keep)
           w == Without(s, R)
<1>1. DOMAIN s = 1..Len(s) /\ Len(s) \in Nat
  BY LenProperties
<1>2. IsFiniteSet(1..Len(s))
  BY <1>1, FS_Interval
<1>3. keep \in SUBSET (1..Len(s)) /\ keep \in SUBSET Int
  BY <1>1
<1>4. IsFiniteSet(keep) /\ n \in Nat
  BY <1>2, <1>3, FS_Subset, FS_CardinalityType
<1>5. kept \in [1..n -> keep] /\ Range(kept) = keep
  BY <1>3, <1>4, SortedProperties
<1>6. w = [k \in 1..n |-> s[kept[k]]]
  BY <1>5 DEF Without
<1>7. \A a, b \in 1..n : kept[a] < kept[b] => a < b
  BY <1>3, <1>4, SortedInOrder
<1> HIDE DEF kept, w, n
<1>8. j \in 1..n /\ n \in Nat
  BY <1>4, <1>6 DEF w
<1>9. kept[j] \in keep /\ w[j] = s[kept[j]]
  BY <1>5, <1>6, <1>8
<1>10. ASSUME NEW k \in 1..(kept[j] - 1), s[k] \notin R
       PROVE  \E m \in 1..(j - 1) : w[m] = s[k]
  <2>1. kept[j] \in 1..Len(s) /\ kept[j] \in Int /\ k \in Int /\ k < kept[j] /\ 1 <= k
    BY <1>1, <1>3, <1>9
  <2>2. k \in keep
    BY <2>1, <1>1, <1>10
  <2>3. PICK m \in 1..n : kept[m] = k
    BY <2>2, <1>5 DEF Range
  <2>4. m < j
    BY <2>1, <2>3, <1>7, <1>8
  <2>5. QED
    BY <2>3, <2>4, <1>6, <1>8
<1>11. QED
  BY <1>9, <1>10 DEF w

\* The list of what was kept holds exactly that, and repeats nothing of it that
\* the list did not repeat.
LEMMA WithinProperties ==
  ASSUME NEW T, NEW s \in Seq(T), NEW R
  PROVE  /\ Within(s, R) \in Seq(T)
         /\ Range(Within(s, R)) = Range(s) \cap R
         /\ NoRepeats(s) => NoRepeats(Within(s, R))
         /\ (\A i, j \in DOMAIN s : s[i] = s[j] /\ s[i] \in R => i = j)
              => NoRepeats(Within(s, R))
<1> DEFINE D == Range(s) \ R
<1>1. \A i \in DOMAIN s : s[i] \notin D <=> s[i] \in R
  BY DEF Range
<1>2. Within(s, R) = Without(s, D)
  BY DEF Within
<1>3. Range(s) \ D = Range(s) \cap R
  OBVIOUS
<1> HIDE DEF D
<1>4. QED
  BY <1>1, <1>2, <1>3, WithoutProperties

\* A list cut in two: both parts together hold its elements, and share none if
\* it repeats none.
LEMMA SplitProperties ==
  ASSUME NEW T, NEW s \in Seq(T), NEW n \in Nat, n <= Len(s)
  PROVE  /\ SubSeq(s, 1, n) \in Seq(T) /\ Len(SubSeq(s, 1, n)) = n
         /\ SubSeq(s, n + 1, Len(s)) \in Seq(T) /\ Len(SubSeq(s, n + 1, Len(s))) = Len(s) - n
         /\ Range(s) = Range(SubSeq(s, 1, n)) \cup Range(SubSeq(s, n + 1, Len(s)))
         /\ NoRepeats(s) =>
              /\ NoRepeats(SubSeq(s, 1, n)) /\ NoRepeats(SubSeq(s, n + 1, Len(s)))
              /\ Range(SubSeq(s, 1, n)) \cap Range(SubSeq(s, n + 1, Len(s))) = {}
<1> PICK l : l = Len(s)
  OBVIOUS
<1>1. l \in Nat /\ n <= l /\ DOMAIN s = 1..l /\ \A i \in 1..l : s[i] \in T
  BY LenProperties, ElementOfSeq
<1>2. PICK a : a = SubSeq(s, 1, n)
  OBVIOUS
<1>3. PICK b : b = SubSeq(s, n + 1, l)
  OBVIOUS
<1>4. a \in Seq(T) /\ Len(a) = n /\ \A i \in 1..n : a[i] = s[i]
  <2>1. \A i \in 1..n : s[i] \in T
    BY <1>1
  <2>2. 1 \in Int /\ n \in Int
    OBVIOUS
  <2>3. /\ SubSeq(s, 1, n) \in Seq(T)
        /\ Len(SubSeq(s, 1, n)) = IF 1 <= n THEN n - 1 + 1 ELSE 0
        /\ \A i \in 1..(n - 1 + 1) : SubSeq(s, 1, n)[i] = s[1 + i - 1]
    BY <2>1, <2>2, SubSeqProperties
  <2>4. n - 1 + 1 = n /\ (1 <= n \/ n = 0) /\ \A i \in 1..n : 1 + i - 1 = i
    OBVIOUS
  <2>5. QED
    BY <1>2, <2>3, <2>4
<1>5. b \in Seq(T) /\ Len(b) = l - n /\ \A i \in 1..(l - n) : b[i] = s[n + i]
  <2>1. \A i \in (n + 1)..l : s[i] \in T
    BY <1>1
  <2>2. n + 1 \in Int /\ l \in Int
    BY <1>1
  <2>3. /\ SubSeq(s, n + 1, l) \in Seq(T)
        /\ Len(SubSeq(s, n + 1, l)) = IF n + 1 <= l THEN l - (n + 1) + 1 ELSE 0
        /\ \A i \in 1..(l - (n + 1) + 1) : SubSeq(s, n + 1, l)[i] = s[(n + 1) + i - 1]
    BY <2>1, <2>2, SubSeqProperties
  <2>4. l - (n + 1) + 1 = l - n /\ (n + 1 <= l \/ l - n = 0) /\ l - n \in Nat
    BY <1>1
  <2>5. \A i \in 1..(l - n) : (n + 1) + i - 1 = n + i
    OBVIOUS
  <2>6. Len(b) = l - n
    BY <1>3, <2>3, <2>4
  <2>7. ASSUME NEW i \in 1..(l - n)
        PROVE  b[i] = s[n + i]
    BY <1>3, <2>3, <2>4, <2>5
  <2>8. QED
    BY <1>3, <2>3, <2>6, <2>7
<1>6. DOMAIN a = 1..n /\ DOMAIN b = 1..(l - n)
  BY <1>4, <1>5, LenProperties
<1>7. /\ \A i \in 1..n : i \in 1..l
      /\ \A i \in 1..(l - n) : n + i \in 1..l
      /\ \A i \in 1..l : i \in 1..n \/ (i - n \in 1..(l - n) /\ n + (i - n) = i)
      /\ \A i \in 1..n, j \in 1..(l - n) : i # n + j
      /\ \A i, j \in 1..(l - n) : n + i = n + j => i = j
  BY <1>1
<1>8. ASSUME NEW x
      PROVE  /\ x \in Range(a) <=> \E i \in 1..n : s[i] = x
             /\ x \in Range(b) <=> \E i \in 1..(l - n) : s[n + i] = x
             /\ x \in Range(s) <=> \E i \in 1..l : s[i] = x
  <2>1. x \in Range(a) <=> \E i \in 1..n : s[i] = x
    BY <1>4, <1>6 DEF Range
  <2>2. x \in Range(b) <=> \E i \in 1..(l - n) : s[n + i] = x
    BY <1>5, <1>6 DEF Range
  <2>3. x \in Range(s) <=> \E i \in 1..l : s[i] = x
    BY <1>1 DEF Range
  <2>4. QED
    BY <2>1, <2>2, <2>3
<1>9. Range(s) = Range(a) \cup Range(b)
  <2>1. ASSUME NEW x \in Range(s)
        PROVE  x \in Range(a) \cup Range(b)
    <3>1. PICK i \in 1..l : s[i] = x
      BY <1>8
    <3>2. CASE i \in 1..n
      BY <1>8, <3>1, <3>2
    <3>3. CASE i - n \in 1..(l - n) /\ n + (i - n) = i
      BY <1>8, <3>1, <3>3
    <3>4. QED
      BY <1>7, <3>2, <3>3
  <2>2. ASSUME NEW x \in Range(a) \cup Range(b)
        PROVE  x \in Range(s)
    BY <1>7, <1>8
  <2>3. QED
    BY <2>1, <2>2
<1>10. ASSUME NoRepeats(s)
       PROVE  NoRepeats(a) /\ NoRepeats(b) /\ Range(a) \cap Range(b) = {}
  <2>1. \A i, j \in 1..l : s[i] = s[j] => i = j
    BY <1>1, <1>10 DEF NoRepeats
  <2>2. NoRepeats(a)
    BY <1>4, <1>6, <1>7, <2>1 DEF NoRepeats
  <2>3. NoRepeats(b)
    <3> SUFFICES ASSUME NEW i \in 1..(l - n), NEW j \in 1..(l - n), b[i] = b[j]
                 PROVE  i = j
      BY <1>6 DEF NoRepeats
    <3>1. s[n + i] = s[n + j]
      BY <1>5
    <3>2. n + i = n + j
      BY <1>7, <2>1, <3>1
    <3>3. QED
      BY <1>7, <3>2
  <2>4. ASSUME NEW x \in Range(a), x \in Range(b)
        PROVE  FALSE
    <3>1. PICK i \in 1..n : s[i] = x
      BY <1>8
    <3>2. PICK j \in 1..(l - n) : s[n + j] = x
      BY <1>8, <2>4
    <3>3. i = n + j
      BY <1>7, <2>1, <3>1, <3>2
    <3>4. QED
      BY <1>7, <3>3
  <2>5. QED
    BY <2>2, <2>3, <2>4
<1>11. QED
  BY <1>2, <1>3, <1>4, <1>5, <1>9, <1>10

\* Two lists one after the other hold the elements of both.
LEMMA ConcatRange ==
  ASSUME NEW T, NEW s \in Seq(T), NEW t \in Seq(T)
  PROVE  s \o t \in Seq(T) /\ Range(s \o t) = Range(s) \cup Range(t)
<1> DEFINE u == s \o t
<1>1. /\ Len(s) \in Nat /\ DOMAIN s = 1..Len(s)
      /\ Len(t) \in Nat /\ DOMAIN t = 1..Len(t)
  BY LenProperties
<1>2. /\ u \in Seq(T) /\ DOMAIN u = 1..(Len(s) + Len(t))
      /\ \A i \in 1..Len(s) : u[i] = s[i]
      /\ \A i \in 1..Len(t) : u[Len(s) + i] = t[i]
  BY <1>1, ConcatProperties, LenProperties
<1>3. /\ \A i \in 1..Len(s) : i \in 1..(Len(s) + Len(t))
      /\ \A i \in 1..Len(t) : Len(s) + i \in 1..(Len(s) + Len(t))
      /\ \A i \in 1..(Len(s) + Len(t)) :
           \/ i \in 1..Len(s)
           \/ i - Len(s) \in 1..Len(t) /\ Len(s) + (i - Len(s)) = i
  BY <1>1
<1> HIDE DEF u
<1>4. ASSUME NEW x
      PROVE  x \in Range(u) <=> x \in Range(s) \/ x \in Range(t)
  <2>1. /\ x \in Range(u) <=> \E i \in 1..(Len(s) + Len(t)) : u[i] = x
        /\ x \in Range(s) <=> \E i \in 1..Len(s) : s[i] = x
        /\ x \in Range(t) <=> \E i \in 1..Len(t) : t[i] = x
    BY <1>1, <1>2 DEF Range
  <2>2. ASSUME x \in Range(u)
        PROVE  x \in Range(s) \/ x \in Range(t)
    <3>1. PICK i \in 1..(Len(s) + Len(t)) : u[i] = x
      BY <2>1, <2>2
    <3>2. CASE i \in 1..Len(s)
      BY <1>2, <2>1, <3>1, <3>2
    <3>3. CASE i - Len(s) \in 1..Len(t) /\ Len(s) + (i - Len(s)) = i
      <4>1. u[Len(s) + (i - Len(s))] = t[i - Len(s)]
        BY <1>2, <3>3
      <4>2. QED
        BY <2>1, <3>1, <3>3, <4>1
    <3>4. QED
      BY <1>3, <3>2, <3>3
  <2>3. QED
    BY <1>2, <1>3, <2>1, <2>2
<1>5. Range(u) = Range(s) \cup Range(t)
  BY <1>4
<1>6. QED
  BY <1>2, <1>5 DEF u

\* The newest n elements: within the bound, taken from the list, and without
\* new repetitions.
LEMMA NewestProperties ==
  ASSUME NEW T, NEW s \in Seq(T), NEW n \in Nat
  PROVE  /\ Newest(s, n) \in Seq(T)
         /\ Len(Newest(s, n)) <= n
         /\ Range(Newest(s, n)) \subseteq Range(s)
         /\ NoRepeats(s) => NoRepeats(Newest(s, n))
         /\ Len(s) <= n => Newest(s, n) = s
<1>1. CASE Len(s) <= n
  BY <1>1 DEF Newest
<1>2. CASE ~(Len(s) <= n)
  <2> DEFINE m == Len(s) - n + 1
             t == SubSeq(s, m, Len(s))
  <2>1. /\ Len(s) \in Nat
        /\ DOMAIN s = 1..Len(s)
        /\ m \in Int /\ m >= 1
    BY <1>2, LenProperties
  <2>2. Newest(s, n) = t
    BY <1>2 DEF Newest
  <2>3. \A i \in m..Len(s) : s[i] \in T
    BY <2>1, ElementOfSeq
  <2>4. /\ t \in Seq(T)
        /\ Len(t) = n
        /\ \A i \in 1..n : t[i] = s[m + i - 1]
    BY <2>1, <2>3, <1>2, SubSeqProperties
  <2> HIDE DEF t
  <2>5. DOMAIN t = 1..n
    BY <2>4, LenProperties
  <2>6. \A i \in 1..n : m + i - 1 \in DOMAIN s
    BY <2>1, <1>2
  <2>7. Range(t) \subseteq Range(s)
    BY <2>4, <2>5, <2>6 DEF Range
  <2>8. NoRepeats(s) => NoRepeats(t)
    <3> SUFFICES ASSUME NoRepeats(s), NEW i \in 1..n, NEW j \in 1..n, t[i] = t[j]
                 PROVE  i = j
      BY <2>5 DEF NoRepeats
    <3>1. m + i - 1 = m + j - 1
      BY <2>4, <2>6 DEF NoRepeats
    <3>2. QED
      BY <3>1, <2>1
  <2>9. QED
    BY <1>2, <2>2, <2>4, <2>7, <2>8
<1>3. QED
  BY <1>1, <1>2

\* Two lists without repetitions and without a common element form one list
\* without repetitions.
LEMMA ConcatNoRepeats ==
  ASSUME NEW T, NEW s \in Seq(T), NEW t \in Seq(T),
         NoRepeats(s), NoRepeats(t), Range(s) \cap Range(t) = {}
  PROVE  NoRepeats(s \o t)
<1> DEFINE u == s \o t
<1>1. /\ Len(s) \in Nat /\ DOMAIN s = 1..Len(s)
      /\ Len(t) \in Nat /\ DOMAIN t = 1..Len(t)
  BY LenProperties
<1>2. /\ DOMAIN u = 1..(Len(s) + Len(t))
      /\ \A i \in 1..(Len(s) + Len(t)) :
           u[i] = IF i <= Len(s) THEN s[i] ELSE t[i - Len(s)]
  BY ConcatProperties, LenProperties
<1> HIDE DEF u
<1>3. SUFFICES ASSUME NEW i \in DOMAIN u, NEW j \in DOMAIN u, u[i] = u[j]
               PROVE  i = j
  BY DEF NoRepeats, u
<1>4. CASE i <= Len(s) /\ j <= Len(s)
  BY <1>1, <1>2, <1>3, <1>4 DEF NoRepeats
<1>5. CASE ~(i <= Len(s)) /\ ~(j <= Len(s))
  <2>1. i - Len(s) \in DOMAIN t /\ j - Len(s) \in DOMAIN t
    BY <1>1, <1>2, <1>5
  <2>2. t[i - Len(s)] = t[j - Len(s)]
    BY <1>2, <1>3, <1>5
  <2>3. i - Len(s) = j - Len(s)
    BY <2>1, <2>2 DEF NoRepeats
  <2>4. QED
    BY <2>3, <1>1, <1>2
<1>6. CASE i <= Len(s) /\ ~(j <= Len(s))
  <2>1. i \in DOMAIN s /\ j - Len(s) \in DOMAIN t
    BY <1>1, <1>2, <1>6
  <2>2. s[i] = t[j - Len(s)]
    BY <1>2, <1>3, <1>6
  <2>3. s[i] \in Range(s) /\ t[j - Len(s)] \in Range(t)
    BY <2>1 DEF Range
  <2>4. QED
    BY <2>2, <2>3
<1>7. CASE ~(i <= Len(s)) /\ j <= Len(s)
  <2>1. j \in DOMAIN s /\ i - Len(s) \in DOMAIN t
    BY <1>1, <1>2, <1>7
  <2>2. s[j] = t[i - Len(s)]
    BY <1>2, <1>3, <1>7
  <2>3. s[j] \in Range(s) /\ t[i - Len(s)] \in Range(t)
    BY <2>1 DEF Range
  <2>4. QED
    BY <2>2, <2>3
<1>8. QED
  BY <1>4, <1>5, <1>6, <1>7

\* The tail of a list without repetitions has everything but the head.
LEMMA TailProperties ==
  ASSUME NEW T, NEW s \in Seq(T), s # <<>>, NoRepeats(s)
  PROVE  /\ Head(s) \in T /\ Head(s) \in Range(s)
         /\ Tail(s) \in Seq(T)
         /\ Len(Tail(s)) = Len(s) - 1
         /\ NoRepeats(Tail(s))
         /\ Range(Tail(s)) = Range(s) \ {Head(s)}
<1>1. /\ Len(s) \in Nat \ {0}
      /\ DOMAIN s = 1..Len(s)
  BY LenProperties, EmptySeq
<1>2. /\ Head(s) \in T
      /\ Tail(s) \in Seq(T)
      /\ Len(Tail(s)) = Len(s) - 1
      /\ \A i \in 1..Len(Tail(s)) : Tail(s)[i] = s[i + 1]
  BY HeadTailProperties
<1>3. DOMAIN Tail(s) = 1..(Len(s) - 1)
  BY <1>2, LenProperties
<1>4. Head(s) = s[1]
  OBVIOUS
<1> DEFINE t == Tail(s)
<1> HIDE DEF t
<1>5. DOMAIN t = 1..(Len(s) - 1) /\ \A i \in 1..(Len(s) - 1) : t[i] = s[i + 1]
  BY <1>2, <1>3 DEF t
<1>6. NoRepeats(t)
  <2> SUFFICES ASSUME NEW i \in DOMAIN t, NEW j \in DOMAIN t, t[i] = t[j]
               PROVE  i = j
    BY DEF NoRepeats
  <2>1. i + 1 \in DOMAIN s /\ j + 1 \in DOMAIN s /\ s[i + 1] = s[j + 1]
    BY <1>1, <1>5
  <2>2. i + 1 = j + 1
    BY <2>1 DEF NoRepeats
  <2>3. QED
    BY <2>2, <1>1, <1>5
<1>7. Range(t) = Range(s) \ {Head(s)}
  <2>1. ASSUME NEW x \in Range(t)
        PROVE  x \in Range(s) \ {Head(s)}
    <3>1. PICK i \in DOMAIN t : t[i] = x
      BY DEF Range
    <3>2. i + 1 \in DOMAIN s /\ s[i + 1] = x /\ i + 1 # 1
      BY <3>1, <1>1, <1>5
    <3>3. 1 \in DOMAIN s
      BY <1>1
    <3>4. s[i + 1] # s[1]
      BY <3>2, <3>3 DEF NoRepeats
    <3>5. QED
      BY <3>2, <3>4, <1>4 DEF Range
  <2>2. ASSUME NEW x \in Range(s) \ {Head(s)}
        PROVE  x \in Range(t)
    <3>1. PICK i \in DOMAIN s : s[i] = x
      BY DEF Range
    <3>2. i # 1
      BY <3>1, <1>4
    <3>3. i - 1 \in DOMAIN t /\ t[i - 1] = x
      BY <3>1, <3>2, <1>1, <1>5
    <3>4. QED
      BY <3>3 DEF Range
  <2>3. QED
    BY <2>1, <2>2
<1>8. Head(s) \in Range(s)
  BY <1>1, <1>4 DEF Range
<1>9. QED
  BY <1>2, <1>6, <1>7, <1>8 DEF t
=============================================================================
