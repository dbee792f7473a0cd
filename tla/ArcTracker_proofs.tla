-------------------------- MODULE ArcTracker_proofs --------------------------
(***************************************************************************)
(* Machine-checked proofs about suppression, tracks and events, for every  *)
(* set of boxes with their overlaps and every value of the thresholds.     *)
(***************************************************************************)
EXTENDS ArcTracker, SequenceTheorems, FiniteSetTheorems, WellFoundedInduction, TLAPS

\* Every set of natural numbers that has an element has a least one.
LEMMA LeastNat ==
  ASSUME NEW T \in SUBSET Nat, T # {}
  PROVE  \E x \in T : \A y \in T : x <= y
<1> DEFINE R == OpToRel(<, Nat)
<1>1. \E x \in T : \A y \in T : ~(<<y, x>> \in R)
  BY NatLessThanWellFounded, WFMin
<1>2. \A x, y \in Nat : y < x => <<y, x>> \in R
  BY DEF OpToRel
<1> HIDE DEF R
<1>3. PICK x \in T : \A y \in T : ~(<<y, x>> \in R)
  BY <1>1
<1>4. ASSUME NEW y \in T PROVE x <= y
  <2>1. x \in Nat /\ y \in Nat
    OBVIOUS
  <2>2. ~(y < x)
    BY <1>2, <1>3, <2>1
  <2> QED BY <2>1, <2>2
<1> QED BY <1>4

\* Induction, over a set instead of a predicate.
LEMMA Induct ==
  ASSUME NEW T \in SUBSET Nat, 0 \in T, \A n \in T : n + 1 \in T
  PROVE  T = Nat
<1>1. SUFFICES ASSUME Nat \ T # {} PROVE FALSE
  OBVIOUS
<1>2. PICK x \in Nat \ T : \A y \in Nat \ T : x <= y
  BY <1>1, LeastNat
<1>3. x # 0 /\ x - 1 \in Nat /\ x - 1 \notin Nat \ T
  BY <1>2
<1>4. x - 1 \in T
  BY <1>3
<1> QED BY <1>2, <1>4
-----------------------------------------------------------------------------
\* order lists K, increasing.
Lists(order, K) ==
  /\ order \in Seq(K)
  /\ \A i, j \in 1..Len(order) : i < j => order[i] < order[j]
  /\ \A k \in K : \E i \in 1..Len(order) : order[i] = k

LEMMA SortedLists ==
  ASSUME NEW K \in SUBSET Nat, IsFiniteSet(K)
  PROVE  Lists(Sorted(K), K) /\ Len(Sorted(K)) = Cardinality(K)
<1> DEFINE Below(k) == {j \in K : j < k}
           rank == [k \in K |-> Cardinality(Below(k))]
           R    == {rank[k] : k \in K}
           n    == Cardinality(K)
           s    == Sorted(K)
<1>1. n \in Nat
  BY FS_CardinalityType
<1>2. \A k \in K : IsFiniteSet(Below(k)) /\ rank[k] \in 0..(n - 1)
  <2> SUFFICES ASSUME NEW k \in K PROVE IsFiniteSet(Below(k)) /\ rank[k] \in 0..(n - 1)
    OBVIOUS
  <2>1. Below(k) \in SUBSET K /\ Below(k) # K
    <3>1. k \in K \ Below(k)
      OBVIOUS
    <3> QED BY <3>1
  <2>2. IsFiniteSet(Below(k)) /\ Cardinality(Below(k)) <= n /\ Cardinality(Below(k)) # n
    BY <2>1, FS_Subset
  <2>3. Cardinality(Below(k)) \in Nat
    BY <2>2, FS_CardinalityType
  <2>4. rank[k] = Cardinality(Below(k))
    OBVIOUS
  <2> HIDE DEF Below, rank, n
  <2> QED BY <1>1, <2>2, <2>3, <2>4
<1>3. \A j, k \in K : j < k => rank[j] < rank[k]
  <2> SUFFICES ASSUME NEW j \in K, NEW k \in K, j < k PROVE rank[j] < rank[k]
    OBVIOUS
  <2>1. Below(j) \in SUBSET Below(k) /\ Below(j) # Below(k)
    <3>1. j \in Below(k) /\ j \notin Below(j)
      OBVIOUS
    <3>2. \A i \in Below(j) : i \in Below(k)
      OBVIOUS
    <3> QED BY <3>1, <3>2
  <2>2. Cardinality(Below(j)) <= Cardinality(Below(k)) /\ Cardinality(Below(j)) # Cardinality(Below(k))
    BY <1>2, <2>1, FS_Subset
  <2>3. rank[j] = Cardinality(Below(j)) /\ rank[k] = Cardinality(Below(k))
    OBVIOUS
  <2>4. rank[j] \in Int /\ rank[k] \in Int
    BY <1>1, <1>2
  <2> HIDE DEF Below, rank
  <2> QED BY <2>2, <2>3, <2>4
<1>4. \A j, k \in K : rank[j] = rank[k] => j = k
  <2> SUFFICES ASSUME NEW j \in K, NEW k \in K, rank[j] = rank[k], j # k PROVE FALSE
    OBVIOUS
  <2>1. j < k \/ k < j
    OBVIOUS
  <2>2. rank[j] \in Int
    BY <1>1, <1>2
  <2> HIDE DEF rank
  <2> QED BY <1>3, <2>1, <2>2
<1>5. R = 0..(n - 1)
  <2>1. rank \in Bijection(K, R)
    <3>1. rank \in Surjection(K, R)
      BY DEF Surjection
    <3>2. rank \in [K -> R]
      OBVIOUS
    <3> HIDE DEF rank, R
    <3>3. rank \in Injection(K, R)
      BY <1>4, <3>2 DEF Injection, IsInjective
    <3> QED BY <3>1, <3>3 DEF Bijection
  <2>2. Cardinality(R) = n /\ IsFiniteSet(R)
    BY <2>1, FS_Bijection DEF ExistsBijection
  <2>3. R \in SUBSET (0..(n - 1))
    BY <1>2
  <2>4. IsFiniteSet(0..(n - 1)) /\ Cardinality(0..(n - 1)) = n
    <3> HIDE DEF n
    <3>1. 0 \in Int /\ n - 1 \in Int
      BY <1>1
    <3>2. IsFiniteSet(0..(n - 1)) /\ Cardinality(0..(n - 1)) = IF 0 > n - 1 THEN 0 ELSE (n - 1) - 0 + 1
      BY <3>1, FS_Interval
    <3> QED BY <1>1, <3>2
  <2> HIDE DEF n, R
  <2> QED BY <2>2, <2>3, <2>4, FS_Subset
<1>6. \A i \in 1..n : s[i] \in K /\ rank[s[i]] = i - 1
  <2> SUFFICES ASSUME NEW i \in 1..n PROVE s[i] \in K /\ rank[s[i]] = i - 1
    OBVIOUS
  <2>1. i - 1 \in R
    <3> HIDE DEF R, n
    <3> QED BY <1>1, <1>5
  <2>2. \E k \in K : Cardinality({j \in K : j < k}) = i - 1
    BY <2>1
  <2>3. s[i] = CHOOSE k \in K : Cardinality({j \in K : j < k}) = i - 1
    BY Zenon DEF Sorted
  <2>4. s[i] \in K /\ Cardinality({j \in K : j < s[i]}) = i - 1
    <3> DEFINE P(k) == Cardinality({j \in K : j < k}) = i - 1
    <3>1. \E k \in K : P(k)
      BY <2>2
    <3>2. s[i] = CHOOSE k \in K : P(k)
      BY <2>3
    <3> HIDE DEF P, s
    <3>3. s[i] \in K /\ P(s[i])
      BY <3>1, <3>2
    <3> QED BY <3>3 DEF P
  <2> QED BY <2>4
<1>7. s \in [1..n -> K]
  <2> DEFINE pick(i) == CHOOSE k \in K : Cardinality({j \in K : j < k}) = i - 1
  <2>1. s = [i \in 1..n |-> pick(i)]
    BY DEF Sorted
  <2> HIDE DEF pick, s, n
  <2>2. \A i \in 1..n : pick(i) = s[i]
    BY <2>1
  <2>3. \A i \in 1..n : pick(i) \in K
    BY <1>6, <2>2
  <2> QED BY <2>1, <2>3
<1> HIDE DEF s, n, rank, R, Below
<1>. \A k \in K : k \in Nat /\ rank[k] \in 0..(n - 1)
  BY <1>2
<1>8. s \in Seq(K) /\ Len(s) = n
  BY <1>1, <1>7, SeqDef, LenProperties
<1>9. \A i, j \in 1..n : i < j => s[i] < s[j]
  <2> SUFFICES ASSUME NEW i \in 1..n, NEW j \in 1..n, i < j, ~(s[i] < s[j]) PROVE FALSE
    OBVIOUS
  <2>1. s[i] \in K /\ s[j] \in K /\ rank[s[i]] = i - 1 /\ rank[s[j]] = j - 1
    BY <1>6
  <2>2. s[i] = s[j] \/ s[j] < s[i]
    <3>1. s[i] \in Nat /\ s[j] \in Nat
      BY <2>1
    <3> QED BY <3>1
  <2>3. i - 1 = j - 1 \/ j - 1 < i - 1
    BY <1>3, <2>1, <2>2
  <2> QED BY <2>3
<1>10. \A k \in K : \E i \in 1..n : s[i] = k
  <2> SUFFICES ASSUME NEW k \in K PROVE \E i \in 1..n : s[i] = k
    OBVIOUS
  <2>1. rank[k] + 1 \in 1..n
    BY <1>1
  <2>2. s[rank[k] + 1] \in K /\ rank[s[rank[k] + 1]] = (rank[k] + 1) - 1
    BY <1>6, <2>1
  <2>3. rank[s[rank[k] + 1]] = rank[k]
    BY <2>1, <2>2
  <2>4. s[rank[k] + 1] = k
    BY <1>4, <2>2, <2>3
  <2> QED BY <2>1, <2>4
<1> QED BY <1>8, <1>9, <1>10 DEF Lists, s, n

\* r consists of the elements of s at the positions in K, in their order.
Selection(r, s, K) ==
  /\ \A i \in 1..Len(r) : \E k \in K : r[i] = s[k]
  /\ \A k \in K : \E i \in 1..Len(r) : r[i] = s[k]
  /\ \A i, j \in 1..Len(r) : i < j => \E k, l \in K : k < l /\ r[i] = s[k] /\ r[j] = s[l]

LEMMA SelectSelects ==
  ASSUME NEW S, NEW s \in Seq(S), NEW K \in SUBSET (1..Len(s))
  PROVE  /\ Select(s, K) \in Seq(S) /\ Selection(Select(s, K), s, K)
         /\ Lists(Sorted(K), K) /\ IsFiniteSet(K) /\ Len(Sorted(K)) = Cardinality(K)
<1> DEFINE order == Sorted(K)
           r     == Select(s, K)
<1>1. Len(s) \in Nat /\ \A i \in 1..Len(s) : s[i] \in S
  BY ElementOfSeq, LenProperties
<1>2. IsFiniteSet(K) /\ K \in SUBSET Nat
  <2>1. IsFiniteSet(1..Len(s))
    BY <1>1, FS_Interval
  <2>2. IsFiniteSet(K)
    BY <2>1, FS_Subset
  <2> QED BY <1>1, <2>2
<1>3. Lists(order, K) /\ Len(order) = Cardinality(K)
  BY <1>2, SortedLists
<1> HIDE DEF order
<1>4. r = [i \in 1..Len(order) |-> s[order[i]]] /\ Len(order) \in Nat
  <2>1. order \in Seq(K)
    BY <1>3 DEF Lists
  <2>2. DOMAIN order = 1..Len(order) /\ Len(order) \in Nat
    BY <2>1, LenProperties
  <2> QED BY <2>2 DEF Select, order
<1> HIDE DEF r
<1>5. \A i \in 1..Len(order) : order[i] \in K
  BY <1>3, ElementOfSeq DEF Lists
<1>6. r \in [1..Len(order) -> S]
  BY <1>1, <1>4, <1>5
<1>7. r \in Seq(S) /\ Len(r) = Len(order)
  BY <1>4, <1>6, SeqDef, LenProperties
<1>8. Selection(r, s, K)
  <2>1. \A i \in 1..Len(r) : r[i] = s[order[i]] /\ order[i] \in K
    BY <1>4, <1>5, <1>7
  <2>2. \A i, j \in 1..Len(r) : i < j => order[i] < order[j]
    BY <1>3, <1>7 DEF Lists
  <2>3. \A k \in K : \E i \in 1..Len(r) : order[i] = k
    BY <1>3, <1>7 DEF Lists
  <2> QED BY ZenonT(40), <2>1, <2>2, <2>3 DEF Selection
<1> QED BY <1>2, <1>3, <1>7, <1>8 DEF r, order

-----------------------------------------------------------------------------
LEMMA Overlaps ==
  /\ \A a, b \in Boxes : /\ Iou(a, b) \in Int /\ 0 <= Iou(a, b) /\ Iou(a, b) <= 1000
                         /\ Iou(a, b) = Iou(b, a)
                         /\ Iou(a, a) = 0 \/ Iou(a, a) = 1000
                         /\ Iou(a, b) > 0 => Iou(a, a) = 1000
  /\ NmsThresh \in Nat /\ IouMatch \in Nat /\ IouMatch > 0
  /\ IouAssociate \in Nat /\ IouAssociate < 1000 /\ NmsThresh <= IouAssociate
  /\ \A d \in Detections : d.box \in Boxes /\ d.energy \in Nat
<1>1. ASSUME NEW a \in Boxes, NEW b \in Boxes
      PROVE  /\ Iou(a, b) \in Int /\ 0 <= Iou(a, b) /\ Iou(a, b) <= 1000
             /\ Iou(a, b) = Iou(b, a)
             /\ Iou(a, a) = 0 \/ Iou(a, a) = 1000
             /\ Iou(a, b) > 0 => Iou(a, a) = 1000
  <2>1. /\ Iou(a, b) \in 0..1000 /\ Iou(a, b) = Iou(b, a) /\ Iou(a, a) \in {0, 1000}
        /\ Iou(a, b) > 0 => Iou(a, a) = 1000
    BY ArcTrackerAssumption
  <2> QED BY <2>1
<1>2. /\ NmsThresh \in Nat /\ IouMatch \in Nat /\ IouMatch > 0
      /\ IouAssociate \in Nat /\ IouAssociate < 1000 /\ NmsThresh <= IouAssociate
  <2>1. /\ NmsThresh \in 0..1000 /\ IouMatch \in 1..1000 /\ IouAssociate \in 0..999
        /\ NmsThresh <= IouAssociate
    BY ArcTrackerAssumption
  <2> QED BY <2>1
<1>3. ASSUME NEW d \in Detections
      PROVE  d.box \in Boxes /\ d.energy \in Nat
  <2>1. d \in [box : Boxes, energy : Nat]
    BY ArcTrackerAssumption
  <2> QED BY <2>1
<1> QED BY <1>1, <1>2, <1>3

\* Whether the detections kept up to the n-th are those nms keeps.
KeptUpTo(raw, n, kept) ==
  \A i \in 1..n :
    i \in kept <=> \A j \in kept : j < i => Iou(raw[j].box, raw[i].box) <= NmsThresh

LEMMA SurvivorsExist ==
  ASSUME NEW raw, NEW n \in Nat
  PROVE  \E kept \in SUBSET (1..n) : KeptUpTo(raw, n, kept)
<1> DEFINE T == {m \in Nat : \E kept \in SUBSET (1..m) : KeptUpTo(raw, m, kept)}
<1>1. 0 \in T
  <2>1. KeptUpTo(raw, 0, {}) /\ {} \in SUBSET (1..0)
    BY DEF KeptUpTo
  <2> QED BY <2>1
<1>2. ASSUME NEW m \in T PROVE m + 1 \in T
  <2>1. PICK kept \in SUBSET (1..m) : KeptUpTo(raw, m, kept)
    OBVIOUS
  <2> DEFINE stays == \A j \in kept : Iou(raw[j].box, raw[m + 1].box) <= NmsThresh
             more  == IF stays THEN kept \cup {m + 1} ELSE kept
  <2>2. m \in Nat /\ \A j \in kept : j \in 1..m /\ j < m + 1
    OBVIOUS
  <2>3. more \in SUBSET (1..(m + 1))
    BY <2>2
  <2>4. ASSUME NEW i \in 1..(m + 1)
        PROVE  i \in more <=> \A j \in more : j < i => Iou(raw[j].box, raw[i].box) <= NmsThresh
    <3>1. CASE i = m + 1
      <4>1. i \in more <=> stays
        BY <2>2, <3>1
      <4>2. (\A j \in more : j < i => Iou(raw[j].box, raw[i].box) <= NmsThresh) <=> stays
        BY <2>2, <3>1
      <4> QED BY <4>1, <4>2
    <3>2. CASE i # m + 1
      <4>1. i \in 1..m /\ ~(m + 1 < i)
        BY <2>2, <3>2
      <4>2. i \in more <=> i \in kept
        BY <3>2
      <4>3. i \in kept <=> \A j \in kept : j < i => Iou(raw[j].box, raw[i].box) <= NmsThresh
        BY <2>1, <4>1 DEF KeptUpTo
      <4> QED BY <4>1, <4>2, <4>3
    <3> QED BY <3>1, <3>2
  <2>5. KeptUpTo(raw, m + 1, more)
    BY <2>4 DEF KeptUpTo
  <2> HIDE DEF more
  <2> QED BY <2>2, <2>3, <2>5
<1>3. T = Nat
  <2>1. T \in SUBSET Nat
    OBVIOUS
  <2> HIDE DEF T
  <2> QED BY <1>1, <1>2, <2>1, Induct
<1> QED BY <1>3

\* What nms keeps.
LEMMA SurvivorsKept ==
  ASSUME NEW n \in Nat, NEW raw, DOMAIN raw = 1..n
  PROVE  Survivors(raw) \in SUBSET (1..n) /\ KeptUpTo(raw, n, Survivors(raw))
<1> DEFINE kept == Survivors(raw)
           P(K) == KeptUpTo(raw, n, K)
<1>1. \E K \in SUBSET (1..n) : P(K)
  BY SurvivorsExist
<1>2. kept = CHOOSE K \in SUBSET (1..n) : P(K)
  BY DEF Survivors, KeptUpTo
<1> HIDE DEF P, kept
<1>3. kept \in SUBSET (1..n) /\ P(kept)
  BY <1>1, <1>2
<1> QED BY <1>3 DEF P, kept

\* The detections marked by those that stay, of the first i: what the loops of
\* nms have marked after i rounds.
MarkedUpTo(raw, n, kept, i) ==
  {j \in 1..n : \E k \in kept : k <= i /\ k < j /\ Iou(raw[k].box, raw[j].box) > NmsThresh}

LEMMA MarkRound ==
  ASSUME NEW n \in Nat, NEW raw, \A i \in 1..n : raw[i].box \in Boxes,
         NEW kept \in SUBSET (1..n), KeptUpTo(raw, n, kept), NEW i \in 1..n
  PROVE  /\ i \in MarkedUpTo(raw, n, kept, i - 1) <=> i \notin kept
         /\ MarkedUpTo(raw, n, kept, i) =
              IF i \in MarkedUpTo(raw, n, kept, i - 1) THEN MarkedUpTo(raw, n, kept, i - 1)
              ELSE MarkedUpTo(raw, n, kept, i - 1) \cup
                     {j \in (i + 1)..n : Iou(raw[i].box, raw[j].box) > NmsThresh}
<1> DEFINE Over(k, j) == Iou(raw[k].box, raw[j].box) > NmsThresh
           W(m) == MarkedUpTo(raw, n, kept, m)
<1>1. \A k, j \in 1..n : Over(k, j) <=> ~(Iou(raw[k].box, raw[j].box) <= NmsThresh)
  BY Overlaps
<1>2. \A k \in kept : k <= i - 1 <=> k < i
  OBVIOUS
<1>3. i \in W(i - 1) <=> i \notin kept
  <2>1. i \in W(i - 1) <=> \E k \in kept : k < i /\ Over(k, i)
    BY <1>2 DEF MarkedUpTo
  <2>2. i \in kept <=> \A k \in kept : k < i => ~Over(k, i)
    BY <1>1 DEF KeptUpTo
  <2> QED BY <2>1, <2>2
<1> HIDE DEF Over
<1>4. \A m : W(m) = {j \in 1..n : \E k \in kept : k <= m /\ k < j /\ Over(k, j)}
  BY DEF MarkedUpTo, Over
<1> HIDE DEF W
<1>5. \A k \in kept : k <= i <=> k <= i - 1 \/ k = i
  OBVIOUS
<1>6. CASE i \in kept
  <2>1. \A j \in 1..n : j \in W(i) <=> j \in W(i - 1) \/ (i < j /\ Over(i, j))
    BY <1>4, <1>5, <1>6
  <2>2. \A j : j \in {l \in (i + 1)..n : Over(i, l)} <=> j \in 1..n /\ i < j /\ Over(i, j)
    OBVIOUS
  <2>3. W(i) = W(i - 1) \cup {j \in (i + 1)..n : Over(i, j)}
    BY <1>4, <2>1, <2>2
  <2> QED BY <1>3, <1>6, <2>3 DEF W, Over
<1>7. CASE i \notin kept
  <2>1. W(i) = W(i - 1)
    BY <1>4, <1>5, <1>7
  <2> QED BY <1>3, <1>7, <2>1 DEF W
<1> QED BY <1>6, <1>7

LEMMA MarkedRest ==
  ASSUME NEW n \in Nat, NEW raw, DOMAIN raw = 1..n, Len(raw) = n,
         \A i \in 1..n : raw[i].box \in Boxes
  PROVE  Survivors(raw) = DOMAIN raw \ Marked(raw)
<1> DEFINE kept == Survivors(raw)
           W(i) == MarkedUpTo(raw, n, kept, i)
           Round(i, marked) ==
             IF i \in marked THEN marked
             ELSE marked \cup {j \in (i + 1)..n : Iou(raw[i].box, raw[j].box) > NmsThresh}
           P(f) == f = [i \in 0..n |-> IF i = 0 THEN {} ELSE Round(i, f[i - 1])]
           suppressed == CHOOSE f : P(f)
<1>1. kept \in SUBSET (1..n) /\ KeptUpTo(raw, n, kept)
  BY SurvivorsKept
<1>2. Marked(raw) = suppressed[n]
  BY DEF Marked
<1> HIDE DEF kept
<1>3. W(0) = {}
  BY <1>1 DEF MarkedUpTo
<1>4. \A i \in 1..n : W(i) = Round(i, W(i - 1)) /\ (i \in W(i - 1) <=> i \notin kept)
  <2> SUFFICES ASSUME NEW i \in 1..n
               PROVE  W(i) = Round(i, W(i - 1)) /\ (i \in W(i - 1) <=> i \notin kept)
    OBVIOUS
  <2> QED BY Zenon, <1>1, MarkRound
<1> HIDE DEF W, Round
<1>5. \E f : P(f)
  <2> DEFINE w == [i \in 0..n |-> W(i)]
             h == [i \in 0..n |-> IF i = 0 THEN {} ELSE Round(i, w[i - 1])]
  <2>1. ASSUME NEW i \in 0..n PROVE w[i] = h[i]
    <3>1. CASE i = 0
      BY <1>3, <3>1
    <3>2. CASE i # 0
      <4>1. i \in 1..n /\ i - 1 \in 0..n
        BY <3>2
      <4> QED BY <1>4, <3>2, <4>1
    <3> QED BY <3>1, <3>2
  <2>2. w = h
    BY <2>1
  <2> HIDE DEF w
  <2> QED BY <2>2
<1>6. P(suppressed)
  BY <1>5
<1> HIDE DEF suppressed, P
<1>7. /\ suppressed[0] = {}
      /\ \A i \in 1..n : suppressed[i] = Round(i, suppressed[i - 1])
  <2>1. suppressed = [i \in 0..n |-> IF i = 0 THEN {} ELSE Round(i, suppressed[i - 1])]
    BY <1>6 DEF P
  <2>2. \A i \in 0..n : suppressed[i] = IF i = 0 THEN {} ELSE Round(i, suppressed[i - 1])
    BY Zenon, <2>1
  <2>3. 0 \in 0..n /\ \A i \in 1..n : i \in 0..n /\ i # 0
    OBVIOUS
  <2> QED BY Zenon, <2>2, <2>3
<1> DEFINE T == {m \in Nat : m <= n => suppressed[m] = W(m)}
<1>8. 0 \in T
  BY <1>3, <1>7
<1>9. ASSUME NEW m \in T PROVE m + 1 \in T
  <2>1. CASE m + 1 <= n
    <3>1. m \in Nat /\ m + 1 \in 1..n /\ (m + 1) - 1 = m /\ suppressed[m] = W(m)
      BY <2>1
    <3>2. suppressed[m + 1] = Round(m + 1, W(m))
      BY <1>7, <3>1
    <3>3. W(m + 1) = Round(m + 1, W(m))
      BY <1>4, <3>1
    <3> QED BY <3>1, <3>2, <3>3
  <2>2. CASE ~(m + 1 <= n)
    BY <2>2
  <2> QED BY <2>1, <2>2
<1>10. suppressed[n] = W(n)
  <2>1. T \in SUBSET Nat
    OBVIOUS
  <2>2. n \in T
    <3> HIDE DEF T
    <3> QED BY <1>8, <1>9, <2>1, Induct
  <2> QED BY <2>2
<1>11. ASSUME NEW j \in 1..n PROVE j \in W(n) <=> j \notin kept
  <2>1. \A k \in kept : k < j => k <= n /\ k <= j - 1
    BY <1>1
  <2>2. \A k \in kept : k <= j - 1 => k < j
    BY <1>1
  <2>3. j \in W(n) <=> j \in W(j - 1)
    BY <2>1, <2>2 DEF W, MarkedUpTo
  <2> QED BY <1>4, <2>3
<1>12. kept = (1..n) \ W(n)
  BY <1>1, <1>11
<1> QED BY <1>2, <1>10, <1>12 DEF kept

\* What is left after suppression: detections of the frame, no two of which
\* overlap by more than the threshold.
LEMMA NmsFacts ==
  ASSUME NEW n \in Nat, NEW raw \in [1..n -> Detections]
  PROVE  /\ Nms(raw) \in Seq(Detections)
         /\ \A i, j \in 1..Len(Nms(raw)) :
              i # j => Iou(Nms(raw)[i].box, Nms(raw)[j].box) <= NmsThresh
<1> DEFINE kept == Survivors(raw)
           dets == Nms(raw)
<1>1. raw \in Seq(Detections) /\ Len(raw) = n /\ DOMAIN raw = 1..n
  BY SeqDef, LenProperties
<1>2. kept \in SUBSET (1..n) /\ KeptUpTo(raw, n, kept)
  BY <1>1, SurvivorsKept
<1>3. dets = Select(raw, kept)
  BY DEF Nms
<1> HIDE DEF kept, dets
<1>4. dets \in Seq(Detections) /\ Selection(dets, raw, kept)
  BY <1>1, <1>2, <1>3, SelectSelects
<1>5. \A i, j \in 1..Len(dets) : i < j => \E k, l \in kept : k < l /\ dets[i] = raw[k] /\ dets[j] = raw[l]
  BY <1>4 DEF Selection
<1>6. \A k, l \in kept : k < l => Iou(raw[k].box, raw[l].box) <= NmsThresh
  BY <1>2 DEF KeptUpTo
<1>7. \A i, j \in 1..Len(dets) : i < j => Iou(dets[i].box, dets[j].box) <= NmsThresh
  BY <1>5, <1>6
<1>8. \A i \in 1..Len(dets) : dets[i].box \in Boxes
  BY <1>4, ElementOfSeq, Overlaps
<1>9. ASSUME NEW i \in 1..Len(dets), NEW j \in 1..Len(dets), i # j
      PROVE  Iou(dets[i].box, dets[j].box) <= NmsThresh
  <2>1. i < j \/ j < i
    BY <1>9
  <2> QED BY <1>7, <1>8, <2>1, Overlaps
<1> QED BY <1>4, <1>9 DEF dets
-----------------------------------------------------------------------------
\* Among numbers with bounded values there is a first one of the greatest value.
LEMMA FirstOfGreatest ==
  ASSUME NEW near \in SUBSET Nat, near # {}, NEW f,
         \A d \in near : f[d] \in Int /\ f[d] <= 1000
  PROVE  \E d \in near : \A e \in near : f[e] < f[d] \/ (f[e] = f[d] /\ d <= e)
<1> DEFINE A == {1000 - f[d] : d \in near}
<1>1. A \in SUBSET Nat /\ A # {}
  <2>1. \A d \in near : 1000 - f[d] \in Nat
    OBVIOUS
  <2>2. PICK d \in near : TRUE
    OBVIOUS
  <2> QED BY <2>1, <2>2
<1> HIDE DEF A
<1>2. PICK a \in A : \A b \in A : a <= b
  BY <1>1, LeastNat
<1> DEFINE B == {d \in near : 1000 - f[d] = a}
<1>3. B \in SUBSET Nat /\ B # {}
  <2>1. PICK d \in near : a = 1000 - f[d]
    BY <1>2 DEF A
  <2>2. d \in B
    BY <2>1
  <2>3. \A e \in B : e \in Nat
    OBVIOUS
  <2> HIDE DEF B
  <2> QED BY <2>2, <2>3
<1> HIDE DEF B
<1>4. PICK d \in B : \A e \in B : d <= e
  BY <1>3, LeastNat
<1>5. d \in near /\ 1000 - f[d] = a
  BY DEF B
<1>6. ASSUME NEW e \in near PROVE f[e] < f[d] \/ (f[e] = f[d] /\ d <= e)
  <2>1. f[e] \in Int /\ f[d] \in Int
    BY <1>5
  <2>2. a <= 1000 - f[e]
    BY <1>2 DEF A
  <2>3. 1000 - f[e] = a => d <= e
    BY <1>4 DEF B
  <2> QED BY <1>5, <2>1, <2>2, <2>3
<1> QED BY <1>5, <1>6

\* best is 0 or overlaps the track enough and is not taken; if it is 0 no other does.
Best(best, track, dets, taken) ==
  /\ best \in 0..Len(dets)
  /\ best # 0 => best \notin taken /\ Iou(track.box, dets[best].box) >= IouMatch
  /\ best = 0 => \A d \in 1..Len(dets) :
                   d \notin taken => Iou(track.box, dets[d].box) < IouMatch

LEMMA BestDetectionIsBest ==
  ASSUME NEW track, track.box \in Boxes, NEW dets \in Seq(Detections), NEW taken
  PROVE  Best(BestDetection(track, dets, taken), track, dets, taken)
<1> DEFINE f    == [d \in 1..Len(dets) |-> Iou(track.box, dets[d].box)]
           near == {d \in DOMAIN dets \ taken : Iou(track.box, dets[d].box) >= IouMatch}
           P(d) == \A e \in near :
                     \/ Iou(track.box, dets[e].box) < Iou(track.box, dets[d].box)
                     \/ Iou(track.box, dets[e].box) = Iou(track.box, dets[d].box) /\ d <= e
           best == BestDetection(track, dets, taken)
<1>1. DOMAIN dets = 1..Len(dets) /\ Len(dets) \in Nat /\ IouMatch \in Nat
  BY LenProperties, Overlaps
<1>2. \A d \in 1..Len(dets) : dets[d].box \in Boxes
  BY ElementOfSeq, Overlaps
<1>3. \A d \in 1..Len(dets) : f[d] = Iou(track.box, dets[d].box)
  OBVIOUS
<1>4. best = IF near = {} THEN 0 ELSE CHOOSE d \in near : P(d)
  BY DEF BestDetection
<1>5. near \in SUBSET (1..Len(dets)) /\ near \in SUBSET Nat
  BY <1>1
<1>6. \A d \in 1..Len(dets) : d \in near <=> d \notin taken /\ Iou(track.box, dets[d].box) >= IouMatch
  BY <1>1
<1> HIDE DEF f, near, best
<1>7. CASE near = {}
  <2>1. ASSUME NEW d \in 1..Len(dets), d \notin taken PROVE Iou(track.box, dets[d].box) < IouMatch
    <3>1. Iou(track.box, dets[d].box) \in Int
      BY <1>2, Overlaps
    <3> QED BY <1>1, <1>6, <1>7, <2>1, <3>1
  <2>2. best = 0
    BY <1>4, <1>7
  <2> QED BY <1>1, <2>1, <2>2 DEF Best, best
<1>8. CASE near # {}
  <2>1. \A d \in near : f[d] \in Int /\ f[d] <= 1000
    BY <1>2, <1>3, <1>5, Overlaps
  <2>2. PICK d \in near : \A e \in near : f[e] < f[d] \/ (f[e] = f[d] /\ d <= e)
    BY <1>5, <1>8, <2>1, FirstOfGreatest
  <2>3. P(d)
    BY <1>3, <1>5, <2>2
  <2> HIDE DEF P
  <2>4. best \in near
    BY <1>4, <1>8, <2>3
  <2>5. best \in 1..Len(dets) /\ best # 0
    BY <1>1, <1>5, <2>4
  <2>6. best \notin taken /\ Iou(track.box, dets[best].box) >= IouMatch
    BY <1>6, <2>4, <2>5
  <2> QED BY <1>1, <2>5, <2>6 DEF Best, best
<1> QED BY <1>7, <1>8

\* match gives each of n tracks the best detection the older ones left.
Matched(match, n, tracks, dets) ==
  match = [t \in 1..n |-> BestDetection(tracks[t], dets, {match[s] : s \in 1..(t - 1)})]

LEMMA MatchingExists ==
  ASSUME NEW tracks, NEW dets, NEW n \in Nat
  PROVE  \E match : Matched(match, n, tracks, dets)
<1> DEFINE T == {m \in Nat : \E match : Matched(match, m, tracks, dets)}
<1>1. 0 \in T
  <2> DEFINE g == [t \in 1..0 |-> BestDetection(tracks[t], dets, {})]
             h == [t \in 1..0 |-> BestDetection(tracks[t], dets, {g[s] : s \in 1..(t - 1)})]
  <2>1. g = h
    OBVIOUS
  <2> HIDE DEF g
  <2>2. Matched(g, 0, tracks, dets)
    BY <2>1 DEF Matched
  <2> QED BY <2>2
<1>2. ASSUME NEW m \in T PROVE m + 1 \in T
  <2>1. PICK match : Matched(match, m, tracks, dets)
    OBVIOUS
  <2> DEFINE Old(t) == BestDetection(tracks[t], dets, {match[s] : s \in 1..(t - 1)})
             more   == [t \in 1..(m + 1) |-> Old(t)]
             New(t) == BestDetection(tracks[t], dets, {more[s] : s \in 1..(t - 1)})
  <2>2. m \in Nat /\ \A t \in 1..m : match[t] = Old(t)
    BY <2>1 DEF Matched
  <2>3. ASSUME NEW t \in 1..(m + 1) PROVE Old(t) = New(t)
    <3>1. \A s \in 1..(t - 1) : s \in 1..m /\ s \in 1..(m + 1)
      BY <2>2
    <3>2. \A s \in 1..(t - 1) : more[s] = match[s]
      BY <2>2, <3>1
    <3>3. {match[s] : s \in 1..(t - 1)} = {more[s] : s \in 1..(t - 1)}
      BY <3>2
    <3> QED BY <3>3
  <2>4. more = [t \in 1..(m + 1) |-> New(t)]
    BY <2>3
  <2>5. Matched(more, m + 1, tracks, dets)
    BY <2>4 DEF Matched
  <2> HIDE DEF more
  <2> QED BY <2>2, <2>5
<1>3. T = Nat
  <2>1. T \in SUBSET Nat
    OBVIOUS
  <2> HIDE DEF T
  <2> QED BY <1>1, <1>2, <2>1, Induct
<1> QED BY <1>3

\* The matching of update: a detection goes to one track at most, and only to
\* one it overlaps enough; one that goes to none overlaps no unmatched track.
Match(match, tracks, dets) ==
  /\ match \in [1..Len(tracks) -> 0..Len(dets)]
  /\ \A t \in 1..Len(tracks) : match[t] # 0 => Iou(tracks[t].box, dets[match[t]].box) >= IouMatch
  /\ \A s, t \in 1..Len(tracks) : s < t /\ match[t] # 0 => match[s] # match[t]
  /\ \A t \in 1..Len(tracks) : \A d \in 1..Len(dets) :
       match[t] = 0 /\ Iou(tracks[t].box, dets[d].box) >= IouMatch =>
         \E s \in 1..Len(tracks) : match[s] = d

LEMMA MatchingMatches ==
  ASSUME NEW S, \A t \in S : t.box \in Boxes, NEW tracks \in Seq(S), NEW dets \in Seq(Detections)
  PROVE  Match(Matching(tracks, dets), tracks, dets)
<1> DEFINE n == Len(tracks)
           match == Matching(tracks, dets)
           Taken(t) == {match[s] : s \in 1..(t - 1)}
<1>1. n \in Nat /\ DOMAIN tracks = 1..n /\ \A t \in 1..n : tracks[t].box \in Boxes
  BY ElementOfSeq, LenProperties
<1>2. Matched(match, n, tracks, dets)
  <2> DEFINE P(g) == Matched(g, n, tracks, dets)
  <2>1. \E g : P(g)
    BY <1>1, MatchingExists
  <2>2. match = CHOOSE g : P(g)
    BY <1>1 DEF Matching, Matched
  <2> HIDE DEF P, match
  <2>3. P(match)
    BY <2>1, <2>2
  <2> QED BY <2>3 DEF P
<1> HIDE DEF match
<1>3. /\ match = [t \in 1..n |-> match[t]]
      /\ \A t \in 1..n : match[t] = BestDetection(tracks[t], dets, Taken(t))
  BY <1>2 DEF Matched
<1>4. \A t \in 1..n : Best(match[t], tracks[t], dets, Taken(t))
  BY <1>1, <1>3, BestDetectionIsBest
<1>5. match \in [1..n -> 0..Len(dets)]
  BY <1>3, <1>4 DEF Best
<1>6. ASSUME NEW t \in 1..n PROVE match[t] # 0 => Iou(tracks[t].box, dets[match[t]].box) >= IouMatch
  BY <1>4 DEF Best
<1>7. ASSUME NEW s \in 1..n, NEW t \in 1..n, s < t, match[t] # 0 PROVE match[s] # match[t]
  <2>1. s \in 1..(t - 1)
    BY <1>1, <1>7
  <2>2. match[s] \in Taken(t)
    BY <2>1
  <2> QED BY <1>4, <1>7, <2>2 DEF Best
<1>8. ASSUME NEW t \in 1..n, NEW d \in 1..Len(dets), match[t] = 0,
             Iou(tracks[t].box, dets[d].box) >= IouMatch
      PROVE  \E s \in 1..n : match[s] = d
  <2>1. dets[d].box \in Boxes
    BY ElementOfSeq, Overlaps
  <2>2. ~(Iou(tracks[t].box, dets[d].box) < IouMatch)
    BY <1>1, <1>8, <2>1, Overlaps
  <2>3. d \in Taken(t)
    BY <1>4, <1>8, <2>2 DEF Best
  <2>4. PICK s \in 1..(t - 1) : match[s] = d
    BY <2>3
  <2>5. s \in 1..n
    BY <1>1
  <2> QED BY <2>4, <2>5
<1>9. Match(match, tracks, dets)
  BY <1>5, <1>6, <1>7, <1>8 DEF Match
<1> QED BY <1>9 DEF match
-----------------------------------------------------------------------------
\* Tracks in the order of their numbers, others gone, and no number twice or
\* beyond the next one.
Ids(tracks, gone, next) ==
  /\ \A s, t \in 1..Len(tracks) : s < t => tracks[s].id < tracks[t].id
  /\ \A s, t \in 1..Len(gone) : s < t => gone[s].id # gone[t].id
  /\ \A s \in 1..Len(tracks) : \A t \in 1..Len(gone) : tracks[s].id # gone[t].id
  /\ \A t \in 1..Len(tracks) : tracks[t].id < next
  /\ \A t \in 1..Len(gone) : gone[t].id < next

\* now has the tracks that were seen within the gap, and no others.
Kept(now, tracks, pts) ==
  /\ \A u \in 1..Len(now) : \E t \in 1..Len(tracks) :
       now[u] = tracks[t] /\ pts - tracks[t].last <= MaxGap
  /\ \A t \in 1..Len(tracks) : pts - tracks[t].last <= MaxGap =>
       \E u \in 1..Len(now) : now[u] = tracks[t]

LEMMA TrackFields ==
  ASSUME NEW t \in Track
  PROVE  /\ t.id \in Nat \ {0} /\ t.box \in Boxes /\ t.start \in Int /\ t.last \in Int
         /\ t.count \in Nat \ {0} /\ t.smoothed \in Nat /\ t.cumulative \in Nat
         /\ t.severity \in 1..5
BY DEF Track

\* What expire_old_tracks leaves: the tracks seen lately, in their order, and
\* a bounded list of the others.
LEMMA Expiry ==
  ASSUME NEW tracks \in Seq(Track), completed \in Seq(Track), NEW next,
         Ids(tracks, completed, next), NEW pts \in Int, ExpireOldTracks(tracks, pts)
  PROVE  /\ active' \in Seq(Track) /\ completed' \in Seq(Track)
         /\ Len(completed') <= MaxTracks
         /\ Ids(active', completed', next)
         /\ Kept(active', tracks, pts)
<1> DEFINE late == {t \in DOMAIN tracks : Expired(tracks[t], pts)}
           here == DOMAIN tracks \ late
           out  == Select(tracks, late)
           gone == completed \o out
<1>1. /\ DOMAIN tracks = 1..Len(tracks) /\ Len(tracks) \in Nat
      /\ \A t \in 1..Len(tracks) : tracks[t] \in Track
  BY ElementOfSeq, LenProperties
<1>2. late \in SUBSET (1..Len(tracks)) /\ here \in SUBSET (1..Len(tracks))
  BY <1>1
<1>3. /\ active' = Select(tracks, here)
      /\ completed' = IF Len(gone) > MaxTracks
                      THEN SubSeq(gone, Len(gone) - MaxTracks + 1, Len(gone)) ELSE gone
  BY DEF ExpireOldTracks
<1>4. \A t \in 1..Len(tracks) : /\ t \in late <=> pts - tracks[t].last > MaxGap
                                /\ t \in here <=> ~(pts - tracks[t].last > MaxGap)
  BY <1>1 DEF Expired
<1>5. MaxTracks \in Nat /\ MaxGap \in Nat
  BY ArcTrackerAssumption
<1> HIDE DEF late, here, out, gone
<1>6. active' \in Seq(Track) /\ Selection(active', tracks, here)
  BY <1>2, <1>3, SelectSelects
<1>7. out \in Seq(Track) /\ Selection(out, tracks, late)
  BY <1>2, SelectSelects DEF out
<1>8. /\ gone \in Seq(Track)
      /\ Len(gone) = Len(completed) + Len(out) /\ Len(completed) \in Nat /\ Len(out) \in Nat
      /\ \A i \in 1..Len(gone) : gone[i] = IF i <= Len(completed) THEN completed[i]
                                           ELSE out[i - Len(completed)]
  BY <1>7, ConcatProperties, LenProperties DEF gone
<1>9. \A s, t \in 1..Len(tracks) : s # t => tracks[s].id # tracks[t].id
  <2> SUFFICES ASSUME NEW s \in 1..Len(tracks), NEW t \in 1..Len(tracks), s # t
               PROVE tracks[s].id # tracks[t].id
    OBVIOUS
  <2>1. s < t \/ t < s
    BY <1>1
  <2>2. tracks[s].id \in Nat /\ tracks[t].id \in Nat
    BY <1>1, TrackFields
  <2>3. tracks[s].id < tracks[t].id \/ tracks[t].id < tracks[s].id
    BY <2>1 DEF Ids
  <2> QED BY <2>2, <2>3
<1>10. Kept(active', tracks, pts)
  <2>1. \A t \in 1..Len(tracks) : tracks[t].last \in Int
    BY <1>1, TrackFields
  <2>2. \A t \in 1..Len(tracks) : t \in here <=> pts - tracks[t].last <= MaxGap
    BY <1>4, <1>5, <2>1
  <2>3. \A u \in 1..Len(active') : \E t \in here : active'[u] = tracks[t]
    BY <1>6 DEF Selection
  <2>4. \A t \in here : \E u \in 1..Len(active') : active'[u] = tracks[t]
    BY <1>6 DEF Selection
  <2> QED BY <1>2, <2>2, <2>3, <2>4 DEF Kept
<1>11. \A i \in 1..Len(out) : \E t \in late : out[i] = tracks[t]
  BY <1>7 DEF Selection
<1>12. \A s \in 1..Len(active') : \E t \in here : active'[s] = tracks[t]
  BY <1>6 DEF Selection
<1>13. Ids(active', gone, next)
  <2>1. ASSUME NEW s \in 1..Len(active'), NEW t \in 1..Len(active'), s < t
        PROVE  active'[s].id < active'[t].id
    <3>1. PICK k \in here, l \in here : k < l /\ active'[s] = tracks[k] /\ active'[t] = tracks[l]
      BY <1>6, <2>1 DEF Selection
    <3> QED BY <1>2, <3>1 DEF Ids
  <2>2. ASSUME NEW s \in 1..Len(gone), NEW t \in 1..Len(gone), s < t
        PROVE  gone[s].id # gone[t].id
    <3>1. CASE t <= Len(completed)
      <4>1. s \in 1..Len(completed) /\ t \in 1..Len(completed)
        BY <1>8, <2>2, <3>1
      <4>2. gone[s] = completed[s] /\ gone[t] = completed[t]
        BY <1>8, <4>1
      <4> QED BY <2>2, <4>1, <4>2 DEF Ids
    <3>2. CASE s <= Len(completed) /\ t > Len(completed)
      <4>1. s \in 1..Len(completed) /\ t - Len(completed) \in 1..Len(out)
        BY <1>8, <3>2
      <4>2. gone[s] = completed[s] /\ gone[t] = out[t - Len(completed)]
        BY <1>8, <3>2
      <4>3. PICK l \in late : out[t - Len(completed)] = tracks[l]
        BY <1>11, <4>1
      <4> QED BY <1>2, <4>1, <4>2, <4>3 DEF Ids
    <3>3. CASE s > Len(completed)
      <4> DEFINE i == s - Len(completed)
                 j == t - Len(completed)
      <4>1. i \in 1..Len(out) /\ j \in 1..Len(out) /\ i < j
        BY <1>8, <2>2, <3>3
      <4>2. gone[s] = out[i] /\ gone[t] = out[j]
        BY <1>8, <2>2, <3>3
      <4> HIDE DEF i, j
      <4>3. PICK k \in late, l \in late : k < l /\ out[i] = tracks[k] /\ out[j] = tracks[l]
        BY <1>7, <4>1 DEF Selection
      <4>4. k # l
        BY <1>2, <4>3
      <4> QED BY <1>2, <1>9, <4>2, <4>3, <4>4
    <3> QED BY <1>8, <3>1, <3>2, <3>3
  <2>3. ASSUME NEW t \in 1..Len(gone)
        PROVE  /\ gone[t].id < next
               /\ \A s \in 1..Len(active') : active'[s].id # gone[t].id
    <3>1. CASE t <= Len(completed)
      <4>1. t \in 1..Len(completed) /\ gone[t] = completed[t]
        BY <1>8, <3>1
      <4> QED BY <1>2, <1>12, <4>1 DEF Ids
    <3>2. CASE t > Len(completed)
      <4>1. t - Len(completed) \in 1..Len(out) /\ gone[t] = out[t - Len(completed)]
        BY <1>8, <3>2
      <4>2. PICK l \in late : gone[t] = tracks[l]
        BY <1>11, <4>1
      <4>3. gone[t].id < next
        BY <1>2, <4>2 DEF Ids
      <4>4. ASSUME NEW s \in 1..Len(active') PROVE active'[s].id # gone[t].id
        <5>1. PICK k \in here : active'[s] = tracks[k]
          BY <1>12
        <5>2. k # l
          BY <1>2, <1>4
        <5> QED BY <1>2, <1>9, <4>2, <5>1, <5>2
      <4> QED BY <4>3, <4>4
    <3> QED BY <1>8, <3>1, <3>2
  <2>4. ASSUME NEW s \in 1..Len(active') PROVE active'[s].id < next
    BY <1>2, <1>12 DEF Ids
  <2> QED BY <2>1, <2>2, <2>3, <2>4 DEF Ids
<1>14. CASE Len(gone) > MaxTracks
  <2> DEFINE cut  == Len(gone) - MaxTracks
             rest == SubSeq(gone, cut + 1, Len(gone))
  <2>1. cut \in Nat /\ Len(gone) \in Nat /\ cut + MaxTracks = Len(gone)
    BY <1>5, <1>8, <1>14
  <2> HIDE DEF cut
  <2>2. \A i \in (cut + 1)..Len(gone) : gone[i] \in Track
    BY <1>8, <2>1, ElementOfSeq
  <2>3. /\ rest \in Seq(Track)
        /\ Len(rest) = IF cut + 1 <= Len(gone) THEN Len(gone) - (cut + 1) + 1 ELSE 0
        /\ \A i \in 1..(Len(gone) - (cut + 1) + 1) : rest[i] = gone[(cut + 1) + i - 1]
    BY SMTT(40), <2>1, <2>2, SubSeqProperties
  <2> HIDE DEF rest
  <2>4. Len(rest) = MaxTracks /\ \A i \in 1..MaxTracks : rest[i] = gone[cut + i]
    BY <1>5, <2>1, <2>3
  <2>5. \A i \in 1..MaxTracks : cut + i \in 1..Len(gone)
    BY <1>5, <2>1
  <2>6. \A i, j \in 1..MaxTracks : i < j => cut + i < cut + j
    BY <1>5, <2>1
  <2>7. Ids(active', rest, next)
    <3>1. \A i, j \in 1..MaxTracks : i < j => rest[i].id # rest[j].id
      BY <1>13, <2>4, <2>5, <2>6 DEF Ids
    <3>2. \A i \in 1..MaxTracks : /\ rest[i].id < next
                                  /\ \A s \in 1..Len(active') : active'[s].id # rest[i].id
      BY <1>13, <2>4, <2>5 DEF Ids
    <3> QED BY <1>13, <2>4, <3>1, <3>2 DEF Ids
  <2>8. completed' = rest
    BY <1>3, <1>14 DEF rest, cut
  <2> QED BY <1>5, <1>6, <1>10, <2>3, <2>4, <2>7, <2>8
<1>15. CASE ~(Len(gone) > MaxTracks)
  <2>1. completed' = gone /\ Len(gone) <= MaxTracks
    BY <1>3, <1>5, <1>8, <1>15
  <2> QED BY <1>6, <1>8, <1>10, <1>13, <2>1
<1> QED BY <1>14, <1>15
-----------------------------------------------------------------------------
LEMMA Levels ==
  ASSUME NEW c, NEW s, NEW d
  PROVE  Classify(c, s, d) \in 1..5
BY DEF Classify

\* More energy, no less of the filter's answer and no shorter a time: no lower
\* a level.  A level that falls had its threshold for the filter's answer.
LEMMA LevelsFall ==
  ASSUME NEW c \in Nat, NEW s \in Nat, NEW d \in Int,
         NEW c2 \in Nat, NEW s2 \in Nat, NEW d2 \in Int, c <= c2, d <= d2,
         Classify(c2, s2, d2) < Classify(c, s, d)
  PROVE  s2 < s /\ Classify(c, s, d) \in {3, 5}
<1>1. /\ Thresholds.cumulative2 \in Nat /\ Thresholds.cumulative3 \in Nat
      /\ Thresholds.cumulative4 \in Nat /\ Thresholds.cumulative5 \in Nat
      /\ Thresholds.instant3 \in Nat /\ Thresholds.instant5 \in Nat
      /\ Thresholds.duration4 \in Nat /\ Thresholds.duration5 \in Nat
  BY ArcTrackerAssumption
<1> QED BY <1>1 DEF Classify

\* u is the track t after one more sighting.
Grows(t, u) ==
  /\ u.id = t.id /\ u.start = t.start /\ u.count = t.count + 1
  /\ u.cumulative >= t.cumulative
  /\ u.severity = Classify(u.cumulative, u.smoothed, u.last - u.start)

LEMMA ExtendedGrows ==
  ASSUME NEW t \in Track, NEW det \in Detections, NEW smoothed \in Nat, NEW pts \in Int
  PROVE  LET u == Extended(t, det, smoothed, pts)
         IN u \in Track /\ Grows(t, u) /\ u.box = det.box /\ u.last = pts
<1> DEFINE u == Extended(t, det, smoothed, pts)
           c == t.cumulative + smoothed
           v == Classify(c, smoothed, pts - t.start)
<1>1. u = [t EXCEPT !.box = det.box, !.last = pts, !.count = @ + 1, !.smoothed = smoothed,
                    !.cumulative = c, !.severity = v]
  BY DEF Extended
<1>2. v \in 1..5
  BY Levels
<1>3. det.box \in Boxes
  BY Overlaps
<1> HIDE DEF v
<1>4. /\ u.id = t.id /\ u.box = det.box /\ u.start = t.start /\ u.last = pts
      /\ u.count = t.count + 1 /\ u.smoothed = smoothed /\ u.cumulative = c /\ u.severity = v
  BY <1>1 DEF Track
<1>5. u \in Track
  <2>1. c \in Nat /\ t.count + 1 \in Nat \ {0} /\ t.id \in Nat \ {0} /\ t.start \in Int
    BY TrackFields
  <2>2. u = [id |-> t.id, box |-> det.box, start |-> t.start, last |-> pts, count |-> t.count + 1,
             smoothed |-> smoothed, cumulative |-> c, severity |-> v]
    BY <1>1 DEF Track
  <2> HIDE DEF u, c
  <2> QED BY <1>2, <1>3, <2>1, <2>2 DEF Track
<1> HIDE DEF u
<1>6. Grows(t, u)
  BY <1>4, TrackFields DEF Grows, v
<1> QED BY <1>4, <1>5, <1>6 DEF u

LEMMA NewTrackFields ==
  ASSUME NEW id \in Nat \ {0}, NEW det \in Detections, NEW pts \in Int
  PROVE  LET u == NewTrack(id, det, pts)
         IN /\ u \in Track /\ u.id = id /\ u.box = det.box /\ u.last = pts
            /\ u.count = 1 /\ u.severity = 1
BY Overlaps DEF NewTrack, Track

\* The tracks after update: by says which detection each was sighted by, if any.
\* Every detection sights one track; a track it does not sight stays as it
\* was; it extends a track or founds one, with the next number, that none of
\* the tracks without a sighting overlaps enough.
Follows(by, tracks, dets, pts) ==
  /\ tracks \in Seq(Track) /\ Len(active) <= Len(tracks)
  /\ by \in [1..Len(tracks) -> 0..Len(dets)]
  /\ \A j, k \in 1..Len(tracks) : by[j] = by[k] /\ by[k] # 0 => j = k
  /\ \A d \in 1..Len(dets) : \E k \in 1..Len(tracks) : by[k] = d
  /\ \A k \in 1..Len(tracks) : by[k] = 0 => k <= Len(active) /\ tracks[k] = active[k]
  /\ \A k \in 1..Len(tracks) : by[k] # 0 =>
       tracks[k].box = dets[by[k]].box /\ tracks[k].last = pts
  /\ \A k \in 1..Len(tracks) : by[k] # 0 /\ k <= Len(active) => Grows(active[k], tracks[k])
  /\ \A k \in 1..Len(tracks) : k > Len(active) =>
       /\ by[k] # 0 /\ tracks[k].id = nextTrackId + (k - Len(active)) - 1
       /\ tracks[k].count = 1 /\ tracks[k].severity = 1
  /\ \A j, k \in 1..Len(tracks) : by[j] = 0 /\ k > Len(active) =>
       Iou(tracks[j].box, tracks[k].box) < IouMatch

LEMMA UpdatedFollows ==
  ASSUME active \in Seq(Track), nextTrackId \in Nat \ {0}, NEW pts \in Int,
         NEW dets \in Seq(Detections), NEW match, Match(match, active, dets),
         NEW smoothed, \A t \in 1..Len(active) : match[t] # 0 => smoothed[t] \in Nat
  PROVE  LET tracks == Updated(active, dets, match, smoothed, pts)
         IN \E by : /\ Follows(by, tracks, dets, pts)
                    /\ {k \in 1..Len(tracks) : by[k] # 0} =
                         {t \in DOMAIN active : match[t] # 0} \cup ((Len(active) + 1)..Len(tracks))
<1> DEFINE n      == Len(active)
           F      == DOMAIN dets \ {match[t] : t \in DOMAIN active}
           fresh  == Sorted(F)
           Old(t) == IF match[t] = 0 THEN active[t]
                     ELSE Extended(active[t], dets[match[t]], smoothed[t], pts)
           New(i) == NewTrack(nextTrackId + i - 1, dets[fresh[i]], pts)
           old    == [t \in 1..n |-> Old(t)]
           new    == [i \in 1..Len(fresh) |-> New(i)]
           tracks == Updated(active, dets, match, smoothed, pts)
           by     == [k \in 1..Len(tracks) |-> IF k <= n THEN match[k] ELSE fresh[k - n]]
<1>1. /\ DOMAIN active = 1..n /\ n \in Nat /\ DOMAIN dets = 1..Len(dets) /\ Len(dets) \in Nat
      /\ \A t \in 1..n : active[t] \in Track
      /\ \A d \in 1..Len(dets) : dets[d] \in Detections
  BY ElementOfSeq, LenProperties
<1>2. /\ match \in [1..n -> 0..Len(dets)]
      /\ \A s, t \in 1..n : s < t /\ match[t] # 0 => match[s] # match[t]
      /\ \A t \in 1..n : \A d \in 1..Len(dets) :
           match[t] = 0 /\ Iou(active[t].box, dets[d].box) >= IouMatch =>
             \E s \in 1..n : match[s] = d
  BY DEF Match
<1>3. F \in SUBSET (1..Len(dets)) /\ \A d \in 1..Len(dets) : d \in F \/ \E t \in 1..n : match[t] = d
  BY <1>1
<1>4. \A d \in F : \A t \in 1..n : match[t] # d
  BY <1>1
<1>5. Lists(fresh, F)
  BY <1>3, SelectSelects
<1> HIDE DEF F
<1>6. /\ fresh \in Seq(F) /\ Len(fresh) \in Nat /\ DOMAIN fresh = 1..Len(fresh)
      /\ \A i \in 1..Len(fresh) : fresh[i] \in F
      /\ \A i, j \in 1..Len(fresh) : i < j => fresh[i] < fresh[j]
      /\ \A d \in F : \E i \in 1..Len(fresh) : fresh[i] = d
  <2>1. fresh \in Seq(F)
    BY <1>5 DEF Lists
  <2> HIDE DEF fresh
  <2> QED BY <1>5, <2>1, ElementOfSeq, LenProperties DEF Lists
<1>7. tracks = old \o new
  BY <1>1, <1>6 DEF Updated, F
<1> HIDE DEF fresh
<1>8. ASSUME NEW t \in 1..n
      PROVE  /\ Old(t) \in Track
             /\ match[t] = 0 => Old(t) = active[t]
             /\ match[t] # 0 => /\ Grows(active[t], Old(t)) /\ Old(t).last = pts
                                /\ Old(t).box = dets[match[t]].box
  <2>1. CASE match[t] = 0
    BY <1>1, <2>1
  <2>2. CASE match[t] # 0
    <3>1. match[t] \in 1..Len(dets)
      BY <1>1, <1>2, <2>2
    <3>2. smoothed[t] \in Nat /\ active[t] \in Track /\ dets[match[t]] \in Detections
      BY <1>1, <2>2, <3>1
    <3>3. Old(t) = Extended(active[t], dets[match[t]], smoothed[t], pts)
      BY <2>2
    <3> DEFINE u == Extended(active[t], dets[match[t]], smoothed[t], pts)
    <3>4. u \in Track /\ Grows(active[t], u) /\ u.box = dets[match[t]].box /\ u.last = pts
      BY <3>2, ExtendedGrows
    <3>5. Old(t) = u
      BY <3>3
    <3> HIDE DEF Old, u
    <3> QED BY <2>2, <3>4, <3>5
  <2> QED BY <2>1, <2>2
<1>9. ASSUME NEW i \in 1..Len(fresh)
      PROVE  /\ New(i) \in Track /\ New(i).id = nextTrackId + i - 1 /\ New(i).last = pts
             /\ New(i).box = dets[fresh[i]].box /\ New(i).count = 1 /\ New(i).severity = 1
  <2>1. nextTrackId + i - 1 \in Nat \ {0}
    BY <1>6
  <2>2. fresh[i] \in 1..Len(dets)
    BY <1>3, <1>6
  <2>3. dets[fresh[i]] \in Detections
    BY <1>1, <2>2
  <2>4. New(i) = NewTrack(nextTrackId + i - 1, dets[fresh[i]], pts)
    OBVIOUS
  <2> HIDE DEF New
  <2> QED BY <2>1, <2>3, <2>4, NewTrackFields
<1> HIDE DEF Old, New, tracks
<1>10. old \in Seq(Track) /\ Len(old) = n /\ \A t \in 1..n : old[t] = Old(t)
  <2>1. old \in [1..n -> Track]
    BY <1>8
  <2> QED BY <1>1, <2>1, SeqDef, LenProperties
<1>11. new \in Seq(Track) /\ Len(new) = Len(fresh) /\ \A i \in 1..Len(fresh) : new[i] = New(i)
  <2>1. new \in [1..Len(fresh) -> Track]
    BY <1>9
  <2> QED BY <1>6, <2>1, SeqDef, LenProperties
<1> HIDE DEF old, new
<1>12. /\ tracks \in Seq(Track) /\ Len(tracks) = n + Len(fresh)
       /\ \A k \in 1..Len(tracks) : tracks[k] = IF k <= n THEN old[k] ELSE new[k - n]
  <2>1. /\ old \o new \in Seq(Track) /\ Len(old \o new) = Len(old) + Len(new)
        /\ \A k \in 1..(Len(old) + Len(new)) :
             (old \o new)[k] = IF k <= Len(old) THEN old[k] ELSE new[k - Len(old)]
    BY <1>10, <1>11, ConcatProperties
  <2> QED BY <1>7, <1>10, <1>11, <2>1
<1>. Len(tracks) \in Nat /\ n \in Nat /\ Len(fresh) \in Nat /\ Len(tracks) = n + Len(fresh)
  BY <1>1, <1>6, <1>12
<1>13. ASSUME NEW k \in 1..Len(tracks), k <= n
       PROVE  k \in 1..n /\ tracks[k] = Old(k) /\ by[k] = match[k]
  <2>1. k \in 1..n
    BY <1>13
  <2> QED BY <1>10, <1>12, <1>13, <2>1
<1>14. ASSUME NEW k \in 1..Len(tracks), k > n
       PROVE  k - n \in 1..Len(fresh) /\ tracks[k] = New(k - n) /\ by[k] = fresh[k - n]
  <2>1. k - n \in 1..Len(fresh) /\ ~(k <= n)
    BY <1>14
  <2> QED BY <1>11, <1>12, <2>1
<1>15. \A i \in 1..Len(fresh) : fresh[i] \in F /\ fresh[i] \in 1..Len(dets) /\ fresh[i] # 0
  <2>1. \A d \in 1..Len(dets) : d # 0
    BY <1>1
  <2> QED BY <1>3, <1>6, <2>1
<1>16. by \in [1..Len(tracks) -> 0..Len(dets)]
  <2>1. ASSUME NEW k \in 1..Len(tracks) PROVE by[k] \in 0..Len(dets)
    <3>1. CASE k <= n
      BY <1>2, <1>13, <3>1
    <3>2. CASE k > n
      <4>1. by[k] \in 1..Len(dets)
        BY <1>14, <1>15, <3>2
      <4> QED BY <1>1, <4>1
    <3> QED BY <3>1, <3>2
  <2> QED BY <2>1
<1> HIDE DEF by
<1>17. ASSUME NEW j \in 1..Len(tracks), NEW k \in 1..Len(tracks), by[j] = by[k], by[k] # 0
       PROVE  j = k
  <2>1. CASE j <= n /\ k <= n
    <3>1. j \in 1..n /\ k \in 1..n /\ match[j] = match[k] /\ match[k] # 0
      BY <1>13, <1>17, <2>1
    <3>2. ~(j < k) /\ ~(k < j)
      BY <1>2, <3>1
    <3> QED BY <3>1, <3>2
  <2>2. CASE j <= n /\ k > n
    <3>1. j \in 1..n /\ by[j] = match[j] /\ by[k] \in F
      BY <1>13, <1>14, <1>15, <2>2
    <3> QED BY <1>4, <1>17, <3>1
  <2>3. CASE j > n /\ k <= n
    <3>1. k \in 1..n /\ by[k] = match[k] /\ by[j] \in F
      BY <1>13, <1>14, <1>15, <2>3
    <3> QED BY <1>4, <1>17, <3>1
  <2>4. CASE j > n /\ k > n
    <3>1. j - n \in 1..Len(fresh) /\ k - n \in 1..Len(fresh) /\ fresh[j - n] = fresh[k - n]
      BY <1>14, <1>17, <2>4
    <3>2. \A p, q \in 1..Len(fresh) : fresh[p] = fresh[q] => p = q
      <4> SUFFICES ASSUME NEW p \in 1..Len(fresh), NEW q \in 1..Len(fresh), fresh[p] = fresh[q]
                   PROVE  p = q
        OBVIOUS
      <4>1. fresh[p] \in Int
        BY <1>15
      <4>2. ~(p < q) /\ ~(q < p)
        BY <1>6, <4>1
      <4> QED BY <4>2
    <3> QED BY <3>1, <3>2
  <2> QED BY <2>1, <2>2, <2>3, <2>4
<1>18. ASSUME NEW d \in 1..Len(dets) PROVE \E k \in 1..Len(tracks) : by[k] = d
  <2>1. CASE d \in F
    <3>1. PICK i \in 1..Len(fresh) : fresh[i] = d
      BY <1>6, <2>1
    <3>2. n + i \in 1..Len(tracks) /\ n + i > n /\ (n + i) - n = i
      OBVIOUS
    <3> QED BY <1>14, <3>1, <3>2
  <2>2. CASE d \notin F
    <3>1. PICK t \in 1..n : match[t] = d
      BY <1>3, <2>2
    <3>2. t \in 1..Len(tracks) /\ t <= n
      OBVIOUS
    <3> QED BY <1>13, <3>1, <3>2
  <2> QED BY <2>1, <2>2
<1>19. ASSUME NEW k \in 1..Len(tracks), by[k] = 0 PROVE k <= n /\ tracks[k] = active[k]
  <2>1. ~(k > n)
    BY <1>14, <1>15, <1>19
  <2> QED BY <1>8, <1>13, <1>19, <2>1
<1>20. ASSUME NEW k \in 1..Len(tracks), by[k] # 0
       PROVE  tracks[k].box = dets[by[k]].box /\ tracks[k].last = pts
  <2>1. CASE k <= n
    BY <1>8, <1>13, <1>20, <2>1
  <2>2. CASE k > n
    BY <1>9, <1>14, <2>2
  <2> QED BY <2>1, <2>2
<1>21. ASSUME NEW k \in 1..Len(tracks), by[k] # 0, k <= n PROVE Grows(active[k], tracks[k])
  BY <1>8, <1>13, <1>21
<1>22. ASSUME NEW k \in 1..Len(tracks), k > n
       PROVE  /\ by[k] # 0 /\ tracks[k].id = nextTrackId + (k - n) - 1
              /\ tracks[k].count = 1 /\ tracks[k].severity = 1
  BY <1>9, <1>14, <1>15, <1>22
<1>23. ASSUME NEW j \in 1..Len(tracks), NEW k \in 1..Len(tracks), by[j] = 0, k > n
       PROVE  Iou(tracks[j].box, tracks[k].box) < IouMatch
  <2>1. j \in 1..n /\ match[j] = 0 /\ tracks[j] = active[j]
    BY <1>8, <1>13, <1>19, <1>23
  <2>2. by[k] \in F /\ by[k] \in 1..Len(dets) /\ tracks[k].box = dets[by[k]].box
    BY <1>14, <1>15, <1>20, <1>22, <1>23
  <2>3. ~(Iou(active[j].box, dets[by[k]].box) >= IouMatch)
    BY <1>2, <1>4, <2>1, <2>2
  <2>4. active[j].box \in Boxes /\ dets[by[k]].box \in Boxes
    BY <1>1, <2>1, <2>2, TrackFields, Overlaps
  <2> QED BY <2>1, <2>2, <2>3, <2>4, Overlaps
<1>24. Follows(by, tracks, dets, pts)
  <2> HIDE DEF F, fresh
  <2>1. tracks \in Seq(Track) /\ n <= Len(tracks)
    BY <1>12
  <2> QED BY <1>16, <1>17, <1>18, <1>19, <1>20, <1>21, <1>22, <1>23, <2>1, Zenon DEF Follows
<1>25. {k \in 1..Len(tracks) : by[k] # 0} = {t \in 1..n : match[t] # 0} \cup ((n + 1)..Len(tracks))
  <2>1. ASSUME NEW k \in 1..Len(tracks) PROVE by[k] # 0 <=> (k <= n /\ match[k] # 0) \/ k > n
    BY <1>13, <1>22
  <2>2. \A k \in 1..Len(tracks) : k > n <=> k \in (n + 1)..Len(tracks)
    OBVIOUS
  <2>3. \A k \in 1..Len(tracks) : k <= n <=> k \in 1..n
    OBVIOUS
  <2>4. 1..n \in SUBSET (1..Len(tracks)) /\ ((n + 1)..Len(tracks)) \in SUBSET (1..Len(tracks))
    OBVIOUS
  <2> QED BY <2>1, <2>2, <2>3, <2>4
<1> QED BY <1>1, <1>24, <1>25 DEF tracks
-----------------------------------------------------------------------------
\* A call of detect, by the tracks it has before some expire.
Steps(by, tracks, dets, pts) ==
  /\ Follows(by, tracks, dets, pts)
  /\ ExpireOldTracks(tracks, pts)
  /\ nextTrackId' = nextTrackId + Len(tracks) - Len(active)
  /\ events' = [i \in 1..Len(dets) |->
                  Event(dets[i], tracks, {k \in 1..Len(tracks) : by[k] # 0})]
  /\ lastPts' = pts /\ frames' = frames + 1

\* dets are what suppression leaves.
Suppressed(dets) ==
  /\ dets \in Seq(Detections)
  /\ \A i, j \in 1..Len(dets) : i # j => Iou(dets[i].box, dets[j].box) <= NmsThresh

LEMMA DetectSteps ==
  ASSUME active \in Seq(Track), nextTrackId \in Nat \ {0}, NEW pts \in Int,
         NEW m \in Nat, NEW raw \in [1..m -> Detections], Detect(pts, raw)
  PROVE  \E dets, tracks, by : Suppressed(dets) /\ Steps(by, tracks, dets, pts)
<1> DEFINE dets  == Nms(raw)
           match == Matching(active, dets)
           hit   == {t \in DOMAIN active : match[t] # 0}
<1>1. Suppressed(dets)
  BY NmsFacts DEF Suppressed
<1>2. DOMAIN active = 1..Len(active) /\ DOMAIN dets = 1..Len(dets)
  BY <1>1, LenProperties DEF Suppressed
<1>3. Match(match, active, dets)
  BY <1>1, TrackFields, MatchingMatches DEF Suppressed
<1>4. PICK smoothed :
        LET tracks   == Updated(active, dets, match, smoothed, pts)
            reported == hit \cup ((Len(active) + 1)..Len(tracks))
        IN /\ \A t \in hit : smoothed[t] \in Between(active[t].smoothed, dets[match[t]].energy)
           /\ ExpireOldTracks(tracks, pts)
           /\ nextTrackId' = nextTrackId + Len(tracks) - Len(active)
           /\ events' = [i \in DOMAIN dets |-> Event(dets[i], tracks, reported)]
           /\ Tick(pts)
  BY Zenon DEF Detect
<1> DEFINE tracks == Updated(active, dets, match, smoothed, pts)
<1>5. \A t \in hit : smoothed[t] \in Between(active[t].smoothed, dets[match[t]].energy)
  BY <1>4
<1>6. /\ ExpireOldTracks(tracks, pts)
      /\ nextTrackId' = nextTrackId + Len(tracks) - Len(active)
      /\ events' = [i \in DOMAIN dets |->
                      Event(dets[i], tracks, hit \cup ((Len(active) + 1)..Len(tracks)))]
      /\ Tick(pts)
  BY <1>4
<1>7. ASSUME NEW t \in 1..Len(active), match[t] # 0 PROVE smoothed[t] \in Nat
  <2>1. t \in hit
    BY <1>2, <1>7
  <2> HIDE DEF dets, match, hit
  <2>2. match[t] \in 1..Len(dets)
    BY <1>1, <1>3, <1>7, LenProperties DEF Match, Suppressed
  <2>3. dets[match[t]].energy \in Nat
    BY <1>1, <2>2, ElementOfSeq, Overlaps DEF Suppressed
  <2>4. active[t].smoothed \in Nat
    BY ElementOfSeq, TrackFields
  <2>5. smoothed[t] \in Between(active[t].smoothed, dets[match[t]].energy)
    BY <1>5, <2>1
  <2> QED BY <2>3, <2>4, <2>5 DEF Between
<1>8. PICK by : /\ Follows(by, tracks, dets, pts)
                /\ {k \in 1..Len(tracks) : by[k] # 0} =
                     hit \cup ((Len(active) + 1)..Len(tracks))
  <2> HIDE DEF dets, match
  <2> QED BY <1>1, <1>3, <1>7, UpdatedFollows DEF Suppressed
<1> HIDE DEF tracks, dets, hit
<1>9. Steps(by, tracks, dets, pts)
  BY <1>2, <1>6, <1>8 DEF Steps, Tick
<1> QED BY <1>1, <1>9

\* The new tracks have numbers of their own.
LEMMA FollowsIds ==
  ASSUME active \in Seq(Track), nextTrackId \in Nat \ {0}, completed \in Seq(Track),
         Ids(active, completed, nextTrackId),
         NEW by, NEW tracks, NEW dets, NEW pts, Follows(by, tracks, dets, pts)
  PROVE  /\ Ids(tracks, completed, nextTrackId + Len(tracks) - Len(active))
         /\ \A k \in 1..Len(tracks) : k <= Len(active) =>
              k \in 1..Len(active) /\ tracks[k].id = active[k].id
<1> DEFINE n    == Len(active)
           next == nextTrackId + Len(tracks) - n
<1>1. n \in Nat /\ Len(tracks) \in Nat /\ tracks \in Seq(Track) /\ n <= Len(tracks)
  BY LenProperties DEF Follows
<1>2. ASSUME NEW k \in 1..Len(tracks), k <= n PROVE k \in 1..n /\ tracks[k].id = active[k].id
  <2>1. k \in 1..n
    BY <1>1, <1>2
  <2>2. CASE by[k] = 0
    BY <2>1, <2>2 DEF Follows
  <2>3. CASE by[k] # 0
    BY <1>2, <2>1, <2>3 DEF Follows, Grows
  <2> QED BY <2>1, <2>2, <2>3
<1>3. \A k \in 1..Len(tracks) : k > n => tracks[k].id = nextTrackId + (k - n) - 1
  BY DEF Follows
<1> HIDE DEF n, next
<1>4. \A t \in 1..n : active[t].id \in Nat /\ active[t].id < nextTrackId
  BY ElementOfSeq, TrackFields DEF Ids, n
<1>5. \A t \in 1..Len(completed) : completed[t].id \in Nat /\ completed[t].id < nextTrackId
  BY ElementOfSeq, TrackFields DEF Ids
<1>6. next \in Nat /\ nextTrackId <= next /\ next = nextTrackId + Len(tracks) - n
  BY <1>1 DEF next
<1>7. ASSUME NEW s \in 1..Len(tracks), NEW t \in 1..Len(tracks), s < t
      PROVE  tracks[s].id < tracks[t].id
  <2>1. CASE t <= n
    <3>1. s \in 1..n /\ t \in 1..n
      BY <1>1, <1>7, <2>1
    <3>2. active[s].id < active[t].id
      BY <1>7, <3>1 DEF Ids, n
    <3>3. tracks[s].id = active[s].id /\ tracks[t].id = active[t].id
      BY <1>1, <1>2, <1>7, <2>1
    <3> QED BY <3>2, <3>3
  <2>2. CASE s <= n /\ t > n
    <3>1. tracks[s].id \in Nat /\ tracks[s].id < nextTrackId
      BY <1>2, <1>4, <2>2
    <3>2. tracks[t].id = nextTrackId + (t - n) - 1
      BY <1>3, <2>2
    <3> QED BY <1>1, <2>2, <3>1, <3>2
  <2>3. CASE s > n
    BY <1>1, <1>3, <1>7, <2>3
  <2> QED BY <1>1, <2>1, <2>2, <2>3
<1>8. ASSUME NEW s \in 1..Len(tracks)
      PROVE  /\ tracks[s].id < next
             /\ \A t \in 1..Len(completed) : tracks[s].id # completed[t].id
  <2>1. CASE s <= n
    <3>1. s \in 1..n /\ tracks[s].id = active[s].id
      BY <1>2, <2>1
    <3> QED BY <1>4, <1>6, <3>1 DEF Ids, n
  <2>2. CASE s > n
    <3>1. tracks[s].id = nextTrackId + (s - n) - 1
      BY <1>3, <2>2
    <3> QED BY <1>1, <1>5, <1>6, <2>2, <3>1
  <2> QED BY <1>1, <2>1, <2>2
<1>9. \A t \in 1..Len(completed) : completed[t].id < next
  BY <1>5, <1>6
<1>10. Ids(tracks, completed, next)
  BY <1>7, <1>8, <1>9 DEF Ids
<1> QED BY <1>2, <1>10 DEF n, next
-----------------------------------------------------------------------------
\* The event of the i-th detection is that of the track it sights, unless it
\* has no area.
OwnEvent(e, i, by, tracks, dets) ==
  /\ e \in [box : Boxes, track : Nat, severity : 1..5, cumulative : Nat]
  /\ e.box = dets[i].box
  /\ Iou(e.box, e.box) = 0 => e.track = 0
  /\ Iou(e.box, e.box) # 0 => \E k \in 1..Len(tracks) :
       /\ by[k] = i
       /\ e.track = tracks[k].id /\ e.severity = tracks[k].severity
       /\ e.cumulative = tracks[k].cumulative

LEMMA EventIsOwn ==
  ASSUME NEW dets, Suppressed(dets), NEW by, NEW tracks, NEW pts,
         Follows(by, tracks, dets, pts), NEW i \in 1..Len(dets)
  PROVE  OwnEvent(Event(dets[i], tracks, {k \in 1..Len(tracks) : by[k] # 0}), i, by, tracks, dets)
<1> DEFINE det      == dets[i]
           reported == {k \in 1..Len(tracks) : by[k] # 0}
           found    == Associated(det, tracks, reported)
           first    == CHOOSE t \in found : \A s \in found : t <= s
           e        == Event(det, tracks, reported)
<1>1. /\ det.box \in Boxes /\ det.energy \in Nat /\ Len(dets) \in Nat
      /\ \A d \in 1..Len(dets) : dets[d].box \in Boxes
  BY ElementOfSeq, LenProperties, Overlaps DEF Suppressed
<1>2. \A k \in 1..Len(tracks) : tracks[k] \in Track
  BY ElementOfSeq DEF Follows
<1>3. \A k \in reported : /\ by[k] \in 1..Len(dets) /\ tracks[k].box = dets[by[k]].box
                          /\ k \in 1..Len(tracks)
  BY <1>1 DEF Follows
<1>4. e = IF found = {}
          THEN [box |-> det.box, track |-> 0, severity |-> 1, cumulative |-> 30 * det.energy]
          ELSE [box |-> det.box, track |-> tracks[first].id, severity |-> tracks[first].severity,
                cumulative |-> tracks[first].cumulative]
  BY Zenon DEF Event
<1>5. \A k \in reported : k \in found <=> Iou(det.box, tracks[k].box) > IouAssociate
  BY DEF Associated
<1>6. found \in SUBSET reported
  BY DEF Associated
<1>7. \A d \in 1..Len(dets) : d # i => Iou(det.box, dets[d].box) <= NmsThresh
  BY DEF Suppressed
<1>8. Len(tracks) \in Nat
  BY LenProperties DEF Follows
<1> HIDE DEF det, reported, found, e
<1>9. CASE Iou(det.box, det.box) = 0
  <2>1. ASSUME NEW k \in found PROVE FALSE
    <3>1. k \in reported /\ Iou(det.box, tracks[k].box) > IouAssociate
      BY <1>5, <1>6
    <3>2. tracks[k].box \in Boxes
      BY <1>2, <1>3, <3>1, TrackFields
    <3>3. Iou(det.box, tracks[k].box) \in Int /\ Iou(det.box, tracks[k].box) > 0
      BY <1>1, <3>1, <3>2, Overlaps
    <3>4. Iou(det.box, det.box) = 1000
      BY <1>1, <3>2, <3>3, Overlaps
    <3> QED BY <1>9, <3>4
  <2>2. e = [box |-> det.box, track |-> 0, severity |-> 1, cumulative |-> 30 * det.energy]
    BY <1>4, <2>1
  <2>3. 30 * det.energy \in Nat
    BY <1>1
  <2>4. e \in [box : Boxes, track : Nat, severity : 1..5, cumulative : Nat] /\ e.box = det.box
    BY <1>1, <2>2, <2>3
  <2>5. e.track = 0
    BY <2>2
  <2>6. ~(Iou(e.box, e.box) # 0)
    BY <1>9, <2>4
  <2> QED BY <2>4, <2>5, <2>6 DEF OwnEvent, e, det, reported
<1>10. CASE Iou(det.box, det.box) # 0
  <2>1. Iou(det.box, det.box) > IouAssociate
    BY <1>1, <1>10, Overlaps
  <2>2. PICK k \in 1..Len(tracks) : by[k] = i
    BY DEF Follows
  <2>3. k \in reported /\ tracks[k].box = det.box
    <3>1. k \in reported
      BY <1>1, <2>2 DEF reported
    <3> QED BY <1>3, <2>2, <3>1 DEF det
  <2>4. k \in found
    BY <1>5, <2>1, <2>3
  <2>5. ASSUME NEW s \in found PROVE s = k
    <3>1. s \in reported /\ Iou(det.box, tracks[s].box) > IouAssociate
      BY <1>5, <1>6
    <3>2. by[s] \in 1..Len(dets) /\ tracks[s].box = dets[by[s]].box
      BY <1>3, <3>1
    <3>3. Iou(det.box, dets[by[s]].box) \in Int
      BY <1>1, <3>2, Overlaps
    <3>4. by[s] = i
      BY <1>7, <3>1, <3>2, <3>3, Overlaps
    <3>5. i # 0 /\ s \in 1..Len(tracks) /\ by[s] = by[k]
      BY <1>1, <1>3, <2>2, <3>1, <3>4
    <3> QED BY <2>2, <3>5 DEF Follows
  <2>6. found = {k}
    BY <2>4, <2>5
  <2>7. first = k
    BY <2>6
  <2>8. e = [box |-> det.box, track |-> tracks[k].id, severity |-> tracks[k].severity,
             cumulative |-> tracks[k].cumulative]
    BY <1>4, <2>6, <2>7
  <2>9. e \in [box : Boxes, track : Nat, severity : 1..5, cumulative : Nat]
    BY <1>1, <1>2, <2>8, TrackFields
  <2>10. /\ e.box = det.box /\ e.track = tracks[k].id /\ e.severity = tracks[k].severity
         /\ e.cumulative = tracks[k].cumulative
    BY <2>8
  <2>11. ~(Iou(e.box, e.box) = 0)
    BY <1>10, <2>10
  <2> QED BY <2>2, <2>9, <2>10, <2>11 DEF OwnEvent, e, det, reported
<1> QED BY <1>9, <1>10
-----------------------------------------------------------------------------
\* The severity of a track is what its last sighting was classified as.
Classified(tracks) ==
  \A t \in 1..Len(tracks) :
    \/ tracks[t].severity = 1
    \/ tracks[t].severity =
         Classify(tracks[t].cumulative, tracks[t].smoothed, tracks[t].last - tracks[t].start)

\* The inductive invariant.  Ids is IdsUnique list by list, as expiry and
\* update handle them; SeverityFalls rests on Classified.
IInv ==
  /\ TypeOK
  /\ Ids(active, completed, nextTrackId)
  /\ Classified(active)
  /\ RecentlySeen
  /\ EventsOwnTrack

LEMMA NoRoiSteps ==
  ASSUME active \in Seq(Track), nextTrackId \in Nat \ {0}, NEW pts \in Int, DetectNoRoi(pts)
  PROVE  \E dets, tracks, by : Suppressed(dets) /\ Steps(by, tracks, dets, pts)
<1> DEFINE by   == [k \in 1..Len(active) |-> 0]
           dets == << >>
<1>1. dets \in Seq(Detections) /\ Len(dets) = 0 /\ Suppressed(dets)
  BY DEF Suppressed
<1>2. Len(active) \in Nat
  BY LenProperties
<1>3. \A k \in 1..Len(active) : by[k] = 0 /\ k <= Len(active)
  BY <1>2
<1> HIDE DEF dets
<1>4. by \in [1..Len(active) -> 0..Len(dets)]
  BY <1>1
<1> HIDE DEF by
<1>5. Follows(by, active, dets, pts)
  BY <1>1, <1>2, <1>3, <1>4 DEF Follows
<1>6. events' = [i \in 1..Len(dets) |->
                   Event(dets[i], active, {k \in 1..Len(active) : by[k] # 0})]
  BY <1>1 DEF DetectNoRoi
<1>7. nextTrackId' = nextTrackId + Len(active) - Len(active)
  BY <1>2 DEF DetectNoRoi
<1>8. Steps(by, active, dets, pts)
  BY <1>5, <1>6, <1>7 DEF Steps, DetectNoRoi, Tick
<1> QED BY <1>1, <1>8

\* Every call of detect is a step of the tracks.
LEMMA NextSteps ==
  ASSUME active \in Seq(Track), nextTrackId \in Nat \ {0}, lastPts \in Int, Next
  PROVE  \E pts \in Int : \E dets, tracks, by :
           Suppressed(dets) /\ Steps(by, tracks, dets, pts)
<1>1. PICK step \in PtsSteps :
        \/ DetectNoRoi(lastPts + step)
        \/ \E m \in 0..MaxRaw : \E raw \in [1..m -> Detections] : Detect(lastPts + step, raw)
  BY Zenon DEF Next
<1>2. lastPts + step \in Int
  BY ArcTrackerAssumption
<1> DEFINE pts == lastPts + step
<1> HIDE DEF pts
<1>3. CASE DetectNoRoi(pts)
  BY <1>2, <1>3, NoRoiSteps DEF pts
<1>4. CASE \E m \in 0..MaxRaw : \E raw \in [1..m -> Detections] : Detect(pts, raw)
  <2>1. PICK m \in 0..MaxRaw : \E raw \in [1..m -> Detections] : Detect(pts, raw)
    BY <1>4
  <2>2. PICK raw \in [1..m -> Detections] : Detect(pts, raw)
    BY <2>1
  <2>3. m \in Nat /\ pts \in Int
    BY <1>2, ArcTrackerAssumption DEF pts
  <2> QED BY <2>2, <2>3, DetectSteps
<1> QED BY <1>1, <1>3, <1>4 DEF pts

LEMMA FollowsClassified ==
  ASSUME Classified(active), active \in Seq(Track), NEW by, NEW tracks, NEW dets, NEW pts,
         Follows(by, tracks, dets, pts)
  PROVE  Classified(tracks)
<1> SUFFICES ASSUME NEW k \in 1..Len(tracks)
             PROVE  \/ tracks[k].severity = 1
                    \/ tracks[k].severity =
                         Classify(tracks[k].cumulative, tracks[k].smoothed,
                                  tracks[k].last - tracks[k].start)
  BY DEF Classified
<1>1. Len(active) \in Nat /\ Len(tracks) \in Nat
  BY LenProperties DEF Follows
<1>2. CASE by[k] = 0
  <2>1. k \in 1..Len(active) /\ tracks[k] = active[k]
    BY <1>1, <1>2 DEF Follows
  <2> QED BY <2>1 DEF Classified
<1>3. CASE by[k] # 0 /\ k <= Len(active)
  BY <1>3 DEF Follows, Grows
<1>4. CASE k > Len(active)
  BY <1>4 DEF Follows
<1> QED BY <1>1, <1>2, <1>3, <1>4

LEMMA StepKeeps ==
  ASSUME IInv, NEW pts \in Int, NEW dets, NEW tracks, NEW by, Suppressed(dets),
         Steps(by, tracks, dets, pts)
  PROVE  IInv'
<1> DEFINE next == nextTrackId + Len(tracks) - Len(active)
           E    == [box : Boxes, track : Nat, severity : 1..5, cumulative : Nat]
<1>1. /\ active \in Seq(Track) /\ completed \in Seq(Track) /\ nextTrackId \in Nat \ {0}
      /\ frames \in Nat /\ Ids(active, completed, nextTrackId) /\ Classified(active)
  BY DEF IInv, TypeOK
<1>2. /\ Follows(by, tracks, dets, pts) /\ tracks \in Seq(Track)
      /\ ExpireOldTracks(tracks, pts) /\ nextTrackId' = next
      /\ lastPts' = pts /\ frames' = frames + 1
  BY DEF Steps, Follows
<1>3. Len(dets) \in Nat /\ Len(tracks) \in Nat /\ Len(active) \in Nat
  BY <1>1, <1>2, LenProperties DEF Suppressed
<1>4. /\ \A i \in 1..Len(dets) : OwnEvent(events'[i], i, by, tracks, dets)
      /\ DOMAIN events' = 1..Len(dets)
      /\ events' = [i \in 1..Len(dets) |-> events'[i]]
  <2>1. events' = [i \in 1..Len(dets) |->
                     Event(dets[i], tracks, {k \in 1..Len(tracks) : by[k] # 0})]
    BY DEF Steps
  <2> QED BY <1>2, <2>1, EventIsOwn
<1>5. Ids(tracks, completed, next)
  BY <1>1, <1>2, FollowsIds
<1>6. Classified(tracks)
  BY <1>1, <1>2, FollowsClassified
<1>7. next \in Nat \ {0}
  BY <1>1, <1>2, <1>3 DEF Follows
<1> HIDE DEF next, E
<1>8. /\ active' \in Seq(Track) /\ completed' \in Seq(Track) /\ Len(completed') <= MaxTracks
      /\ Ids(active', completed', next) /\ Kept(active', tracks, pts)
  BY <1>1, <1>2, <1>5, Expiry
<1>9. TypeOK'
  <2>1. events' \in Seq(E)
    <3>1. events' \in [1..Len(dets) -> E]
      BY <1>4 DEF OwnEvent, E
    <3> QED BY <1>3, <3>1, SeqDef
  <2> QED BY <1>1, <1>2, <1>7, <1>8, <2>1 DEF TypeOK, E
<1>10. Classified(active)'
  BY <1>6, <1>8 DEF Classified, Kept
<1>11. DOMAIN active' = 1..Len(active')
  BY <1>8, LenProperties
<1>12. RecentlySeen'
  BY <1>2, <1>8, <1>11 DEF RecentlySeen, Kept
<1>13. \A k \in 1..Len(tracks) : tracks[k].last \in Int /\ tracks[k].id \in Nat
  BY <1>2, ElementOfSeq, TrackFields
<1>14. EventsOwnTrack'
  <2>1. ASSUME NEW i \in 1..Len(dets)
        PROVE  IF Iou(events'[i].box, events'[i].box) = 0 THEN events'[i].track = 0
               ELSE \E t \in 1..Len(active') :
                      /\ active'[t].id = events'[i].track
                      /\ active'[t].box = events'[i].box
                      /\ active'[t].last = lastPts'
                      /\ active'[t].severity = events'[i].severity
                      /\ active'[t].cumulative = events'[i].cumulative
    <3>1. CASE Iou(events'[i].box, events'[i].box) = 0
      BY <1>4, <3>1 DEF OwnEvent
    <3>2. CASE Iou(events'[i].box, events'[i].box) # 0
      <4>1. PICK k \in 1..Len(tracks) :
              /\ by[k] = i
              /\ events'[i].track = tracks[k].id /\ events'[i].severity = tracks[k].severity
              /\ events'[i].cumulative = tracks[k].cumulative
        BY <1>4, <3>2 DEF OwnEvent
      <4>2. by[k] # 0
        BY <1>3, <4>1
      <4>3. tracks[k].box = dets[i].box /\ tracks[k].last = pts
        BY <1>2, <4>1, <4>2 DEF Follows
      <4>4. events'[i].box = dets[i].box
        BY <1>4 DEF OwnEvent
      <4>5. pts - tracks[k].last <= MaxGap
        BY <4>3, ArcTrackerAssumption
      <4>6. PICK t \in 1..Len(active') : active'[t] = tracks[k]
        BY <1>8, <4>5 DEF Kept
      <4> QED BY <1>2, <3>2, <4>1, <4>3, <4>4, <4>6
    <3> QED BY <3>1, <3>2
  <2>2. ASSUME NEW i \in 1..Len(dets), NEW j \in 1..Len(dets), i # j, events'[i].track # 0
        PROVE  events'[i].track # events'[j].track
    <3>1. PICK k \in 1..Len(tracks) : by[k] = i /\ events'[i].track = tracks[k].id
      BY <1>4, <2>2 DEF OwnEvent
    <3>2. CASE Iou(events'[j].box, events'[j].box) = 0
      BY <1>4, <2>2, <3>2 DEF OwnEvent
    <3>3. CASE Iou(events'[j].box, events'[j].box) # 0
      <4>1. PICK l \in 1..Len(tracks) : by[l] = j /\ events'[j].track = tracks[l].id
        BY <1>4, <3>3 DEF OwnEvent
      <4>2. k < l \/ l < k
        BY <1>3, <2>2, <3>1, <4>1
      <4>3. tracks[k].id < tracks[l].id \/ tracks[l].id < tracks[k].id
        BY <1>5, <4>2 DEF Ids
      <4> QED BY <1>13, <3>1, <4>1, <4>3
    <3> QED BY <3>2, <3>3
  <2> QED BY <1>4, <1>11, <2>1, <2>2 DEF EventsOwnTrack
<1> QED BY <1>2, <1>8, <1>9, <1>10, <1>12, <1>14 DEF IInv

\* A level falls only with the answer of the filter (see SeverityFalls).
LEMMA StepSeverity ==
  ASSUME IInv, NEW pts \in Int, NEW dets, NEW tracks, NEW by, Suppressed(dets),
         Steps(by, tracks, dets, pts),
         NEW t \in DOMAIN active, NEW u \in DOMAIN active', active[t].id = active'[u].id,
         active'[u].severity < active[t].severity, active'[u].last >= active[t].last
  PROVE  active'[u].smoothed < active[t].smoothed /\ active[t].severity \in {3, 5}
<1> DEFINE old == active[t]
           new == active'[u]
<1>1. /\ active \in Seq(Track) /\ completed \in Seq(Track) /\ nextTrackId \in Nat \ {0}
      /\ Ids(active, completed, nextTrackId) /\ Classified(active)
  BY DEF IInv, TypeOK
<1>2. Follows(by, tracks, dets, pts) /\ tracks \in Seq(Track) /\ ExpireOldTracks(tracks, pts)
  BY DEF Steps, Follows
<1>3. /\ Ids(tracks, completed, nextTrackId + Len(tracks) - Len(active))
      /\ \A k \in 1..Len(tracks) : k <= Len(active) =>
           k \in 1..Len(active) /\ tracks[k].id = active[k].id
  BY <1>1, <1>2, FollowsIds
<1>4. active' \in Seq(Track) /\ Kept(active', tracks, pts)
  BY <1>1, <1>2, <1>3, Expiry
<1>5. t \in 1..Len(active) /\ u \in 1..Len(active') /\ Len(active) \in Nat
  BY <1>1, <1>4, LenProperties
<1>6. old \in Track /\ new \in Track
  BY <1>1, <1>4, <1>5, ElementOfSeq
<1>7. PICK k \in 1..Len(tracks) : new = tracks[k]
  BY <1>4, <1>5 DEF Kept
<1>8. old.id < nextTrackId /\ old.id \in Nat
  BY <1>1, <1>5, <1>6, TrackFields DEF Ids
<1> HIDE DEF old, new
<1>9. k <= Len(active)
  <2> SUFFICES ASSUME k > Len(active) PROVE FALSE
    BY <1>5
  <2>1. tracks[k].id = nextTrackId + (k - Len(active)) - 1
    BY <1>2 DEF Follows
  <2> QED BY <1>1, <1>5, <1>7, <1>8, <2>1 DEF old, new
<1>10. k = t
  <2> SUFFICES ASSUME k # t PROVE FALSE
    OBVIOUS
  <2>1. k \in 1..Len(active) /\ active[k].id = old.id
    BY <1>3, <1>7, <1>9 DEF old, new
  <2>2. k < t \/ t < k
    BY <1>5, <2>1
  <2>3. active[k].id < active[t].id \/ active[t].id < active[k].id
    BY <1>1, <1>5, <2>1, <2>2 DEF Ids
  <2> QED BY <1>8, <2>1, <2>3 DEF old
<1>11. new.severity < old.severity /\ new.last >= old.last
  BY DEF old, new
<1>. old.severity \in Int /\ new.severity \in Int /\ new.severity >= 1
  <2>1. old.severity \in 1..5 /\ new.severity \in 1..5
    BY <1>6, TrackFields, Zenon
  <2> QED BY <2>1
<1>12. by[k] # 0
  <2> SUFFICES ASSUME by[k] = 0 PROVE FALSE
    OBVIOUS
  <2>1. new = old
    BY <1>2, <1>7, <1>10 DEF Follows, old
  <2> QED BY <1>11, <2>1
<1>13. Grows(old, new)
  BY <1>2, <1>7, <1>9, <1>10, <1>12 DEF Follows, old
<1>14. old.severity # 1
  BY <1>11
<1>15. old.severity = Classify(old.cumulative, old.smoothed, old.last - old.start)
  BY <1>1, <1>5, <1>14 DEF Classified, old
<1>16. new.severity = Classify(new.cumulative, new.smoothed, new.last - new.start)
       /\ new.cumulative >= old.cumulative /\ new.start = old.start
  BY <1>13 DEF Grows
<1>17. /\ old.cumulative \in Nat /\ old.smoothed \in Nat /\ old.last \in Int /\ old.start \in Int
       /\ new.cumulative \in Nat /\ new.smoothed \in Nat /\ new.last \in Int
  BY <1>6, TrackFields
<1>18. /\ old.last - old.start \in Int /\ new.last - new.start \in Int
       /\ old.last - old.start <= new.last - new.start
       /\ old.cumulative <= new.cumulative
  <2> DEFINE a == old.last
             b == new.last
             c == old.start
  <2>1. /\ a \in Int /\ b \in Int /\ c \in Int /\ a <= b /\ new.start = c
        /\ old.cumulative <= new.cumulative
    BY <1>11, <1>16, <1>17
  <2> HIDE DEF a, b, c
  <2>2. a - c \in Int /\ b - c \in Int /\ a - c <= b - c
    BY <2>1
  <2> QED BY <2>1, <2>2 DEF a, b, c
<1>19. Classify(new.cumulative, new.smoothed, new.last - new.start)
         < Classify(old.cumulative, old.smoothed, old.last - old.start)
  BY <1>11, <1>15, <1>16
<1>20. new.smoothed < old.smoothed /\ old.severity \in {3, 5}
  BY <1>15, <1>17, <1>18, <1>19, LevelsFall
<1> QED BY <1>20 DEF old, new

\* What OneTrackEach says of a step.
Each ==
  LET Sightings(id) == IF \E t \in DOMAIN active : active[t].id = id
                       THEN (CHOOSE t \in Range(active) : t.id = id).count ELSE 0
      sighted == {t \in Range(active') : t.count # Sightings(t.id)}
  IN /\ Cardinality(sighted) = Len(events')
     /\ \A t \in sighted : t.count = Sightings(t.id) + 1 /\ t.last = lastPts'
     /\ Range(active') \ sighted \subseteq Range(active)
     /\ \A new \in sighted, old \in Range(active') \ sighted :
          new.id >= nextTrackId => Iou(old.box, new.box) < IouMatch

LEMMA StepEach ==
  ASSUME IInv, NEW pts \in Int, NEW dets, NEW tracks, NEW by, Suppressed(dets),
         Steps(by, tracks, dets, pts)
  PROVE  Each
<1> DEFINE Sightings(id) == IF \E t \in DOMAIN active : active[t].id = id
                            THEN (CHOOSE t \in Range(active) : t.id = id).count ELSE 0
           sighted  == {t \in Range(active') : t.count # Sightings(t.id)}
           reported == {k \in 1..Len(tracks) : by[k] # 0}
           n        == Len(active)
<1>1. /\ active \in Seq(Track) /\ completed \in Seq(Track) /\ nextTrackId \in Nat \ {0}
      /\ Ids(active, completed, nextTrackId)
  BY DEF IInv, TypeOK
<1>2. /\ Follows(by, tracks, dets, pts) /\ tracks \in Seq(Track)
      /\ ExpireOldTracks(tracks, pts) /\ lastPts' = pts
  BY DEF Steps, Follows
<1>3. /\ Ids(tracks, completed, nextTrackId + Len(tracks) - n)
      /\ \A k \in 1..Len(tracks) : k <= n => k \in 1..n /\ tracks[k].id = active[k].id
  BY <1>1, <1>2, FollowsIds
<1>4. active' \in Seq(Track) /\ Kept(active', tracks, pts)
  BY <1>1, <1>2, <1>3, Expiry
<1>5. /\ DOMAIN active = 1..n /\ n \in Nat /\ Len(tracks) \in Nat
      /\ DOMAIN active' = 1..Len(active') /\ Len(dets) \in Nat
  BY <1>1, <1>2, <1>4, LenProperties DEF Suppressed
<1>6. Len(events') = Len(dets)
  <2>1. events' = [i \in 1..Len(dets) |->
                     Event(dets[i], tracks, {k \in 1..Len(tracks) : by[k] # 0})]
    BY DEF Steps
  <2>2. \A i \in 1..Len(dets) : OwnEvent(events'[i], i, by, tracks, dets)
    BY <1>2, <2>1, EventIsOwn
  <2>3. events' \in [1..Len(dets) -> [box : Boxes, track : Nat, severity : 1..5, cumulative : Nat]]
    BY <2>1, <2>2 DEF OwnEvent
  <2> QED BY <1>5, <2>3, SeqDef, LenProperties
<1>7. Range(active) = {active[t] : t \in 1..n} /\ Range(active') = {active'[t] : t \in 1..Len(active')}
  BY <1>5 DEF Range
<1>8. \A k \in 1..Len(tracks) : /\ tracks[k].id \in Nat /\ tracks[k].last \in Int
                                /\ tracks[k].count \in Nat
  BY <1>2, ElementOfSeq, TrackFields
<1>9. \A k \in 1..n : active[k].id \in Nat /\ active[k].id < nextTrackId
  BY <1>1, ElementOfSeq, TrackFields DEF Ids
<1>10. ASSUME NEW k \in 1..n PROVE Sightings(active[k].id) = active[k].count
  <2>1. ASSUME NEW j \in 1..n, active[j].id = active[k].id PROVE j = k
    <3>1. ~(j < k) /\ ~(k < j)
      BY <1>1, <1>9, <2>1 DEF Ids
    <3> QED BY <3>1
  <2> DEFINE P(t) == t.id = active[k].id
  <2>2. active[k] \in Range(active) /\ P(active[k])
    BY <1>7
  <2>3. \A t \in Range(active) : P(t) => t = active[k]
    BY <1>7, <2>1
  <2>4. \E t \in DOMAIN active : active[t].id = active[k].id
    BY <1>5
  <2>5. Sightings(active[k].id) = (CHOOSE t \in Range(active) : P(t)).count
    BY <2>4
  <2> HIDE DEF P, Sightings
  <2>6. (CHOOSE t \in Range(active) : P(t)) = active[k]
    BY <2>2, <2>3
  <2> QED BY <2>5, <2>6
<1>11. ASSUME NEW k \in 1..Len(tracks), k > n PROVE Sightings(tracks[k].id) = 0
  <2>1. tracks[k].id = nextTrackId + (k - n) - 1
    BY <1>2, <1>11 DEF Follows
  <2>2. tracks[k].id >= nextTrackId
    BY <1>1, <1>5, <1>11, <2>1
  <2>3. ~ \E t \in DOMAIN active : active[t].id = tracks[k].id
    BY <1>1, <1>5, <1>8, <1>9, <2>2
  <2> QED BY <2>3
<1> HIDE DEF Sightings, n
<1>12. ASSUME NEW k \in 1..Len(tracks)
       PROVE  /\ by[k] = 0 => /\ tracks[k].count = Sightings(tracks[k].id)
                              /\ tracks[k] \in Range(active)
              /\ by[k] # 0 => tracks[k].count = Sightings(tracks[k].id) + 1
  <2>1. CASE by[k] = 0
    <3>1. k \in 1..n /\ tracks[k] = active[k]
      BY <1>2, <1>3, <2>1 DEF Follows, n
    <3> QED BY <1>7, <1>10, <2>1, <3>1
  <2>2. CASE by[k] # 0 /\ k <= n
    <3>1. tracks[k].count = active[k].count + 1
      BY <1>2, <2>2 DEF Follows, Grows, n
    <3> QED BY <1>3, <1>10, <2>2, <3>1
  <2>3. CASE k > n
    <3>1. tracks[k].count = 1 /\ by[k] # 0
      BY <1>2, <2>3 DEF Follows, n
    <3> QED BY <1>11, <2>3, <3>1
  <2> QED BY <1>5, <2>1, <2>2, <2>3
<1>13. ASSUME NEW t \in Range(active') PROVE \E k \in 1..Len(tracks) : t = tracks[k]
  <2>1. PICK u \in 1..Len(active') : t = active'[u]
    BY <1>7
  <2> QED BY <1>4, <2>1 DEF Kept
<1>14. ASSUME NEW k \in reported
       PROVE  /\ k \in 1..Len(tracks) /\ tracks[k] \in Range(active')
              /\ tracks[k].last = pts /\ tracks[k].count # Sightings(tracks[k].id)
  <2>1. k \in 1..Len(tracks) /\ by[k] # 0
    OBVIOUS
  <2>2. tracks[k].last = pts
    BY <1>2, <2>1 DEF Follows
  <2>3. pts - tracks[k].last <= MaxGap
    BY <2>2, ArcTrackerAssumption
  <2>4. tracks[k] \in Range(active')
    BY <1>4, <1>7, <2>1, <2>3 DEF Kept
  <2>5. tracks[k].count = Sightings(tracks[k].id) + 1
    BY <1>12, <2>1
  <2>6. tracks[k].count # Sightings(tracks[k].id)
    <3>1. tracks[k].count \in Nat
      BY <1>8, <2>1
    <3>2. CASE k > n
      BY <1>11, <2>1, <2>5, <3>2
    <3>3. CASE k <= n
      <4>1. k \in 1..n /\ Sightings(tracks[k].id) = active[k].count
        BY <1>3, <1>10, <2>1, <3>3
      <4>2. active[k].count \in Nat
        BY <1>1, <4>1, ElementOfSeq, TrackFields DEF n
      <4> QED BY <2>5, <4>1, <4>2
    <3> QED BY <1>5, <2>1, <3>2, <3>3
  <2> QED BY <2>1, <2>2, <2>4, <2>6
<1>15. sighted = {tracks[k] : k \in reported}
  <2>1. ASSUME NEW t \in sighted PROVE t \in {tracks[k] : k \in reported}
    <3>1. t \in Range(active') /\ t.count # Sightings(t.id)
      OBVIOUS
    <3>2. PICK k \in 1..Len(tracks) : t = tracks[k]
      BY <1>13, <3>1
    <3>3. by[k] # 0
      BY <1>12, <3>1, <3>2
    <3> QED BY <3>2, <3>3
  <2>2. ASSUME NEW k \in reported PROVE tracks[k] \in sighted
    BY <1>14
  <2> QED BY <2>1, <2>2
<1>16. Cardinality(sighted) = Len(events')
  <2> DEFINE own(d) == CHOOSE k \in 1..Len(tracks) : by[k] = d
             h      == [d \in 1..Len(dets) |-> tracks[own(d)]]
  <2>1. ASSUME NEW d \in 1..Len(dets) PROVE own(d) \in reported /\ by[own(d)] = d
    <3>1. \E k \in 1..Len(tracks) : by[k] = d
      BY <1>2 DEF Follows
    <3>2. own(d) \in 1..Len(tracks) /\ by[own(d)] = d
      BY <3>1
    <3>3. d # 0
      BY <1>5
    <3> HIDE DEF own
    <3> QED BY <3>2, <3>3
  <2>2. ASSUME NEW k \in reported PROVE by[k] \in 1..Len(dets) /\ own(by[k]) = k
    <3>1. k \in 1..Len(tracks) /\ by[k] # 0
      OBVIOUS
    <3>2. by[k] \in 1..Len(dets)
      BY <1>2, <1>5, <3>1 DEF Follows
    <3>3. own(by[k]) \in 1..Len(tracks) /\ by[own(by[k])] = by[k]
      BY <2>1, <3>2
    <3> HIDE DEF own
    <3>4. own(by[k]) = k
      BY <1>2, <3>1, <3>3 DEF Follows
    <3> QED BY <3>2, <3>4
  <2> HIDE DEF own, reported, sighted
  <2>3. ASSUME NEW c \in 1..Len(dets), NEW d \in 1..Len(dets), h[c] = h[d] PROVE c = d
    <3>1. own(c) \in 1..Len(tracks) /\ own(d) \in 1..Len(tracks)
      BY <1>14, <2>1
    <3>2. tracks[own(c)] = tracks[own(d)]
      BY <2>3
    <3>3. ~(own(c) < own(d)) /\ ~(own(d) < own(c))
      BY <1>3, <1>8, <3>1, <3>2 DEF Ids
    <3>4. own(c) = own(d)
      BY <3>1, <3>3
    <3> QED BY <2>1, <3>4
  <2>4. h \in [1..Len(dets) -> sighted]
    BY <1>15, <2>1
  <2>5. \A t \in sighted : \E d \in 1..Len(dets) : h[d] = t
    BY <1>15, <2>2
  <2> HIDE DEF h
  <2>6. h \in Bijection(1..Len(dets), sighted)
    BY <2>3, <2>4, <2>5 DEF Bijection, Injection, Surjection, IsInjective
  <2>7. IsFiniteSet(1..Len(dets)) /\ Cardinality(1..Len(dets)) = Len(dets)
    <3>1. 1 \in Int /\ Len(dets) \in Int
      BY <1>5
    <3>2. /\ IsFiniteSet(1..Len(dets))
          /\ Cardinality(1..Len(dets)) = IF 1 > Len(dets) THEN 0 ELSE Len(dets) - 1 + 1
      BY <3>1, FS_Interval
    <3> QED BY <1>5, <3>2
  <2>8. Cardinality(sighted) = Len(dets)
    BY <2>6, <2>7, FS_Bijection DEF ExistsBijection
  <2> QED BY <1>6, <2>8
<1>17. \A t \in sighted : t.count = Sightings(t.id) + 1 /\ t.last = lastPts'
  <2>1. ASSUME NEW k \in reported
        PROVE  tracks[k].count = Sightings(tracks[k].id) + 1 /\ tracks[k].last = lastPts'
    BY <1>2, <1>12, <1>14
  <2> HIDE DEF sighted, reported
  <2> QED BY <1>15, <2>1
<1>18. ASSUME NEW t \in Range(active') \ sighted
       PROVE  t \in Range(active) /\ \E j \in 1..Len(tracks) : by[j] = 0 /\ t = tracks[j]
  <2>1. PICK j \in 1..Len(tracks) : t = tracks[j]
    BY <1>13
  <2>2. by[j] = 0
    BY <1>14, <2>1
  <2> QED BY <1>12, <2>1, <2>2
<1>19. ASSUME NEW new \in sighted, NEW old \in Range(active') \ sighted, new.id >= nextTrackId
       PROVE  Iou(old.box, new.box) < IouMatch
  <2>1. PICK k \in reported : new = tracks[k]
    BY <1>15
  <2>2. PICK j \in 1..Len(tracks) : by[j] = 0 /\ old = tracks[j]
    BY <1>18
  <2>3. k \in 1..Len(tracks) /\ k > n
    <3>1. k \in 1..Len(tracks)
      BY <1>14
    <3>2. k <= n => tracks[k].id \in Nat /\ tracks[k].id < nextTrackId
      BY <1>3, <1>9, <3>1
    <3> QED BY <1>1, <1>5, <1>19, <2>1, <3>1, <3>2
  <2> QED BY <1>2, <2>1, <2>2, <2>3 DEF Follows, n
<1> HIDE DEF sighted
<1>20. Range(active') \ sighted \subseteq Range(active)
  BY <1>18
<1>21. \A new \in sighted, old \in Range(active') \ sighted :
         new.id >= nextTrackId => Iou(old.box, new.box) < IouMatch
  BY <1>19
<1> QED BY <1>16, <1>17, <1>20, <1>21, Zenon DEF Each, sighted, Sightings
-----------------------------------------------------------------------------
LEMMA IInvInit == Init => IInv
<1> SUFFICES ASSUME Init PROVE IInv
  OBVIOUS
<1>1. /\ active = << >> /\ completed = << >> /\ events = << >> /\ nextTrackId = 1
      /\ lastPts = 0 /\ frames = 0
  BY DEF Init
<1>2. DOMAIN active = {} /\ DOMAIN events = {}
  BY <1>1
<1>3. 1..Len(active) = {} /\ 1..Len(completed) = {}
  BY <1>1
<1>4. TypeOK
  BY <1>1, ArcTrackerAssumption DEF TypeOK
<1>5. Ids(active, completed, nextTrackId) /\ Classified(active)
  BY <1>3 DEF Ids, Classified
<1>6. RecentlySeen /\ EventsOwnTrack
  BY <1>2 DEF RecentlySeen, EventsOwnTrack
<1> QED BY <1>4, <1>5, <1>6 DEF IInv

LEMMA IInvNext == IInv /\ [Next]_vars => IInv'
<1> SUFFICES ASSUME IInv, [Next]_vars PROVE IInv'
  OBVIOUS
<1>1. CASE Next
  <2>1. active \in Seq(Track) /\ nextTrackId \in Nat \ {0} /\ lastPts \in Int
    BY DEF IInv, TypeOK
  <2> QED BY <1>1, <2>1, NextSteps, StepKeeps
<1>2. CASE UNCHANGED vars
  BY <1>2 DEF vars, IInv, TypeOK, Ids, Classified, RecentlySeen, EventsOwnTrack
<1> QED BY <1>1, <1>2

\* The inductive invariant holds of every call of detect.
THEOREM Invariance == Spec => []IInv
<1>1. Init => IInv
  BY IInvInit
<1>2. IInv /\ [Next]_vars => IInv'
  BY IInvNext
<1> QED BY <1>1, <1>2, PTL DEF Spec

\* The variables keep their types, and completed_tracks_ its bound.
THEOREM TypeCorrect == Spec => []TypeOK
<1>1. IInv => TypeOK
  BY DEF IInv
<1> QED BY <1>1, Invariance, PTL

\* The detections that the loops of nms leave unmarked are the ones Survivors
\* describes, whatever boxes the events of a frame have and whatever is detected
\* before and behind them.
THEOREM NmsAgreesAlways == Spec => []NmsAgrees
<1>1. TypeOK => NmsAgrees
  <2> SUFFICES ASSUME TypeOK, NEW before \in [box : Boxes], NEW behind \in [box : Boxes]
               PROVE  LET raw == <<before>> \o events \o <<behind>>
                      IN Survivors(raw) = DOMAIN raw \ Marked(raw)
    BY DEF NmsAgrees
  <2> DEFINE S    == [box : Boxes] \cup [box : Boxes, track : Nat, severity : 1..5, cumulative : Nat]
             raw  == <<before>> \o events \o <<behind>>
  <2>1. /\ events \in Seq(S) /\ <<before>> \in Seq(S) /\ <<behind>> \in Seq(S)
        /\ \A x \in S : x.box \in Boxes
    <3>1. events \in Seq([box : Boxes, track : Nat, severity : 1..5, cumulative : Nat])
      BY DEF TypeOK
    <3>2. [box : Boxes, track : Nat, severity : 1..5, cumulative : Nat] \subseteq S
      OBVIOUS
    <3>3. before \in S /\ behind \in S
      OBVIOUS
    <3>4. \A x \in S : x.box \in Boxes
      OBVIOUS
    <3> HIDE DEF S
    <3>5. events \in Seq(S)
      <4>1. events \in [1..Len(events) -> S] /\ Len(events) \in Nat
        BY <3>1, <3>2, ElementOfSeq, LenProperties
      <4> QED BY <4>1, SeqDef
    <3>6. <<before>> \in Seq(S) /\ <<behind>> \in Seq(S)
      BY <3>3
    <3> QED BY <3>4, <3>5, <3>6
  <2> HIDE DEF S
  <2>2. raw \in Seq(S)
    BY <2>1, ConcatProperties
  <2> HIDE DEF raw
  <2>3. DOMAIN raw = 1..Len(raw) /\ Len(raw) \in Nat
    BY <2>2, LenProperties
  <2>4. \A i \in 1..Len(raw) : raw[i].box \in Boxes
    BY <2>1, <2>2, ElementOfSeq
  <2>5. Survivors(raw) = DOMAIN raw \ Marked(raw)
    BY <2>3, <2>4, MarkedRest
  <2> QED BY <2>5 DEF raw
<1> QED BY <1>1, TypeCorrect, PTL

\* No two tracks, active or completed, ever share a number.
THEOREM IdsUniqueAlways == Spec => []IdsUnique
<1>1. ASSUME IInv PROVE IdsUnique
  <2> DEFINE all == active \o completed
             n   == Len(active)
             m   == Len(completed)
  <2>1. /\ active \in Seq(Track) /\ completed \in Seq(Track)
        /\ Ids(active, completed, nextTrackId)
    BY <1>1 DEF IInv, TypeOK
  <2>2. DOMAIN active = 1..n /\ n \in Nat /\ m \in Nat
    BY <2>1, LenProperties
  <2>3. /\ all \in Seq(Track) /\ Len(all) = n + m
        /\ \A i \in 1..(n + m) : all[i] = IF i <= n THEN active[i] ELSE completed[i - n]
    BY <2>1, ConcatProperties
  <2>4. DOMAIN all = 1..(n + m)
    BY <2>3, LenProperties
  <2>5. \A i \in 1..(n + m) : all[i].id \in Nat
    BY <2>3, <2>4, ElementOfSeq, TrackFields
  <2> HIDE DEF all, n, m
  <2>6. ASSUME NEW i \in 1..(n + m)
        PROVE  \/ i \in 1..n /\ all[i] = active[i]
               \/ i > n /\ i - n \in 1..m /\ all[i] = completed[i - n]
    BY <2>2, <2>3
  <2>7. ASSUME NEW s \in 1..(n + m), NEW t \in 1..(n + m), s < t PROVE all[s].id # all[t].id
    <3>1. CASE s \in 1..n /\ all[s] = active[s] /\ t \in 1..n /\ all[t] = active[t]
      <4>1. all[s].id < all[t].id
        BY <2>1, <2>7, <3>1 DEF Ids, n
      <4> QED BY <2>5, <4>1
    <3>2. CASE s \in 1..n /\ all[s] = active[s] /\ t - n \in 1..m /\ all[t] = completed[t - n]
      BY <2>1, <3>2 DEF Ids, n, m
    <3>3. CASE s > n /\ s - n \in 1..m /\ all[s] = completed[s - n]
      <4>1. t - n \in 1..m /\ all[t] = completed[t - n] /\ s - n < t - n
        BY <2>2, <2>6, <2>7, <3>3
      <4> QED BY <2>1, <3>3, <4>1 DEF Ids, m
    <3> QED BY <2>6, <3>1, <3>2, <3>3
  <2>8. \A s, t \in 1..(n + m) : s # t => all[s].id # all[t].id
    <3> SUFFICES ASSUME NEW s \in 1..(n + m), NEW t \in 1..(n + m), s # t
                 PROVE  all[s].id # all[t].id
      OBVIOUS
    <3>1. s < t \/ t < s
      BY <2>2
    <3> QED BY <2>7, <3>1
  <2>9. ASSUME NEW t \in 1..(n + m) PROVE all[t].id < nextTrackId
    BY <2>1, <2>6 DEF Ids, n, m
  <2>10. \A s, t \in DOMAIN active : s < t => active[s].id < active[t].id
    BY <2>1, <2>2 DEF Ids, n
  <2> QED BY <2>4, <2>8, <2>9, <2>10 DEF IdsUnique, all
<1> QED BY <1>1, Invariance, PTL

\* No active track is older than the gap, whatever the times of the frames.
THEOREM RecentlySeenAlways == Spec => []RecentlySeen
<1>1. IInv => RecentlySeen
  BY DEF IInv
<1> QED BY <1>1, Invariance, PTL

\* The event of a detection carries the track that the detection sighted.
THEOREM EventsOwnTrackAlways == Spec => []EventsOwnTrack
<1>1. IInv => EventsOwnTrack
  BY DEF IInv
<1> QED BY <1>1, Invariance, PTL

\* What energy or duration established of a severity stays.
THEOREM SeverityFallsAlways == Spec => SeverityFalls
<1> DEFINE Falls ==
             \A t \in DOMAIN active : \A u \in DOMAIN active' :
               /\ active[t].id = active'[u].id
               /\ active'[u].severity < active[t].severity
               /\ active'[u].last >= active[t].last
               => /\ active'[u].smoothed < active[t].smoothed
                  /\ active[t].severity \in {3, 5}
<1>1. ASSUME IInv, Next PROVE Falls
  <2>1. active \in Seq(Track) /\ nextTrackId \in Nat \ {0} /\ lastPts \in Int
    BY <1>1 DEF IInv, TypeOK
  <2>2. PICK pts \in Int : \E dets, tracks, by :
          Suppressed(dets) /\ Steps(by, tracks, dets, pts)
    BY <1>1, <2>1, NextSteps
  <2>3. PICK dets, tracks, by : Suppressed(dets) /\ Steps(by, tracks, dets, pts)
    BY <2>2
  <2> QED BY <1>1, <2>3, StepSeverity
<1>2. IInv /\ [Next]_vars => [Falls]_vars
  BY <1>1
<1> HIDE DEF Falls
<1>3. Spec => [][Falls]_vars
  BY <1>2, Invariance, PTL DEF Spec
<1> QED BY <1>3 DEF SeverityFalls, Falls

\* Every detection that is kept extends one track or founds one.
THEOREM OneTrackEachAlways == Spec => OneTrackEach
<1>1. ASSUME IInv, Next PROVE Each
  <2>1. active \in Seq(Track) /\ nextTrackId \in Nat \ {0} /\ lastPts \in Int
    BY <1>1 DEF IInv, TypeOK
  <2>2. PICK pts \in Int : \E dets, tracks, by :
          Suppressed(dets) /\ Steps(by, tracks, dets, pts)
    BY <1>1, <2>1, NextSteps
  <2>3. PICK dets, tracks, by : Suppressed(dets) /\ Steps(by, tracks, dets, pts)
    BY <2>2
  <2> QED BY <1>1, <2>3, StepEach
<1>2. IInv /\ [Next]_vars => [Each]_vars
  BY <1>1
<1>3. Spec => [][Each]_vars
  BY <1>2, Invariance, PTL DEF Spec
<1> QED BY <1>3, PTL DEF OneTrackEach, Each
==============================================================================
