-------------------------- MODULE FrameSync_proofs --------------------------
(***************************************************************************)
(* Machine-checked proofs about the pairing of frames, for every           *)
(* tolerance, buffer size and set of presentation times; and about the     *)
(* ingest loop that feeds it, for any number of sessions and frames and    *)
(* whatever the cameras send.                                              *)
(***************************************************************************)
EXTENDS Ingest, SequenceTheorems, FiniteSetTheorems, WellFoundedInduction, TLAPS

\* Without overflow the subtraction is the one of the integers.
LEMMA ModSmall ==
  ASSUME NEW m \in Nat \ {0}, NEW a \in 0..(m - 1)
  PROVE  a % m = a
<1> DEFINE q == a \div m
           r == a % m
<1>1. a = m * q + r /\ q \in Int /\ r \in 0..(m - 1)
  BY SMT
<1>2. SUFFICES r = a
  OBVIOUS
<1> HIDE DEF q, r
<1>3. CASE q = 0
  BY <1>1, <1>3, SMT
<1>4. CASE q >= 1
  <2>1. m * q >= m
    BY <1>1, <1>4, SMT
  <2> QED BY <1>1, <2>1, SMT
<1>5. CASE q <= -1
  <2>1. m * q <= -m
    BY <1>1, <1>5, SMT
  <2> QED BY <1>1, <2>1, SMT
<1> QED BY <1>1, <1>3, <1>4, <1>5

LEMMA WrapSmall ==
  ASSUME NEW x \in (-HalfRange)..(HalfRange - 1)
  PROVE  Wrap(x) = x
<1>1. /\ 2 * HalfRange \in Nat \ {0}
      /\ x + HalfRange \in 0..(2 * HalfRange - 1)
  BY FrameSyncAssumption
<1>2. (x + HalfRange) % (2 * HalfRange) = x + HalfRange
  BY <1>1, ModSmall
<1> QED BY <1>2, FrameSyncAssumption DEF Wrap

LEMMA DiffIsDistance ==
  ASSUME NoOverflow, NEW a \in VisFrame, NEW b \in UvFrame
  PROVE  Diff(a, b) = Distance(a, b) /\ Diff(a, b) \in Nat
<1> DEFINE d == a.pts - b.pts
<1>1. a.pts \in Int /\ b.pts \in Int /\ HalfRange \in Nat \ {0}
  <2>1. a.pts \in VisPts /\ b.pts \in UvPts
    BY DEF VisFrame, UvFrame
  <2>2. HalfRange \in Nat \ {0}
    BY FrameSyncAssumption
  <2>3. VisPts \subseteq Int /\ UvPts \subseteq Int
    BY <2>2, FrameSyncAssumption
  <2> QED BY <2>1, <2>2, <2>3
<1>2. d \in (1 - HalfRange)..(HalfRange - 1)
  BY DEF NoOverflow, VisFrame, UvFrame
<1>3. d \in (-HalfRange)..(HalfRange - 1) /\ -d \in (-HalfRange)..(HalfRange - 1)
  BY <1>1, <1>2
<1>4. Wrap(d) = d /\ Wrap(-d) = -d
  BY <1>3, WrapSmall
<1>5. Diff(a, b) = IF d < 0 THEN -d ELSE d
  BY <1>4 DEF Diff
<1> QED BY <1>1, <1>5 DEF Distance
-----------------------------------------------------------------------------
\* What is left of a sequence after RemoveAt.
LEMMA RemoveAtFacts ==
  ASSUME NEW S, NEW s \in Seq(S), NEW p \in 1..Len(s)
  PROVE  /\ RemoveAt(s, p) \in Seq(S)
         /\ Len(RemoveAt(s, p)) = Len(s) - 1
         /\ \A i \in 1..(Len(s) - 1) :
              RemoveAt(s, p)[i] = IF i < p THEN s[i] ELSE s[i + 1]
<1> DEFINE front == SubSeq(s, 1, p - 1)
           back  == SubSeq(s, p + 1, Len(s))
<1>1. Len(s) \in Nat /\ \A i \in 1..Len(s) : s[i] \in S
  BY ElementOfSeq
<1>2. front \in Seq(S) /\ Len(front) = p - 1 /\ \A i \in 1..(p - 1) : front[i] = s[i]
  BY <1>1, SubSeqProperties
<1>3. /\ back \in Seq(S) /\ Len(back) = Len(s) - p
      /\ \A i \in 1..(Len(s) - p) : back[i] = s[p + i]
  BY <1>1, SubSeqProperties
<1>4. RemoveAt(s, p) = front \o back
  BY DEF RemoveAt
<1> HIDE DEF front, back
<1>5. /\ front \o back \in Seq(S)
      /\ Len(front \o back) = Len(s) - 1
      /\ \A i \in 1..(Len(s) - 1) :
           (front \o back)[i] = IF i <= p - 1 THEN front[i] ELSE back[i - (p - 1)]
  <2>1. /\ front \o back \in Seq(S)
        /\ Len(front \o back) = (p - 1) + (Len(s) - p)
        /\ \A i \in 1..((p - 1) + (Len(s) - p)) :
             (front \o back)[i] = IF i <= p - 1 THEN front[i] ELSE back[i - (p - 1)]
    <3>1. /\ front \o back \in Seq(S)
          /\ Len(front \o back) = Len(front) + Len(back)
          /\ \A i \in 1..Len(front) + Len(back) :
               (front \o back)[i] = IF i <= Len(front) THEN front[i] ELSE back[i - Len(front)]
      <4>1. front \in Seq(S) /\ back \in Seq(S)
        BY <1>2, <1>3
      <4> QED BY ONLY <4>1, ConcatProperties
    <3> QED BY <1>2, <1>3, <3>1
  <2>2. (p - 1) + (Len(s) - p) = Len(s) - 1
    BY <1>1
  <2> QED BY <2>1, <2>2
<1>6. ASSUME NEW i \in 1..(Len(s) - 1)
      PROVE  (front \o back)[i] = IF i < p THEN s[i] ELSE s[i + 1]
  <2>1. CASE i < p
    BY <1>1, <1>2, <1>5, <2>1
  <2>2. CASE ~(i < p)
    <3>1. i - (p - 1) \in 1..(Len(s) - p) /\ p + (i - (p - 1)) = i + 1
      BY <1>1, <2>2
    <3> QED BY <1>1, <1>3, <1>5, <2>2, <3>1
  <2> QED BY <2>1, <2>2
<1> QED BY <1>4, <1>5, <1>6

\* What evictOld leaves, e, of a buffer s of elements of S to which f was added.
Evicted(S, s, f, e) ==
  /\ e \in Seq(S) /\ Len(e) \in 1..MaxBufferSize
  /\ e[Len(e)] = f
  /\ \A i \in 1..(Len(e) - 1) : \E j \in 1..Len(s) : e[i] = s[j]
  /\ \E d \in {0, 1} : /\ Len(e) + d = Len(s) + 1
                     /\ \A i \in 1..(Len(e) - 1) : i + d \in 1..Len(s) /\ e[i] = s[i + d]

LEMMA EvictFacts ==
  ASSUME NEW S, NEW s \in Seq(S), Len(s) <= MaxBufferSize, NEW f \in S
  PROVE  Evicted(S, s, f, EvictOld(Append(s, f)))
<1> DEFINE a == Append(s, f)
           e == EvictOld(a)
           n == Len(s)
<1>1. SUFFICES /\ e \in Seq(S) /\ Len(e) \in 1..MaxBufferSize
               /\ e[Len(e)] = f
               /\ \E d \in {0, 1} : /\ Len(e) + d = n + 1
                                  /\ \A i \in 1..(Len(e) - 1) : i + d \in 1..n /\ e[i] = s[i + d]
  BY DEF Evicted
<1>2. /\ n \in Nat /\ a \in Seq(S) /\ Len(a) = n + 1 /\ MaxBufferSize \in Nat \ {0}
      /\ \A i \in 1..n : a[i] = s[i]
      /\ a[n + 1] = f
  BY AppendProperties, LenProperties, FrameSyncAssumption
<1> HIDE DEF a
<1>3. CASE n + 1 <= MaxBufferSize
  <2>1. e = a
    BY <1>2, <1>3 DEF EvictOld
  <2> HIDE DEF e
  <2>2. Len(e) + 0 = n + 1 /\ \A i \in 1..(Len(e) - 1) : i + 0 \in 1..n /\ e[i] = s[i + 0]
    BY <1>2, <2>1
  <2> QED BY <1>2, <1>3, <2>1, <2>2
<1>4. CASE n = MaxBufferSize
  <2>1. e = SubSeq(a, 2, n + 1)
    <3>1. Len(a) > MaxBufferSize /\ Len(a) = n + 1 /\ Len(a) - MaxBufferSize + 1 = 2
      BY <1>2, <1>4
    <3>2. e = SubSeq(a, Len(a) - MaxBufferSize + 1, Len(a))
      BY <3>1 DEF EvictOld
    <3> QED BY <3>1, <3>2
  <2>2. \A i \in 2..(n + 1) : a[i] \in S
    BY <1>2, ElementOfSeq
  <2>3. /\ e \in Seq(S) /\ Len(e) = n
        /\ \A i \in 1..n : e[i] = a[i + 1]
    <3>1. /\ SubSeq(a, 2, n + 1) \in Seq(S)
          /\ Len(SubSeq(a, 2, n + 1)) = n
          /\ \A i \in 1..n : SubSeq(a, 2, n + 1)[i] = a[2 + i - 1]
      <4>1. /\ SubSeq(a, 2, n + 1) \in Seq(S)
            /\ Len(SubSeq(a, 2, n + 1)) = IF 2 <= n + 1 THEN n + 1 - 2 + 1 ELSE 0
            /\ \A i \in 1..(n + 1 - 2 + 1) : SubSeq(a, 2, n + 1)[i] = a[2 + i - 1]
        BY <1>2, <2>2, SubSeqProperties
      <4> QED BY <1>2, <4>1
    <3> QED BY <1>2, <2>1, <3>1
  <2> HIDE DEF e
  <2>4. Len(e) \in 1..MaxBufferSize /\ e[Len(e)] = f
    BY <1>2, <1>4, <2>3
  <2>5. ASSUME NEW i \in 1..(Len(e) - 1) PROVE i + 1 \in 1..n /\ e[i] = s[i + 1]
    <3>1. i + 1 \in 1..n /\ i \in 1..n
      BY <1>2, <2>3
    <3>2. e[i] = s[i + 1]
      BY <1>2, <2>3, <3>1
    <3> QED BY <3>1, <3>2
  <2> QED BY <2>3, <2>4, <2>5
<1> QED BY <1>2, <1>3, <1>4
-----------------------------------------------------------------------------
FarApart(v, u) == Distance(v, u) > ToleranceNs

\* Two buffers in which only pairs with one given frame can be close.
OnlyVisClose(vs, us, n) ==
  \A i \in 1..Len(vs) : \A j \in 1..Len(us) : i # n => FarApart(vs[i], us[j])
OnlyUvClose(vs, us, n) ==
  \A i \in 1..Len(vs) : \A j \in 1..Len(us) : j # n => FarApart(vs[i], us[j])

\* Without overflow the scan considers every pair.
LEMMA AllCandidates ==
  ASSUME NoOverflow, NEW vs \in Seq(VisFrame), NEW us \in Seq(UvFrame)
  PROVE  /\ Candidates(vs, us) = Pairings(vs, us)
         /\ \A p \in Pairings(vs, us) :
              /\ p[1] \in 1..Len(vs) /\ p[2] \in 1..Len(us)
              /\ vs[p[1]] \in VisFrame /\ us[p[2]] \in UvFrame
              /\ Diff(vs[p[1]], us[p[2]]) = Distance(vs[p[1]], us[p[2]])
<1>1. \A p \in Pairings(vs, us) :
         /\ p[1] \in 1..Len(vs) /\ p[2] \in 1..Len(us)
         /\ vs[p[1]] \in VisFrame /\ us[p[2]] \in UvFrame
  BY ElementOfSeq DEF Pairings
<1>2. \A p \in Pairings(vs, us) :
         /\ Diff(vs[p[1]], us[p[2]]) = Distance(vs[p[1]], us[p[2]])
         /\ Diff(vs[p[1]], us[p[2]]) \in Nat
  BY <1>1, DiffIsDistance
<1>3. \A q \in Pairings(vs, us) : ~(Diff(vs[q[1]], us[q[2]]) < 0)
  BY <1>2
<1>4. Candidates(vs, us) = Pairings(vs, us)
  BY <1>3 DEF Candidates
<1> QED BY <1>1, <1>2, <1>4

\* tryMatch leaves no close pair when every close pair shares one frame.
LEMMA TryMatchLeavesNone ==
  ASSUME NoOverflow, NEW vs \in Seq(VisFrame), NEW us \in Seq(UvFrame), NEW n \in Nat,
         OnlyVisClose(vs, us, n) \/ OnlyUvClose(vs, us, n),
         TryMatch(vs, us)
  PROVE  NoMatchLeft'
<1>1. CASE \E p \in Candidates(vs, us) :
             /\ Diff(vs[p[1]], us[p[2]]) <= ToleranceNs
             /\ visibleFrames' = RemoveAt(vs, p[1])
             /\ uvFrames' = RemoveAt(us, p[2])
  <2>1. PICK p \in Pairings(vs, us) :
               /\ Diff(vs[p[1]], us[p[2]]) <= ToleranceNs
               /\ visibleFrames' = RemoveAt(vs, p[1])
               /\ uvFrames' = RemoveAt(us, p[2])
    BY <1>1, AllCandidates
  <2> DEFINE a == p[1]
             b == p[2]
  <2>2. a \in 1..Len(vs) /\ b \in 1..Len(us) /\ ~FarApart(vs[a], us[b])
    <3>1. /\ a \in 1..Len(vs) /\ b \in 1..Len(us)
          /\ vs[a] \in VisFrame /\ us[b] \in UvFrame
          /\ Distance(vs[a], us[b]) <= ToleranceNs
      BY <2>1, AllCandidates
    <3>2. Distance(vs[a], us[b]) \in Nat /\ ToleranceNs \in Nat
      BY SMTT(40), <3>1, DiffIsDistance, FrameSyncAssumption
    <3> QED BY <3>1, <3>2 DEF FarApart
  <2>3. visibleFrames' = RemoveAt(vs, a) /\ uvFrames' = RemoveAt(us, b)
    BY <2>1
  <2> HIDE DEF a, b
  <2>4. /\ Len(visibleFrames') = Len(vs) - 1
        /\ \A i \in 1..(Len(vs) - 1) :
             visibleFrames'[i] = IF i < a THEN vs[i] ELSE vs[i + 1]
    BY <2>2, <2>3, RemoveAtFacts
  <2>5. /\ Len(uvFrames') = Len(us) - 1
        /\ \A j \in 1..(Len(us) - 1) :
             uvFrames'[j] = IF j < b THEN us[j] ELSE us[j + 1]
    BY <2>2, <2>3, RemoveAtFacts
  <2>6. Len(vs) \in Nat /\ Len(us) \in Nat
    BY LenProperties
  <2>7. ASSUME NEW i \in 1..Len(visibleFrames'), NEW j \in 1..Len(uvFrames')
        PROVE  FarApart(visibleFrames'[i], uvFrames'[j])
    <3>1. PICK k \in 1..Len(vs) : k # a /\ visibleFrames'[i] = vs[k]
      <4>1. CASE i < a
        BY <2>2, <2>4, <2>6, <4>1
      <4>2. CASE ~(i < a)
        <5>1. i + 1 \in 1..Len(vs) /\ i + 1 # a /\ visibleFrames'[i] = vs[i + 1]
          BY <2>2, <2>4, <2>6, <4>2
        <5> QED BY <5>1
      <4> QED BY <4>1, <4>2
    <3>2. PICK l \in 1..Len(us) : l # b /\ uvFrames'[j] = us[l]
      <4>1. CASE j < b
        BY <2>2, <2>5, <2>6, <4>1
      <4>2. CASE ~(j < b)
        <5>1. j + 1 \in 1..Len(us) /\ j + 1 # b /\ uvFrames'[j] = us[j + 1]
          BY <2>2, <2>5, <2>6, <4>2
        <5> QED BY <5>1
      <4> QED BY <4>1, <4>2
    <3>3. CASE OnlyVisClose(vs, us, n)
      <4>1. a = n
        BY <2>2, <3>3 DEF OnlyVisClose
      <4> QED BY <3>1, <3>2, <3>3, <4>1 DEF OnlyVisClose
    <3>4. CASE OnlyUvClose(vs, us, n)
      <4>1. b = n
        BY <2>2, <3>4 DEF OnlyUvClose
      <4> QED BY <3>1, <3>2, <3>4, <4>1 DEF OnlyUvClose
    <3> QED BY <3>3, <3>4
  <2> QED BY <2>7 DEF NoMatchLeft, FarApart, Distance
<1>2. CASE /\ \A p \in Candidates(vs, us) : Diff(vs[p[1]], us[p[2]]) > ToleranceNs
           /\ visibleFrames' = vs
           /\ uvFrames' = us
  <2>1. ASSUME NEW i \in 1..Len(vs), NEW j \in 1..Len(us)
        PROVE  Distance(vs[i], us[j]) > ToleranceNs
    <3> DEFINE p == <<i, j>>
    <3>1. p \in Pairings(vs, us) /\ p[1] = i /\ p[2] = j
      BY DEF Pairings
    <3>2. Diff(vs[i], us[j]) > ToleranceNs /\ Diff(vs[i], us[j]) = Distance(vs[i], us[j])
      BY <1>2, <3>1, AllCandidates
    <3> QED BY <3>2
  <2> QED BY <1>2, <2>1 DEF NoMatchLeft, Distance
<1> QED BY <1>1, <1>2 DEF TryMatch

\* tryMatch keeps the buffers' types and bounds and adds a pair at most.
LEMMA TryMatchTypes ==
  ASSUME NEW vs \in Seq(VisFrame), NEW us \in Seq(UvFrame),
         Len(vs) <= MaxBufferSize, Len(us) <= MaxBufferSize,
         emitted \in Seq([vis : VisFrame, uv : UvFrame]),
         TryMatch(vs, us)
  PROVE  /\ visibleFrames' \in Seq(VisFrame) /\ Len(visibleFrames') <= MaxBufferSize
         /\ uvFrames' \in Seq(UvFrame) /\ Len(uvFrames') <= MaxBufferSize
         /\ emitted' \in Seq([vis : VisFrame, uv : UvFrame])
<1>1. Len(vs) \in Nat /\ Len(us) \in Nat /\ MaxBufferSize \in Nat
  BY LenProperties, FrameSyncAssumption
<1>2. CASE \E p \in Candidates(vs, us) :
             /\ visibleFrames' = RemoveAt(vs, p[1])
             /\ uvFrames' = RemoveAt(us, p[2])
             /\ emitted' = Append(emitted, [vis |-> vs[p[1]], uv |-> us[p[2]]])
  <2>1. PICK p \in Pairings(vs, us) :
             /\ visibleFrames' = RemoveAt(vs, p[1])
             /\ uvFrames' = RemoveAt(us, p[2])
             /\ emitted' = Append(emitted, [vis |-> vs[p[1]], uv |-> us[p[2]]])
    BY <1>2 DEF Candidates
  <2>2. p[1] \in 1..Len(vs) /\ p[2] \in 1..Len(us)
    BY DEF Pairings
  <2>3. vs[p[1]] \in VisFrame /\ us[p[2]] \in UvFrame
    BY <2>2, ElementOfSeq
  <2>4. [vis |-> vs[p[1]], uv |-> us[p[2]]] \in [vis : VisFrame, uv : UvFrame]
    BY <2>3
  <2>5. emitted' \in Seq([vis : VisFrame, uv : UvFrame])
    BY <2>1, <2>4, AppendProperties
  <2>6. visibleFrames' \in Seq(VisFrame) /\ Len(visibleFrames') = Len(vs) - 1
    BY <2>1, <2>2, RemoveAtFacts
  <2>7. uvFrames' \in Seq(UvFrame) /\ Len(uvFrames') = Len(us) - 1
    BY <2>1, <2>2, RemoveAtFacts
  <2> QED BY <1>1, <2>5, <2>6, <2>7
<1>3. CASE visibleFrames' = vs /\ uvFrames' = us /\ UNCHANGED emitted
  BY <1>3
<1> QED BY <1>2, <1>3 DEF TryMatch
-----------------------------------------------------------------------------
\* A camera's buffer holds frames in the order of their numbers, none later
\* than the last one and none that is gone, and every one from its oldest on
\* that is not gone.
Fresh(buffer, last, gone) ==
  /\ \A i, j \in 1..Len(buffer) : i < j => buffer[i].seq < buffer[j].seq
  /\ \A i \in 1..Len(buffer) : buffer[i].seq <= last /\ buffer[i].seq \notin gone
  /\ \A n \in gone : n <= last
  /\ \A i \in 1..Len(buffer) : \A n \in buffer[i].seq..last :
       n \in gone \/ \E j \in 1..Len(buffer) : buffer[j].seq = n

\* The inductive invariant of EmittedOnce.
OnceInv ==
  /\ TypeOK
  /\ \A k, l \in 1..Len(emitted) :
       k # l => /\ emitted[k].vis.seq # emitted[l].vis.seq
                /\ emitted[k].uv.seq # emitted[l].uv.seq
  /\ Fresh(visibleFrames, visSent.seq, VisPaired)
  /\ Fresh(uvFrames, uvSent.seq, UvPaired)

\* A buffer stays fresh when the next frame is pushed,
LEMMA FreshPush ==
  ASSUME NEW F, \A f \in F : f.seq \in Nat, NEW s \in Seq(F), Len(s) <= MaxBufferSize,
         NEW last \in Nat, NEW gone \in SUBSET Nat, Fresh(s, last, gone), NEW f \in F, f.seq = last + 1
  PROVE  Fresh(EvictOld(Append(s, f)), last + 1, gone)
<1> DEFINE e == EvictOld(Append(s, f))
           n == Len(e)
<1>1. /\ n \in Nat /\ e[n] = f
      /\ \E d \in {0, 1} : /\ n + d = Len(s) + 1
                         /\ \A i \in 1..(n - 1) : i + d \in 1..Len(s) /\ e[i] = s[i + d]
  <2>1. Evicted(F, s, f, e)
    BY EvictFacts
  <2> HIDE DEF e
  <2>2. n \in 1..MaxBufferSize /\ MaxBufferSize \in Nat
    BY <2>1, FrameSyncAssumption DEF Evicted
  <2>3. n \in Nat
    BY <2>2
  <2>4. e[n] = f
    BY <2>1 DEF Evicted
  <2>5. \E d \in {0, 1} : /\ n + d = Len(s) + 1
                        /\ \A i \in 1..(n - 1) : i + d \in 1..Len(s) /\ e[i] = s[i + d]
    BY <2>1, Zenon DEF Evicted
  <2> QED BY <2>3, <2>4, <2>5
<1> HIDE DEF e, n
<1>2. PICK d \in {0, 1} : /\ n + d = Len(s) + 1
                         /\ \A i \in 1..(n - 1) : i + d \in 1..Len(s) /\ e[i] = s[i + d]
  BY <1>1
<1>3. \A i \in 1..Len(s) : s[i].seq \in Nat /\ s[i].seq <= last /\ s[i].seq \notin gone
  BY ElementOfSeq DEF Fresh
<1>4. \A i \in 1..(n - 1) : e[i].seq \in Nat /\ e[i].seq <= last /\ e[i].seq \notin gone
  BY <1>2, <1>3
<1>5. e[n].seq = last + 1 /\ last + 1 \notin gone /\ \A m \in gone : m <= last
  BY <1>1 DEF Fresh
<1>6. ASSUME NEW i \in 1..n, NEW j \in 1..n, i < j
      PROVE  e[i].seq < e[j].seq
  <2>1. i \in 1..(n - 1)
    BY <1>1, <1>6
  <2>2. CASE j = n
    BY <1>4, <1>5, <2>1, <2>2
  <2>3. CASE j # n
    <3>1. j \in 1..(n - 1)
      BY <1>1, <2>3
    <3>2. i + d < j + d
      BY <1>2, <1>6
    <3> QED BY <1>2, <2>1, <3>1, <3>2 DEF Fresh
  <2> QED BY <2>2, <2>3
<1>7. \A i \in 1..n : e[i].seq <= last + 1 /\ e[i].seq \notin gone
  <2> SUFFICES ASSUME NEW i \in 1..n
               PROVE  e[i].seq <= last + 1 /\ e[i].seq \notin gone
    OBVIOUS
  <2>1. CASE i = n
    BY <1>5, <2>1
  <2>2. CASE i # n
    <3>1. i \in 1..(n - 1)
      BY <1>1, <2>2
    <3> QED BY <1>4, <3>1
  <2> QED BY <2>1, <2>2
<1>8. \A m \in gone : m <= last + 1
  <2>1. \A m \in gone : m \in Nat /\ m <= last
    BY <1>5
  <2> QED BY <2>1
<1>9. ASSUME NEW i \in 1..n, NEW m \in e[i].seq..(last + 1)
      PROVE  m \in gone \/ \E j \in 1..n : e[j].seq = m
  <2>1. CASE m = last + 1
    BY <1>1, <1>5, <2>1
  <2>2. CASE m # last + 1
    <3>1. i \in 1..(n - 1) /\ m \in e[i].seq..last
      BY <1>1, <1>4, <1>5, <2>2
    <3>2. i + d \in 1..Len(s) /\ e[i] = s[i + d] /\ m \in s[i + d].seq..last
      BY <1>2, <3>1
    <3>3. CASE m \in gone
      BY <3>3
    <3>4. CASE \E j \in 1..Len(s) : s[j].seq = m
      <4>1. PICK j \in 1..Len(s) : s[j].seq = m
        BY <3>4
      <4>2. ~(j < i + d)
        <5>1. j < i + d => s[j].seq < s[i + d].seq
          BY <3>2 DEF Fresh
        <5> QED BY <1>3, <3>2, <4>1, <5>1
      <4>3. j - d \in 1..(n - 1) /\ (j - d) + d = j
        BY <1>1, <1>2, <3>1, <4>2
      <4>4. e[j - d] = s[j]
        BY <1>2, <4>3
      <4> QED BY <1>1, <4>1, <4>3, <4>4
    <3> QED BY <3>2, <3>3, <3>4 DEF Fresh
  <2> QED BY <2>1, <2>2
<1> QED BY <1>6, <1>7, <1>8, <1>9 DEF Fresh, e, n

\* and when a frame leaves it.
LEMMA FreshTake ==
  ASSUME NEW F, \A f \in F : f.seq \in Nat, NEW s \in Seq(F), NEW last \in Nat, NEW gone,
         Fresh(s, last, gone), NEW p \in 1..Len(s)
  PROVE  Fresh(RemoveAt(s, p), last, gone \cup {s[p].seq}) /\ s[p].seq \notin gone
<1> DEFINE r == RemoveAt(s, p)
<1>1. /\ Len(s) \in Nat /\ Len(r) = Len(s) - 1
      /\ \A i \in 1..(Len(s) - 1) : r[i] = IF i < p THEN s[i] ELSE s[i + 1]
  BY RemoveAtFacts, LenProperties
<1> HIDE DEF r
<1>2. \A i \in 1..Len(s) : s[i].seq \in Nat
  BY ElementOfSeq
<1>3. ASSUME NEW i \in 1..Len(r)
      PROVE  \E k \in 1..Len(s) : k # p /\ r[i] = s[k] /\ k = IF i < p THEN i ELSE i + 1
  BY <1>1
<1>4. \A i \in 1..Len(s) : i # p => s[i].seq # s[p].seq
  <2> SUFFICES ASSUME NEW i \in 1..Len(s), i # p
               PROVE  s[i].seq # s[p].seq
    OBVIOUS
  <2>1. i < p \/ p < i
    OBVIOUS
  <2> QED BY <1>2, <2>1 DEF Fresh
<1>5. ASSUME NEW i \in 1..Len(r), NEW j \in 1..Len(r), i < j
      PROVE  r[i].seq < r[j].seq
  <2>1. PICK k \in 1..Len(s) : r[i] = s[k] /\ k = IF i < p THEN i ELSE i + 1
    BY <1>3
  <2>2. PICK l \in 1..Len(s) : r[j] = s[l] /\ l = IF j < p THEN j ELSE j + 1
    BY <1>3
  <2>3. k < l
    BY <1>5, <2>1, <2>2
  <2> QED BY <2>1, <2>2, <2>3 DEF Fresh
<1>6. \A i \in 1..Len(r) : r[i].seq <= last /\ r[i].seq \notin gone \cup {s[p].seq}
  BY <1>3, <1>4 DEF Fresh
<1>7. s[p].seq <= last /\ s[p].seq \notin gone /\ \A m \in gone : m <= last
  BY DEF Fresh
<1>8. ASSUME NEW i \in 1..Len(r), NEW m \in r[i].seq..last, m \notin gone \cup {s[p].seq}
      PROVE  \E j \in 1..Len(r) : r[j].seq = m
  <2>1. PICK k \in 1..Len(s) : r[i] = s[k]
    BY <1>3
  <2>2. PICK j \in 1..Len(s) : s[j].seq = m
    BY <1>8, <2>1 DEF Fresh
  <2>3. j # p
    BY <1>8, <2>2
  <2>4. CASE j < p
    <3>1. Len(s) \in Nat /\ j \in 1..(Len(s) - 1)
      BY <2>4
    <3>2. j \in 1..Len(r) /\ r[j] = s[j]
      BY <1>1, <2>4, <3>1
    <3> QED BY <2>2, <3>2
  <2>5. CASE j > p
    <3>1. j - 1 \in 1..Len(r) /\ r[j - 1] = s[j]
      BY <1>1, <2>5
    <3> QED BY <2>2, <3>1
  <2> QED BY <2>3, <2>4, <2>5
<1> QED BY <1>5, <1>6, <1>7, <1>8 DEF Fresh, r

\* tryMatch reports a frame of each camera that was not reported before.
LEMMA TryMatchOnce ==
  ASSUME NEW vs \in Seq(VisFrame), NEW us \in Seq(UvFrame), NEW v \in Nat, NEW u \in Nat,
         Len(vs) <= MaxBufferSize, Len(us) <= MaxBufferSize,
         OnceInv, Fresh(vs, v, VisPaired), Fresh(us, u, UvPaired), TryMatch(vs, us),
         visSent'.seq = v, uvSent'.seq = u
  PROVE  OnceInv'
<1>1. emitted \in Seq([vis : VisFrame, uv : UvFrame])
  BY DEF OnceInv, TypeOK
<1>2. TypeOK'
  <2>1. /\ visibleFrames' \in Seq(VisFrame) /\ Len(visibleFrames') <= MaxBufferSize
        /\ uvFrames' \in Seq(UvFrame) /\ Len(uvFrames') <= MaxBufferSize
        /\ emitted' \in Seq([vis : VisFrame, uv : UvFrame])
    BY <1>1, TryMatchTypes
  <2> QED BY <2>1 DEF TypeOK
<1>3. CASE visibleFrames' = vs /\ uvFrames' = us /\ UNCHANGED emitted
  <2>1. UNCHANGED <<VisPaired, UvPaired>>
    BY <1>3 DEF VisPaired, UvPaired
  <2>2. Fresh(visibleFrames', visSent'.seq, VisPaired')
    BY Zenon, <1>3, <2>1
  <2>3. Fresh(uvFrames', uvSent'.seq, UvPaired')
    BY Zenon, <1>3, <2>1
  <2>4. \A k, l \in 1..Len(emitted') :
          k # l => /\ emitted'[k].vis.seq # emitted'[l].vis.seq
                   /\ emitted'[k].uv.seq # emitted'[l].uv.seq
    BY Zenon, <1>3 DEF OnceInv
  <2> QED BY Zenon, <1>2, <2>2, <2>3, <2>4 DEF OnceInv
<1>4. CASE \E p \in Candidates(vs, us) :
             /\ visibleFrames' = RemoveAt(vs, p[1])
             /\ uvFrames' = RemoveAt(us, p[2])
             /\ emitted' = Append(emitted, [vis |-> vs[p[1]], uv |-> us[p[2]]])
  <2>1. PICK p \in Pairings(vs, us) :
             /\ visibleFrames' = RemoveAt(vs, p[1])
             /\ uvFrames' = RemoveAt(us, p[2])
             /\ emitted' = Append(emitted, [vis |-> vs[p[1]], uv |-> us[p[2]]])
    BY <1>4 DEF Candidates
  <2>2. p[1] \in 1..Len(vs) /\ p[2] \in 1..Len(us)
    BY DEF Pairings
  <2> DEFINE n    == Len(emitted)
             pair == [vis |-> vs[p[1]], uv |-> us[p[2]]]
  <2>3. pair \in [vis : VisFrame, uv : UvFrame]
    BY <2>2, ElementOfSeq
  <2>4. /\ n \in Nat /\ Len(emitted') = n + 1 /\ emitted'[n + 1] = pair
        /\ \A k \in 1..n : emitted'[k] = emitted[k]
    BY <1>1, <2>1, <2>3, AppendProperties, LenProperties
  <2>5. VisPaired' = VisPaired \cup {vs[p[1]].seq} /\ UvPaired' = UvPaired \cup {us[p[2]].seq}
    <3> HIDE DEF pair
    <3>1. pair.vis = vs[p[1]] /\ pair.uv = us[p[2]]
      BY DEF pair
    <3>2. 1..(n + 1) = 1..n \cup {n + 1}
      BY <2>4
    <3> HIDE DEF n
    <3>3. VisPaired = {emitted[k].vis.seq : k \in 1..n} /\ UvPaired = {emitted[k].uv.seq : k \in 1..n}
      BY DEF VisPaired, UvPaired, n
    <3>4. /\ VisPaired' = {emitted'[k].vis.seq : k \in 1..n \cup {n + 1}}
          /\ UvPaired' = {emitted'[k].uv.seq : k \in 1..n \cup {n + 1}}
      BY <2>4, <3>2 DEF VisPaired, UvPaired
    <3>5. \A k \in 1..n : emitted'[k].vis.seq = emitted[k].vis.seq /\ emitted'[k].uv.seq = emitted[k].uv.seq
      BY <2>4
    <3>6. emitted'[n + 1].vis.seq = vs[p[1]].seq /\ emitted'[n + 1].uv.seq = us[p[2]].seq
      BY <2>4, <3>1
    <3>7. VisPaired' = VisPaired \cup {vs[p[1]].seq}
      BY <3>3, <3>4, <3>5, <3>6
    <3>8. UvPaired' = UvPaired \cup {us[p[2]].seq}
      BY <3>3, <3>4, <3>5, <3>6
    <3> QED BY <3>7, <3>8
  <2>6. /\ \A f \in VisFrame : f.seq \in Nat
        /\ \A f \in UvFrame : f.seq \in Nat
    BY DEF VisFrame, UvFrame
  <2>7. Fresh(visibleFrames', v, VisPaired') /\ vs[p[1]].seq \notin VisPaired
    BY <2>1, <2>2, <2>5, <2>6, FreshTake
  <2>8. Fresh(uvFrames', u, UvPaired') /\ us[p[2]].seq \notin UvPaired
    BY <2>1, <2>2, <2>5, <2>6, FreshTake
  <2>9. \A k, l \in 1..Len(emitted') :
          k # l => /\ emitted'[k].vis.seq # emitted'[l].vis.seq
                   /\ emitted'[k].uv.seq # emitted'[l].uv.seq
    <3>1. \A k \in 1..n : emitted'[k].vis.seq \in VisPaired /\ emitted'[k].uv.seq \in UvPaired
      BY <2>4 DEF VisPaired, UvPaired
    <3>2. emitted'[n + 1].vis.seq \notin VisPaired /\ emitted'[n + 1].uv.seq \notin UvPaired
      BY <2>4, <2>7, <2>8
    <3>3. \A k \in 1..(n + 1) : k \in 1..n \/ k = n + 1
      BY <2>4
    <3>4. \A k, l \in 1..n :
            k # l => /\ emitted'[k].vis.seq # emitted'[l].vis.seq
                     /\ emitted'[k].uv.seq # emitted'[l].uv.seq
      BY <2>4 DEF OnceInv
    <3> HIDE DEF n, pair
    <3> QED BY <2>4, <3>1, <3>2, <3>3, <3>4
  <2> QED BY <1>2, <2>7, <2>8, <2>9 DEF OnceInv
<1> QED BY <1>3, <1>4 DEF TryMatch

LEMMA InitOnce == Init => OnceInv
<1> SUFFICES ASSUME Init PROVE OnceInv
  OBVIOUS
<1>1. visibleFrames = <<>> /\ uvFrames = <<>> /\ emitted = <<>> /\ Len(<<>>) = 0
      /\ visSent.seq = 0 /\ uvSent.seq = 0
  BY EmptySeq DEF Init
<1>2. \A S : <<>> \in Seq(S)
  OBVIOUS
<1>3. TypeOK
  BY <1>1, <1>2, FrameSyncAssumption DEF TypeOK
<1>4. 1..0 = {}
  OBVIOUS
<1>5. VisPaired = {} /\ UvPaired = {}
  BY <1>1, <1>4 DEF VisPaired, UvPaired
<1> QED BY <1>1, <1>3, <1>4, <1>5 DEF OnceInv, Fresh

\* vs and us are what a push leaves to tryMatch.
Pushed(vs, us) ==
  /\ vs \in Seq(VisFrame) /\ Len(vs) <= MaxBufferSize
  /\ us \in Seq(UvFrame) /\ Len(us) <= MaxBufferSize
  /\ visSent'.seq \in Nat /\ Fresh(vs, visSent'.seq, VisPaired)
  /\ uvSent'.seq \in Nat /\ Fresh(us, uvSent'.seq, UvPaired)
  /\ TryMatch(vs, us)

LEMMA PushesFresh ==
  ASSUME OnceInv
  PROVE  /\ \A t \in VisPts : PushVisible([seq |-> visSent.seq + 1, pts |-> t]) => \E vs, us : Pushed(vs, us)
         /\ \A t \in UvPts : PushUV([seq |-> uvSent.seq + 1, pts |-> t]) => \E vs, us : Pushed(vs, us)
<1>1. /\ visibleFrames \in Seq(VisFrame) /\ Len(visibleFrames) <= MaxBufferSize
      /\ uvFrames \in Seq(UvFrame) /\ Len(uvFrames) <= MaxBufferSize
      /\ visSent.seq \in Nat /\ uvSent.seq \in Nat
      /\ MaxBufferSize \in Nat
      /\ Fresh(visibleFrames, visSent.seq, VisPaired) /\ Fresh(uvFrames, uvSent.seq, UvPaired)
  BY FrameSyncAssumption DEF OnceInv, TypeOK
<1>2. /\ \A f \in VisFrame : f.seq \in Nat
      /\ \A f \in UvFrame : f.seq \in Nat
  BY DEF VisFrame, UvFrame
<1>. VisPaired \subseteq Nat /\ UvPaired \subseteq Nat
  <2>1. \A k \in 1..Len(emitted) : emitted[k].vis \in VisFrame /\ emitted[k].uv \in UvFrame
    <3>1. emitted \in Seq([vis : VisFrame, uv : UvFrame])
      BY DEF OnceInv, TypeOK
    <3>2. \A k \in 1..Len(emitted) : emitted[k] \in [vis : VisFrame, uv : UvFrame]
      BY <3>1, ElementOfSeq
    <3> QED BY <3>2
  <2> QED BY <1>2, <2>1 DEF VisPaired, UvPaired
<1>3. ASSUME NEW t \in VisPts, PushVisible([seq |-> visSent.seq + 1, pts |-> t])
      PROVE  \E vs, us : Pushed(vs, us)
  <2> DEFINE frame == [seq |-> visSent.seq + 1, pts |-> t]
             new   == EvictOld(Append(visibleFrames, frame))
  <2>1. frame \in VisFrame /\ frame.seq = visSent.seq + 1
    BY <1>1 DEF VisFrame
  <2>2. TryMatch(new, uvFrames) /\ visSent' = frame /\ uvSent' = uvSent
    BY <1>3 DEF PushVisible
  <2> HIDE DEF frame
  <2>3. Evicted(VisFrame, visibleFrames, frame, new)
    BY <1>1, <2>1, EvictFacts
  <2>4. Fresh(new, visSent.seq + 1, VisPaired)
    BY <1>1, <1>2, <2>1, FreshPush
  <2> HIDE DEF new
  <2>5. new \in Seq(VisFrame) /\ Len(new) <= MaxBufferSize
    BY <1>1, <2>3 DEF Evicted
  <2>6. visSent.seq + 1 \in Nat /\ visSent'.seq = visSent.seq + 1 /\ uvSent'.seq = uvSent.seq
    BY <1>1, <2>1, <2>2
  <2>7. Pushed(new, uvFrames)
    BY <1>1, <2>2, <2>4, <2>5, <2>6 DEF Pushed
  <2> QED BY <2>7
<1>4. ASSUME NEW t \in UvPts, PushUV([seq |-> uvSent.seq + 1, pts |-> t])
      PROVE  \E vs, us : Pushed(vs, us)
  <2> DEFINE frame == [seq |-> uvSent.seq + 1, pts |-> t]
             new   == EvictOld(Append(uvFrames, frame))
  <2>1. frame \in UvFrame /\ frame.seq = uvSent.seq + 1
    BY <1>1 DEF UvFrame
  <2>2. TryMatch(visibleFrames, new) /\ uvSent' = frame /\ visSent' = visSent
    BY <1>4 DEF PushUV
  <2> HIDE DEF frame
  <2>3. Evicted(UvFrame, uvFrames, frame, new)
    BY <1>1, <2>1, EvictFacts
  <2>4. Fresh(new, uvSent.seq + 1, UvPaired)
    BY <1>1, <1>2, <2>1, FreshPush
  <2> HIDE DEF new
  <2>5. new \in Seq(UvFrame) /\ Len(new) <= MaxBufferSize
    BY <1>1, <2>3 DEF Evicted
  <2>6. uvSent.seq + 1 \in Nat /\ uvSent'.seq = uvSent.seq + 1 /\ visSent'.seq = visSent.seq
    BY <1>1, <2>1, <2>2
  <2>7. Pushed(visibleFrames, new)
    BY <1>1, <2>2, <2>4, <2>5, <2>6 DEF Pushed
  <2> QED BY <2>7
<1> QED BY <1>3, <1>4

LEMMA NextOnce == OnceInv /\ [Next]_vars => OnceInv'
<1> SUFFICES ASSUME OnceInv, [Next]_vars PROVE OnceInv'
  OBVIOUS
<1>1. ASSUME NEW vs, NEW us, Pushed(vs, us)
      PROVE  OnceInv'
  BY <1>1, TryMatchOnce DEF Pushed
<1>2. CASE Drain
  <2>1. visibleFrames' = <<>> /\ uvFrames' = <<>> /\ UNCHANGED <<visSent, uvSent, emitted>>
        /\ Len(<<>>) = 0 /\ 1..0 = {}
    BY <1>2, EmptySeq DEF Drain
  <2>2. UNCHANGED <<VisPaired, UvPaired>>
    BY <2>1 DEF VisPaired, UvPaired
  <2>3. TypeOK'
    BY <2>1, EmptySeq, FrameSyncAssumption DEF OnceInv, TypeOK
  <2> QED BY <2>1, <2>2, <2>3 DEF OnceInv, Fresh
<1>3. CASE UNCHANGED vars
  <2>1. UNCHANGED <<VisPaired, UvPaired>> /\ TypeOK'
    BY <1>3 DEF vars, OnceInv, TypeOK, VisPaired, UvPaired
  <2> QED BY <1>3, <2>1 DEF vars, OnceInv, Fresh
<1> QED BY <1>1, <1>2, <1>3, PushesFresh DEF Next

\* The types, and that no buffer exceeds maxBufferSize, also when times are so
\* far apart that the subtraction of tryMatch overflows.
THEOREM TypeCorrect == Spec => []TypeOK
<1>1. OnceInv => TypeOK
  BY DEF OnceInv
<1> QED BY <1>1, InitOnce, NextOnce, PTL DEF Spec

\* No frame is part of two pairs or still buffered after it was emitted,
\* whatever times the cameras give their frames, whatever is evicted or
\* drained.
THEOREM EmittedOnceAlways == Spec => []EmittedOnce
<1>1. OnceInv => EmittedOnce
  <2> SUFFICES ASSUME OnceInv PROVE EmittedOnce
    OBVIOUS
  <2>1. \A k \in 1..Len(emitted) : emitted[k].vis.seq \in VisPaired /\ emitted[k].uv.seq \in UvPaired
    BY DEF VisPaired, UvPaired
  <2> QED BY <2>1 DEF OnceInv, EmittedOnce, Fresh
<1> QED BY <1>1, InitOnce, NextOnce, PTL DEF Spec
-----------------------------------------------------------------------------
IInv == TypeOK /\ NoMatchLeft

LEMMA PushVisibleStep ==
  ASSUME NoOverflow, IInv, NEW t \in VisPts,
         PushVisible([seq |-> visSent.seq + 1, pts |-> t])
  PROVE  IInv'
<1> DEFINE frame == [seq |-> visSent.seq + 1, pts |-> t]
           vs    == EvictOld(Append(visibleFrames, frame))
           n     == Len(vs)
<1>1. /\ visibleFrames \in Seq(VisFrame) /\ Len(visibleFrames) <= MaxBufferSize
      /\ uvFrames \in Seq(UvFrame) /\ Len(uvFrames) <= MaxBufferSize
      /\ visSent.seq \in Nat /\ uvSent.seq \in Nat
      /\ emitted \in Seq([vis : VisFrame, uv : UvFrame])
      /\ frame \in VisFrame
  BY DEF IInv, TypeOK, VisFrame
<1>2. TryMatch(vs, uvFrames) /\ visSent' = frame /\ uvSent' = uvSent
  BY DEF PushVisible
<1> HIDE DEF frame
<1>3. /\ vs \in Seq(VisFrame) /\ n \in 1..MaxBufferSize
      /\ \A i \in 1..(n - 1) : \E j \in 1..Len(visibleFrames) : vs[i] = visibleFrames[j]
  <2>1. visibleFrames \in Seq(VisFrame) /\ Len(visibleFrames) <= MaxBufferSize /\ frame \in VisFrame
    BY <1>1
  <2>2. Evicted(VisFrame, visibleFrames, frame, vs)
    BY <2>1, EvictFacts
  <2> QED BY <2>2 DEF Evicted
<1> HIDE DEF vs, n
<1>4. OnlyVisClose(vs, uvFrames, n)
  <2> SUFFICES ASSUME NEW i \in 1..Len(vs), NEW j \in 1..Len(uvFrames), i # n
               PROVE  FarApart(vs[i], uvFrames[j])
    BY DEF OnlyVisClose
  <2>1. i \in 1..(n - 1)
    BY <1>3 DEF n
  <2>2. PICK k \in 1..Len(visibleFrames) : vs[i] = visibleFrames[k]
    BY <1>3, <2>1
  <2> QED BY <2>2 DEF IInv, NoMatchLeft, FarApart
<1>5. n \in Nat /\ Len(vs) <= MaxBufferSize
  BY <1>3, FrameSyncAssumption DEF n
<1>6. NoMatchLeft'
  BY <1>1, <1>2, <1>3, <1>4, <1>5, TryMatchLeavesNone
<1>7. /\ visibleFrames' \in Seq(VisFrame) /\ Len(visibleFrames') <= MaxBufferSize
      /\ uvFrames' \in Seq(UvFrame) /\ Len(uvFrames') <= MaxBufferSize
      /\ emitted' \in Seq([vis : VisFrame, uv : UvFrame])
  BY <1>1, <1>2, <1>3, <1>5, TryMatchTypes
<1>8. TypeOK'
  BY <1>1, <1>2, <1>7 DEF TypeOK, VisFrame
<1> QED BY <1>6, <1>8 DEF IInv

LEMMA PushUVStep ==
  ASSUME NoOverflow, IInv, NEW t \in UvPts,
         PushUV([seq |-> uvSent.seq + 1, pts |-> t])
  PROVE  IInv'
<1> DEFINE frame == [seq |-> uvSent.seq + 1, pts |-> t]
           us    == EvictOld(Append(uvFrames, frame))
           n     == Len(us)
<1>1. /\ visibleFrames \in Seq(VisFrame) /\ Len(visibleFrames) <= MaxBufferSize
      /\ uvFrames \in Seq(UvFrame) /\ Len(uvFrames) <= MaxBufferSize
      /\ visSent.seq \in Nat /\ uvSent.seq \in Nat
      /\ emitted \in Seq([vis : VisFrame, uv : UvFrame])
      /\ frame \in UvFrame
  BY DEF IInv, TypeOK, UvFrame
<1>2. TryMatch(visibleFrames, us) /\ uvSent' = frame /\ visSent' = visSent
  BY DEF PushUV
<1> HIDE DEF frame
<1>3. /\ us \in Seq(UvFrame) /\ n \in 1..MaxBufferSize
      /\ \A i \in 1..(n - 1) : \E j \in 1..Len(uvFrames) : us[i] = uvFrames[j]
  <2>1. uvFrames \in Seq(UvFrame) /\ Len(uvFrames) <= MaxBufferSize /\ frame \in UvFrame
    BY <1>1
  <2>2. Evicted(UvFrame, uvFrames, frame, us)
    BY <2>1, EvictFacts
  <2> QED BY <2>2 DEF Evicted
<1> HIDE DEF us, n
<1>4. OnlyUvClose(visibleFrames, us, n)
  <2> SUFFICES ASSUME NEW i \in 1..Len(visibleFrames), NEW j \in 1..Len(us), j # n
               PROVE  FarApart(visibleFrames[i], us[j])
    BY DEF OnlyUvClose
  <2>1. j \in 1..(n - 1)
    BY <1>3 DEF n
  <2>2. PICK k \in 1..Len(uvFrames) : us[j] = uvFrames[k]
    BY <1>3, <2>1
  <2> QED BY <2>2 DEF IInv, NoMatchLeft, FarApart
<1>5. n \in Nat /\ Len(us) <= MaxBufferSize
  BY <1>3, FrameSyncAssumption DEF n
<1>6. NoMatchLeft'
  BY <1>1, <1>2, <1>3, <1>4, <1>5, TryMatchLeavesNone
<1>7. /\ visibleFrames' \in Seq(VisFrame) /\ Len(visibleFrames') <= MaxBufferSize
      /\ uvFrames' \in Seq(UvFrame) /\ Len(uvFrames') <= MaxBufferSize
      /\ emitted' \in Seq([vis : VisFrame, uv : UvFrame])
  BY <1>1, <1>2, <1>3, <1>5, TryMatchTypes
<1>8. TypeOK'
  BY <1>1, <1>2, <1>7 DEF TypeOK, UvFrame
<1> QED BY <1>6, <1>8 DEF IInv

LEMMA EmptyBuffers ==
  ASSUME visibleFrames = <<>>, uvFrames = <<>>
  PROVE  /\ NoMatchLeft
         /\ visibleFrames \in Seq(VisFrame) /\ Len(visibleFrames) <= MaxBufferSize
         /\ uvFrames \in Seq(UvFrame) /\ Len(uvFrames) <= MaxBufferSize
BY EmptySeq, FrameSyncAssumption DEF NoMatchLeft

LEMMA InitIInv == Init => IInv
<1> SUFFICES ASSUME Init PROVE IInv
  OBVIOUS
<1>1. visibleFrames = <<>> /\ uvFrames = <<>> /\ emitted = <<>>
  BY DEF Init
<1>2. emitted \in Seq([vis : VisFrame, uv : UvFrame])
  BY <1>1, EmptySeq
<1> QED BY <1>1, <1>2, EmptyBuffers DEF Init, IInv, TypeOK

LEMMA NextIInv ==
  ASSUME NoOverflow
  PROVE  IInv /\ [Next]_vars => IInv'
<1> SUFFICES ASSUME IInv, [Next]_vars PROVE IInv'
  OBVIOUS
<1>1. ASSUME NEW t \in VisPts, PushVisible([seq |-> visSent.seq + 1, pts |-> t])
      PROVE  IInv'
  BY <1>1, PushVisibleStep
<1>2. ASSUME NEW t \in UvPts, PushUV([seq |-> uvSent.seq + 1, pts |-> t])
      PROVE  IInv'
  BY <1>2, PushUVStep
<1>3. CASE Drain
  <2>1. visibleFrames' = <<>> /\ uvFrames' = <<>> /\ UNCHANGED <<visSent, uvSent, emitted>>
    BY <1>3 DEF Drain
  <2>2. /\ NoMatchLeft'
        /\ visibleFrames' \in Seq(VisFrame) /\ Len(visibleFrames') <= MaxBufferSize
        /\ uvFrames' \in Seq(UvFrame) /\ Len(uvFrames') <= MaxBufferSize
    BY <2>1, EmptySeq, FrameSyncAssumption DEF NoMatchLeft
  <2> QED BY <2>1, <2>2 DEF IInv, TypeOK
<1>4. CASE UNCHANGED vars
  BY <1>4 DEF vars, IInv, TypeOK, NoMatchLeft
<1> QED BY <1>1, <1>2, <1>3, <1>4 DEF Next

\* Between two pushes no buffered visible frame is within the tolerance of a
\* buffered ultraviolet one, whatever the cameras deliver and in any order.
THEOREM NoMatchLeftAlways ==
  ASSUME NoOverflow
  PROVE  Spec => []NoMatchLeft
<1>1. IInv => NoMatchLeft
  BY DEF IInv
<1> QED BY <1>1, InitIInv, NextIInv, PTL DEF Spec
-----------------------------------------------------------------------------
\* The pair tryMatch reports has the one frame that any close pair has.
LEMMA TryMatchPairs ==
  ASSUME NoOverflow, NEW vs \in Seq(VisFrame), NEW us \in Seq(UvFrame), NEW n \in Nat,
         emitted \in Seq([vis : VisFrame, uv : UvFrame]),
         TryMatch(vs, us), emitted' # emitted
  PROVE  /\ OnlyVisClose(vs, us, n) => emitted'[Len(emitted')].vis = vs[n]
         /\ OnlyUvClose(vs, us, n) => emitted'[Len(emitted')].uv = us[n]
<1>1. PICK p \in Pairings(vs, us) :
             /\ Diff(vs[p[1]], us[p[2]]) <= ToleranceNs
             /\ emitted' = Append(emitted, [vis |-> vs[p[1]], uv |-> us[p[2]]])
  BY DEF TryMatch, Candidates
<1>2. /\ p[1] \in 1..Len(vs) /\ p[2] \in 1..Len(us)
      /\ vs[p[1]] \in VisFrame /\ us[p[2]] \in UvFrame
      /\ Distance(vs[p[1]], us[p[2]]) <= ToleranceNs
  BY <1>1, AllCandidates
<1>3. ~FarApart(vs[p[1]], us[p[2]])
  <2>1. Distance(vs[p[1]], us[p[2]]) \in Nat /\ ToleranceNs \in Nat
    BY SMTT(40), <1>2, DiffIsDistance, FrameSyncAssumption
  <2> QED BY <1>2, <2>1 DEF FarApart
<1>4. [vis |-> vs[p[1]], uv |-> us[p[2]]] \in [vis : VisFrame, uv : UvFrame]
  BY <1>2
<1>5. emitted'[Len(emitted')] = [vis |-> vs[p[1]], uv |-> us[p[2]]]
  BY <1>1, <1>4, AppendProperties
<1>6. ASSUME OnlyVisClose(vs, us, n) PROVE p[1] = n
  BY <1>2, <1>3, <1>6 DEF OnlyVisClose
<1>7. ASSUME OnlyUvClose(vs, us, n) PROVE p[2] = n
  BY <1>2, <1>3, <1>7 DEF OnlyUvClose
<1> QED BY <1>5, <1>6, <1>7

LEMMA PushVisiblePairs ==
  ASSUME NoOverflow, IInv, NEW t \in VisPts,
         PushVisible([seq |-> visSent.seq + 1, pts |-> t]), emitted' # emitted
  PROVE  emitted'[Len(emitted')].vis = visSent' /\ visSent' # visSent
<1> DEFINE frame == [seq |-> visSent.seq + 1, pts |-> t]
           vs    == EvictOld(Append(visibleFrames, frame))
           n     == Len(vs)
<1>1. /\ visibleFrames \in Seq(VisFrame) /\ Len(visibleFrames) <= MaxBufferSize
      /\ uvFrames \in Seq(UvFrame)
      /\ emitted \in Seq([vis : VisFrame, uv : UvFrame])
      /\ frame \in VisFrame /\ frame # visSent
  BY DEF IInv, TypeOK, VisFrame
<1>2. TryMatch(vs, uvFrames) /\ visSent' = frame
  BY DEF PushVisible
<1> HIDE DEF frame
<1>3. Evicted(VisFrame, visibleFrames, frame, vs)
  BY <1>1, EvictFacts
<1> HIDE DEF vs
<1>4. vs \in Seq(VisFrame) /\ n \in Nat /\ vs[n] = frame
  BY <1>3, FrameSyncAssumption DEF Evicted
<1>5. OnlyVisClose(vs, uvFrames, n)
  <2> SUFFICES ASSUME NEW i \in 1..Len(vs), NEW j \in 1..Len(uvFrames), i # n
               PROVE  FarApart(vs[i], uvFrames[j])
    BY DEF OnlyVisClose
  <2>1. i \in 1..(Len(vs) - 1)
    BY <1>4
  <2>2. PICK k \in 1..Len(visibleFrames) : vs[i] = visibleFrames[k]
    BY <1>3, <2>1 DEF Evicted
  <2> QED BY <2>2 DEF IInv, NoMatchLeft, FarApart
<1> HIDE DEF n
<1>6. emitted'[Len(emitted')].vis = vs[n]
  BY <1>1, <1>2, <1>4, <1>5, TryMatchPairs
<1> QED BY <1>1, <1>2, <1>4, <1>6

LEMMA PushUVPairs ==
  ASSUME NoOverflow, IInv, NEW t \in UvPts,
         PushUV([seq |-> uvSent.seq + 1, pts |-> t]), emitted' # emitted
  PROVE  emitted'[Len(emitted')].uv = uvSent' /\ uvSent' # uvSent
<1> DEFINE frame == [seq |-> uvSent.seq + 1, pts |-> t]
           us    == EvictOld(Append(uvFrames, frame))
           n     == Len(us)
<1>1. /\ uvFrames \in Seq(UvFrame) /\ Len(uvFrames) <= MaxBufferSize
      /\ visibleFrames \in Seq(VisFrame)
      /\ emitted \in Seq([vis : VisFrame, uv : UvFrame])
      /\ frame \in UvFrame /\ frame # uvSent
  BY DEF IInv, TypeOK, UvFrame
<1>2. TryMatch(visibleFrames, us) /\ uvSent' = frame
  BY DEF PushUV
<1> HIDE DEF frame
<1>3. Evicted(UvFrame, uvFrames, frame, us)
  BY <1>1, EvictFacts
<1> HIDE DEF us
<1>4. us \in Seq(UvFrame) /\ n \in Nat /\ us[n] = frame
  BY <1>3, FrameSyncAssumption DEF Evicted
<1>5. OnlyUvClose(visibleFrames, us, n)
  <2> SUFFICES ASSUME NEW i \in 1..Len(visibleFrames), NEW j \in 1..Len(us), j # n
               PROVE  FarApart(visibleFrames[i], us[j])
    BY DEF OnlyUvClose
  <2>1. j \in 1..(Len(us) - 1)
    BY <1>4
  <2>2. PICK k \in 1..Len(uvFrames) : us[j] = uvFrames[k]
    BY <1>3, <2>1 DEF Evicted
  <2> QED BY <2>2 DEF IInv, NoMatchLeft, FarApart
<1> HIDE DEF n
<1>6. emitted'[Len(emitted')].uv = us[n]
  BY <1>1, <1>2, <1>4, <1>5, TryMatchPairs
<1> QED BY <1>1, <1>2, <1>4, <1>6

\* Whatever is reported is reported by the push of one of its two frames: the
\* arrival of a frame never pairs two that were waiting.
THEOREM PairedOnArrivalAlways ==
  ASSUME NoOverflow
  PROVE  Spec => PairedOnArrival
<1> DEFINE A == emitted' # emitted =>
                  LET pair == emitted'[Len(emitted')] IN
                    \/ pair.vis = visSent' /\ visSent' # visSent
                    \/ pair.uv = uvSent' /\ uvSent' # uvSent
<1>1. IInv /\ [Next]_vars => [A]_vars
  <2> SUFFICES ASSUME IInv, Next, emitted' # emitted
               PROVE  \/ emitted'[Len(emitted')].vis = visSent' /\ visSent' # visSent
                      \/ emitted'[Len(emitted')].uv = uvSent' /\ uvSent' # uvSent
    BY DEF vars
  <2> QED BY PushVisiblePairs, PushUVPairs DEF Next, Drain
<1>2. PairedOnArrival <=> [][A]_vars
  BY DEF PairedOnArrival
<1> HIDE DEF A
<1> QED BY <1>1, <1>2, InitIInv, NextIInv, PTL DEF Spec
-----------------------------------------------------------------------------
\* No two times, one of each camera, are at opposite ends of the 64-bit range.
NotOpposite ==
  \A v \in VisPts : \A u \in UvPts :
    v - u \in (ToleranceNs + 1 - 2 * HalfRange)..(2 * HalfRange - 1 - ToleranceNs)

LEMMA NoOverflowNotOpposite == NoOverflow => NotOpposite
<1>1. /\ HalfRange \in Nat /\ ToleranceNs \in 0..(HalfRange - 1)
      /\ VisPts \subseteq Int /\ UvPts \subseteq Int
  BY FrameSyncAssumption
<1> QED BY <1>1 DEF NoOverflow, NotOpposite

\* The difference of two 64-bit numbers is right, or off by 2^64.
LEMMA WrapCases ==
  ASSUME NEW x \in (1 - 2 * HalfRange)..(2 * HalfRange - 1)
  PROVE  /\ Wrap(x) \in {x, x - 2 * HalfRange, x + 2 * HalfRange}
         /\ Wrap(x) \in (-HalfRange)..(HalfRange - 1)
<1> DEFINE h == HalfRange
           q == (x + h) \div (2 * h)
           r == (x + h) % (2 * h)
<1>1. h \in Nat \ {0} /\ x \in Int
  BY FrameSyncAssumption
<1>2. x + h = (2 * h) * q + r /\ q \in Int /\ r \in 0..(2 * h - 1)
  BY <1>1, SMT
<1>3. Wrap(x) = r - h
  BY DEF Wrap
<1> HIDE DEF h, q, r
<1>4. x > -2 * h /\ x < 2 * h
  BY <1>1 DEF h
<1>5. CASE q \in {-1, 0, 1}
  <2>1. (2 * h) * q \in {-2 * h, 0, 2 * h}
    BY <1>1, <1>5, SMT
  <2>2. r - h \in {x, x - 2 * h, x + 2 * h} /\ r - h \in (-h)..(h - 1)
    BY <1>1, <1>2, <2>1, SMT
  <2> QED BY <1>3, <2>2 DEF h
<1>6. CASE q >= 2
  <2>1. (2 * h) * q >= 4 * h
    BY <1>1, <1>2, <1>6, SMT
  <2> QED BY <1>1, <1>2, <1>4, <2>1, SMT
<1>7. CASE q <= -2
  <2>1. (2 * h) * q <= -4 * h
    BY <1>1, <1>2, <1>7, SMT
  <2> QED BY <1>1, <1>2, <1>4, <2>1, SMT
<1> QED BY <1>2, <1>5, <1>6, <1>7

\* What tryMatch takes for close is close.
LEMMA DiffClose ==
  ASSUME NotOpposite, NEW a \in VisFrame, NEW b \in UvFrame, ~(Diff(a, b) < 0), Diff(a, b) <= ToleranceNs
  PROVE  Distance(a, b) <= ToleranceNs
<1> DEFINE d == a.pts - b.pts
           w == Wrap(d)
<1>1. HalfRange \in Nat \ {0} /\ ToleranceNs \in 0..(HalfRange - 1)
  BY FrameSyncAssumption
<1>2. a.pts \in Int /\ b.pts \in Int /\ d \in (1 - 2 * HalfRange)..(2 * HalfRange - 1)
  <2>1. a.pts \in (-HalfRange)..(HalfRange - 1) /\ b.pts \in (-HalfRange)..(HalfRange - 1)
    BY FrameSyncAssumption DEF VisFrame, UvFrame
  <2> QED BY <1>1, <2>1
<1>3. d \in (ToleranceNs + 1 - 2 * HalfRange)..(2 * HalfRange - 1 - ToleranceNs)
  BY DEF NotOpposite, VisFrame, UvFrame
<1>4. w \in {d, d - 2 * HalfRange, d + 2 * HalfRange} /\ w \in (-HalfRange)..(HalfRange - 1)
  BY <1>2, WrapCases
<1>5. Diff(a, b) = IF w < 0 THEN Wrap(-w) ELSE w
  BY DEF Diff
<1> HIDE DEF w
<1>6. w \in (-ToleranceNs)..ToleranceNs
  <2>1. CASE ~(w < 0)
    BY <1>1, <1>4, <1>5, <2>1
  <2>2. CASE w < 0 /\ w # -HalfRange
    <3>1. -w \in (-HalfRange)..(HalfRange - 1)
      BY <1>1, <1>4, <2>2
    <3>2. Wrap(-w) = -w
      BY <3>1, WrapSmall
    <3> QED BY <1>1, <1>4, <1>5, <2>2, <3>2
  <2>3. CASE w = -HalfRange
    <3>1. -w = HalfRange /\ HalfRange \in (1 - 2 * HalfRange)..(2 * HalfRange - 1)
      BY <1>1, <2>3
    <3>2. Wrap(HalfRange) \in (-HalfRange)..(HalfRange - 1)
          /\ Wrap(HalfRange) \in {HalfRange, HalfRange - 2 * HalfRange, HalfRange + 2 * HalfRange}
      BY <3>1, WrapCases
    <3>3. Wrap(HalfRange) < 0
      BY <1>1, <3>2
    <3>4. Diff(a, b) < 0
      BY <1>1, <1>5, <2>3, <3>1, <3>3
    <3> QED BY <3>4
  <2> QED BY <2>1, <2>2, <2>3
<1>7. w = d
  BY <1>1, <1>2, <1>3, <1>4, <1>6
<1> QED BY <1>1, <1>2, <1>6, <1>7 DEF Distance

\* What tryMatch adds to the pairs, if anything, is close.
LEMMA TryMatchClose ==
  ASSUME NotOpposite, NEW vs \in Seq(VisFrame), NEW us \in Seq(UvFrame),
         emitted \in Seq([vis : VisFrame, uv : UvFrame]), TryMatch(vs, us)
  PROVE  \/ UNCHANGED emitted
         \/ \E v \in VisFrame, u \in UvFrame :
              emitted' = Append(emitted, [vis |-> v, uv |-> u]) /\ Distance(v, u) <= ToleranceNs
<1> SUFFICES ASSUME emitted' # emitted
             PROVE  \E v \in VisFrame, u \in UvFrame :
                      emitted' = Append(emitted, [vis |-> v, uv |-> u]) /\ Distance(v, u) <= ToleranceNs
  OBVIOUS
<1>1. PICK p \in Candidates(vs, us) :
             /\ Diff(vs[p[1]], us[p[2]]) <= ToleranceNs
             /\ emitted' = Append(emitted, [vis |-> vs[p[1]], uv |-> us[p[2]]])
  BY DEF TryMatch
<1>2. p \in Pairings(vs, us) /\ p[1] \in 1..Len(vs) /\ p[2] \in 1..Len(us)
  BY DEF Candidates, Pairings
<1>3. vs[p[1]] \in VisFrame /\ us[p[2]] \in UvFrame
  BY <1>2, ElementOfSeq
<1>4. ~Before(p, p)
  BY <1>2 DEF Before
<1>5. ~(Diff(vs[p[1]], us[p[2]]) < 0)
  BY <1>2, <1>4 DEF Candidates
<1>6. Distance(vs[p[1]], us[p[2]]) <= ToleranceNs
  BY <1>1, <1>3, <1>5, DiffClose
<1> QED BY <1>1, <1>3, <1>6

\* Every step leaves the pairs as they are, or adds one close pair.
LEMMA StepClose ==
  ASSUME NotOpposite, TypeOK, [Next]_vars
  PROVE  \/ UNCHANGED emitted
         \/ \E v \in VisFrame, u \in UvFrame :
              emitted' = Append(emitted, [vis |-> v, uv |-> u]) /\ Distance(v, u) <= ToleranceNs
<1>1. /\ visibleFrames \in Seq(VisFrame) /\ Len(visibleFrames) <= MaxBufferSize
      /\ uvFrames \in Seq(UvFrame) /\ Len(uvFrames) <= MaxBufferSize
      /\ visSent.seq \in Nat /\ uvSent.seq \in Nat
      /\ emitted \in Seq([vis : VisFrame, uv : UvFrame])
  BY DEF TypeOK
<1>2. ASSUME NEW t \in VisPts, PushVisible([seq |-> visSent.seq + 1, pts |-> t])
      PROVE  \E vs \in Seq(VisFrame) : TryMatch(vs, uvFrames)
  <2> DEFINE frame == [seq |-> visSent.seq + 1, pts |-> t]
  <2>1. frame \in VisFrame
    BY <1>1 DEF VisFrame
  <2>2. TryMatch(EvictOld(Append(visibleFrames, frame)), uvFrames)
    BY <1>2 DEF PushVisible
  <2> HIDE DEF frame
  <2>3. Evicted(VisFrame, visibleFrames, frame, EvictOld(Append(visibleFrames, frame)))
    BY <1>1, <2>1, EvictFacts
  <2>4. EvictOld(Append(visibleFrames, frame)) \in Seq(VisFrame)
    BY <2>3 DEF Evicted
  <2> QED BY <2>2, <2>4
<1>3. ASSUME NEW t \in UvPts, PushUV([seq |-> uvSent.seq + 1, pts |-> t])
      PROVE  \E us \in Seq(UvFrame) : TryMatch(visibleFrames, us)
  <2> DEFINE frame == [seq |-> uvSent.seq + 1, pts |-> t]
  <2>1. frame \in UvFrame
    BY <1>1 DEF UvFrame
  <2>2. TryMatch(visibleFrames, EvictOld(Append(uvFrames, frame)))
    BY <1>3 DEF PushUV
  <2> HIDE DEF frame
  <2>3. Evicted(UvFrame, uvFrames, frame, EvictOld(Append(uvFrames, frame)))
    BY <1>1, <2>1, EvictFacts
  <2>4. EvictOld(Append(uvFrames, frame)) \in Seq(UvFrame)
    BY <2>3 DEF Evicted
  <2> QED BY <2>2, <2>4
<1>4. ASSUME NEW vs \in Seq(VisFrame), NEW us \in Seq(UvFrame), TryMatch(vs, us)
      PROVE  \/ UNCHANGED emitted
             \/ \E v \in VisFrame, u \in UvFrame :
                  emitted' = Append(emitted, [vis |-> v, uv |-> u]) /\ Distance(v, u) <= ToleranceNs
  BY <1>1, <1>4, TryMatchClose
<1>5. CASE Drain \/ UNCHANGED vars
  BY <1>5 DEF Drain, vars
<1> QED BY <1>1, <1>2, <1>3, <1>4, <1>5 DEF Next

LEMMA NextClose ==
  ASSUME NotOpposite, TypeOK, EmittedClose, [Next]_vars
  PROVE  EmittedClose'
<1>1. CASE UNCHANGED emitted
  BY <1>1 DEF EmittedClose
<1>2. ASSUME NEW v \in VisFrame, NEW u \in UvFrame,
             emitted' = Append(emitted, [vis |-> v, uv |-> u]), Distance(v, u) <= ToleranceNs
      PROVE  EmittedClose'
  <2> DEFINE pair == [vis |-> v, uv |-> u]
             n    == Len(emitted)
  <2>1. emitted \in Seq([vis : VisFrame, uv : UvFrame]) /\ pair \in [vis : VisFrame, uv : UvFrame]
    BY DEF TypeOK
  <2>2. /\ n \in Nat /\ Len(emitted') = n + 1 /\ emitted'[n + 1] = pair
        /\ \A k \in 1..n : emitted'[k] = emitted[k]
    BY <1>2, <2>1, AppendProperties, LenProperties
  <2>3. pair.vis = v /\ pair.uv = u
    OBVIOUS
  <2> HIDE DEF pair
  <2>4. ASSUME NEW k \in 1..Len(emitted')
        PROVE  Distance(emitted'[k].vis, emitted'[k].uv) <= ToleranceNs
    <3>1. k \in 1..n \/ k = n + 1
      BY <2>2
    <3>2. CASE k \in 1..n
      BY <2>2, <3>2 DEF EmittedClose
    <3> QED BY <1>2, <2>2, <2>3, <3>1, <3>2
  <2> QED BY <2>4 DEF EmittedClose
<1> QED BY <1>1, <1>2, StepClose

\* The callback receives frames no further apart than the tolerance, also when
\* the subtraction of tryMatch overflows.
THEOREM EmittedCloseAlways ==
  ASSUME NotOpposite
  PROVE  Spec => []EmittedClose
<1>1. Init => EmittedClose
  <2> SUFFICES ASSUME Init PROVE EmittedClose
    OBVIOUS
  <2>1. Len(emitted) = 0 /\ 1..0 = {}
    BY EmptySeq DEF Init
  <2> QED BY <2>1 DEF EmittedClose
<1>2. TypeOK /\ EmittedClose /\ [Next]_vars => EmittedClose'
  BY NextClose
<1> QED BY <1>1, <1>2, TypeCorrect, PTL DEF Spec
-----------------------------------------------------------------------------
LEMMA NextOrder ==
  ASSUME NoOverflow, IInv, OnceInv, OnceInv', EmittedClose, OrderPreserved, [Next]_vars
  PROVE  OrderPreserved'
<1>1. NotOpposite
  BY NoOverflowNotOpposite
<1>2. CASE UNCHANGED emitted
  BY <1>2 DEF OrderPreserved
<1>3. ASSUME emitted' # emitted, NEW v \in VisFrame, NEW u \in UvFrame,
             emitted' = Append(emitted, [vis |-> v, uv |-> u]), Distance(v, u) <= ToleranceNs
      PROVE  OrderPreserved'
  <2> DEFINE pair == [vis |-> v, uv |-> u]
             n    == Len(emitted)
  <2>1. emitted \in Seq([vis : VisFrame, uv : UvFrame]) /\ pair \in [vis : VisFrame, uv : UvFrame]
    BY DEF OnceInv, TypeOK
  <2>2. /\ n \in Nat /\ Len(emitted') = n + 1 /\ emitted'[n + 1] = pair
        /\ \A k \in 1..n : emitted'[k] = emitted[k]
    BY <1>3, <2>1, AppendProperties, LenProperties
  <2>3. pair.vis = v /\ pair.uv = u
    OBVIOUS
  <2> HIDE DEF pair, n
  <2>4. ASSUME NEW k \in 1..n, Spaced(emitted[k].vis, v), Spaced(emitted[k].uv, u)
        PROVE  emitted[k].vis.seq < v.seq /\ emitted[k].uv.seq < u.seq
    <3> DEFINE w == emitted[k].vis
               x == emitted[k].uv
    <3>1. w \in VisFrame /\ x \in UvFrame
      <4>1. emitted[k] \in [vis : VisFrame, uv : UvFrame]
        BY <2>1, ElementOfSeq DEF n
      <4> QED BY <4>1
    <3>2. Distance(w, x) <= ToleranceNs
      BY DEF EmittedClose, n
    <3>3. Spaced(w, v) /\ Spaced(x, u)
      BY <2>4
    <3>4. w.seq # v.seq /\ x.seq # u.seq
      <4>1. k \in 1..Len(emitted') /\ n + 1 \in 1..Len(emitted') /\ k # n + 1
        BY <2>2
      <4> QED BY <2>2, <2>3, <4>1 DEF OnceInv
    <3>5. w.seq <= visSent.seq /\ x.seq <= uvSent.seq
      BY DEF OnceInv, Fresh, VisPaired, UvPaired, n
    <3> HIDE DEF w, x
    <3>6. v.seq = visSent.seq + 1 \/ u.seq = uvSent.seq + 1
      <4>1. \/ emitted'[Len(emitted')].vis = visSent' /\ visSent' # visSent
            \/ emitted'[Len(emitted')].uv = uvSent' /\ uvSent' # uvSent
        BY <1>3, PushVisiblePairs, PushUVPairs DEF Next, Drain, vars
      <4>2. /\ visSent' # visSent => visSent'.seq = visSent.seq + 1
            /\ uvSent' # uvSent => uvSent'.seq = uvSent.seq + 1
        <5>1. ASSUME NEW t \in VisPts, PushVisible([seq |-> visSent.seq + 1, pts |-> t])
              PROVE  visSent'.seq = visSent.seq + 1 /\ uvSent' = uvSent
          BY <5>1 DEF PushVisible
        <5>2. ASSUME NEW t \in UvPts, PushUV([seq |-> uvSent.seq + 1, pts |-> t])
              PROVE  uvSent'.seq = uvSent.seq + 1 /\ visSent' = visSent
          BY <5>2 DEF PushUV
        <5>3. Drain \/ UNCHANGED vars => UNCHANGED <<visSent, uvSent>>
          BY DEF Drain, vars
        <5> QED BY <5>1, <5>2, <5>3 DEF Next
      <4> QED BY <2>2, <2>3, <4>1, <4>2
    <3>7. /\ v.pts \in Int /\ u.pts \in Int /\ w.pts \in Int /\ x.pts \in Int /\ ToleranceNs \in Nat
          /\ v.seq \in Nat /\ u.seq \in Nat /\ w.seq \in Nat /\ x.seq \in Nat
          /\ visSent.seq \in Nat /\ uvSent.seq \in Nat
      <4>1. VisPts \subseteq Int /\ UvPts \subseteq Int /\ ToleranceNs \in Nat
        BY FrameSyncAssumption
      <4> QED BY <3>1, <4>1 DEF VisFrame, UvFrame, OnceInv, TypeOK
    <3>8. CASE v.seq = visSent.seq + 1
      <4>1. w.seq < v.seq /\ w.pts + ToleranceNs < v.pts
        BY <3>3, <3>5, <3>7, <3>8 DEF Spaced
      <4>2. ~(u.seq < x.seq)
        <5> SUFFICES ASSUME u.seq < x.seq PROVE FALSE
          OBVIOUS
        <5>1. u.pts + ToleranceNs < x.pts
          BY <3>3 DEF Spaced
        <5>2. x.pts <= w.pts + ToleranceNs
          BY <3>2, <3>7 DEF Distance
        <5>3. v.pts <= u.pts + ToleranceNs
          BY <1>3, <3>7 DEF Distance
        <5> QED BY <3>7, <4>1, <5>1, <5>2, <5>3
      <4> QED BY <3>4, <3>7, <4>1, <4>2 DEF w, x
    <3>9. CASE u.seq = uvSent.seq + 1
      <4>1. x.seq < u.seq /\ x.pts + ToleranceNs < u.pts
        BY <3>3, <3>5, <3>7, <3>9 DEF Spaced
      <4>2. ~(v.seq < w.seq)
        <5> SUFFICES ASSUME v.seq < w.seq PROVE FALSE
          OBVIOUS
        <5>1. v.pts + ToleranceNs < w.pts
          BY <3>3 DEF Spaced
        <5>2. w.pts <= x.pts + ToleranceNs
          BY <3>2, <3>7 DEF Distance
        <5>3. u.pts <= v.pts + ToleranceNs
          BY SMTT(40), <1>3, <3>7 DEF Distance
        <5> QED BY <3>7, <4>1, <5>1, <5>2, <5>3
      <4> QED BY <3>4, <3>7, <4>1, <4>2 DEF w, x
    <3> QED BY <3>6, <3>8, <3>9
  <2>5. ASSUME NEW k \in 1..Len(emitted'), NEW l \in 1..Len(emitted'), k < l,
               Spaced(emitted'[k].vis, emitted'[l].vis), Spaced(emitted'[k].uv, emitted'[l].uv)
        PROVE  emitted'[k].vis.seq < emitted'[l].vis.seq /\ emitted'[k].uv.seq < emitted'[l].uv.seq
    <3>1. k \in 1..n /\ (l \in 1..n \/ l = n + 1)
      BY <2>2, <2>5
    <3>2. CASE l \in 1..n
      BY <2>2, <2>5, <3>1, <3>2 DEF OrderPreserved, n
    <3>3. CASE l = n + 1
      BY <2>2, <2>3, <2>4, <2>5, <3>1, <3>3
    <3> QED BY <3>1, <3>2, <3>3
  <2> QED BY <2>5 DEF OrderPreserved
<1>4. \/ UNCHANGED emitted
      \/ \E v \in VisFrame, u \in UvFrame :
           emitted' = Append(emitted, [vis |-> v, uv |-> u]) /\ Distance(v, u) <= ToleranceNs
  BY <1>1, StepClose DEF OnceInv
<1> QED BY <1>2, <1>3, <1>4

\* Pairs leave in the order of both cameras if the frames of each camera are
\* further apart than the tolerance.  The pair reported later has the frame
\* that just arrived, and the other camera's frames cannot be crosswise without
\* two of one camera being too close.
THEOREM OrderPreservedAlways ==
  ASSUME NoOverflow
  PROVE  Spec => []OrderPreserved
<1>1. NotOpposite
  BY NoOverflowNotOpposite
<1>2. Spec => []EmittedClose
  BY <1>1, EmittedCloseAlways
<1>3. Init => OrderPreserved
  <2> SUFFICES ASSUME Init PROVE OrderPreserved
    OBVIOUS
  <2>1. Len(emitted) = 0 /\ 1..0 = {}
    BY EmptySeq DEF Init
  <2> QED BY <2>1 DEF OrderPreserved
<1>4. IInv /\ OnceInv /\ OnceInv' /\ EmittedClose /\ OrderPreserved /\ [Next]_vars => OrderPreserved'
  BY NextOrder
<1> QED BY <1>2, <1>3, <1>4, InitOnce, NextOnce, InitIInv, NextIInv, PTL DEF Spec
-----------------------------------------------------------------------------
\* Of the frames a camera delivered after the one at p of its buffer, those
\* that are not gone are behind p in the buffer.
LEMMA FewLeft ==
  ASSUME NEW F, \A f \in F : f.seq \in Nat, NEW s \in Seq(F), Len(s) <= MaxBufferSize,
         NEW last \in Nat, NEW gone, Fresh(s, last, gone), NEW p \in 1..Len(s)
  PROVE  Cardinality(((s[p].seq + 1)..last) \ gone) < MaxBufferSize
<1> DEFINE left == ((s[p].seq + 1)..last) \ gone
           I    == (p + 1)..Len(s)
           T    == {s[i].seq : i \in I}
           f    == [i \in I |-> s[i].seq]
<1>1. /\ Len(s) \in Nat /\ MaxBufferSize \in Nat /\ p \in Nat
      /\ \A i \in 1..Len(s) : s[i].seq \in Nat
  BY ElementOfSeq, LenProperties, FrameSyncAssumption
<1>2. left \subseteq T
  <2> SUFFICES ASSUME NEW n \in left PROVE n \in T
    OBVIOUS
  <2>1. n \in s[p].seq..last /\ n \notin gone /\ n # s[p].seq
    BY <1>1
  <2>2. PICK j \in 1..Len(s) : s[j].seq = n
    BY <2>1 DEF Fresh
  <2>3. j < p => s[j].seq < s[p].seq
    BY DEF Fresh
  <2>4. j \in I
    BY <1>1, <2>1, <2>2, <2>3
  <2> QED BY <2>2, <2>4
<1>3. IsFiniteSet(I) /\ Cardinality(I) < MaxBufferSize
  <2>1. p + 1 \in Int /\ Len(s) \in Int
    BY <1>1
  <2>2. IsFiniteSet(I) /\ Cardinality(I) = IF p + 1 > Len(s) THEN 0 ELSE Len(s) - (p + 1) + 1
    BY <2>1, FS_Interval
  <2> QED BY <1>1, <2>2
<1>4. IsFiniteSet(T) /\ Cardinality(T) <= Cardinality(I)
  <2>1. f \in Surjection(I, T)
    BY DEF Surjection
  <2> QED BY <1>3, <2>1, FS_Surjection
<1>5. Cardinality(left) <= Cardinality(T) /\ IsFiniteSet(left)
  BY <1>2, <1>4, FS_Subset
<1> HIDE DEF left, I, T, f
<1>6. Cardinality(left) \in Nat /\ Cardinality(T) \in Nat /\ Cardinality(I) \in Nat
  BY <1>3, <1>4, <1>5, FS_CardinalityType
<1>7. Cardinality(left) < MaxBufferSize
  BY <1>1, <1>3, <1>4, <1>5, <1>6
<1> QED BY <1>7 DEF left

LEMMA TryMatchLeftovers ==
  ASSUME NEW vs \in Seq(VisFrame), NEW us \in Seq(UvFrame), NEW v \in Nat, NEW u \in Nat,
         Len(vs) <= MaxBufferSize, Len(us) <= MaxBufferSize,
         OnceInv, Fresh(vs, v, VisPaired), Fresh(us, u, UvPaired), TryMatch(vs, us),
         emitted' # emitted
  PROVE  LET pair == emitted'[Len(emitted')] IN
           /\ Cardinality(((pair.vis.seq + 1)..v) \ VisPaired) < MaxBufferSize
           /\ Cardinality(((pair.uv.seq + 1)..u) \ UvPaired) < MaxBufferSize
<1>1. PICK p \in Pairings(vs, us) : emitted' = Append(emitted, [vis |-> vs[p[1]], uv |-> us[p[2]]])
  BY DEF TryMatch, Candidates
<1>2. /\ p[1] \in 1..Len(vs) /\ p[2] \in 1..Len(us)
      /\ vs[p[1]] \in VisFrame /\ us[p[2]] \in UvFrame
  BY ElementOfSeq DEF Pairings
<1> DEFINE n    == Len(emitted)
           pair == [vis |-> vs[p[1]], uv |-> us[p[2]]]
<1>3. emitted \in Seq([vis : VisFrame, uv : UvFrame]) /\ pair \in [vis : VisFrame, uv : UvFrame]
  BY <1>2 DEF OnceInv, TypeOK
<1>4. /\ n \in Nat /\ Len(emitted') = n + 1 /\ emitted'[n + 1] = pair
      /\ \A k \in 1..n : emitted'[k] = emitted[k]
  BY <1>1, <1>3, AppendProperties, LenProperties
<1>5. pair.vis = vs[p[1]] /\ pair.uv = us[p[2]]
  OBVIOUS
<1> HIDE DEF pair
<1>6. /\ \A f \in VisFrame : f.seq \in Nat
      /\ \A f \in UvFrame : f.seq \in Nat
  BY DEF VisFrame, UvFrame
<1>7. Cardinality(((vs[p[1]].seq + 1)..v) \ VisPaired) < MaxBufferSize
  BY <1>2, <1>6, FewLeft
<1>8. Cardinality(((us[p[2]].seq + 1)..u) \ UvPaired) < MaxBufferSize
  BY <1>2, <1>6, FewLeft
<1> QED BY <1>4, <1>5, <1>7, <1>8

\* What waits for a partner is evicted by the frames that come after it and
\* find none, in both cameras and whatever is paired meanwhile.
THEOREM LeftoversEvictedAlways == Spec => LeftoversEvicted
<1> DEFINE A == emitted' # emitted =>
                  LET pair == emitted'[Len(emitted')] IN
                    /\ Cardinality(((pair.vis.seq + 1)..visSent'.seq) \ VisPaired) < MaxBufferSize
                    /\ Cardinality(((pair.uv.seq + 1)..uvSent'.seq) \ UvPaired) < MaxBufferSize
<1>1. OnceInv /\ [Next]_vars => [A]_vars
  <2> SUFFICES ASSUME OnceInv, Next, emitted' # emitted PROVE A
    BY DEF vars
  <2>1. PICK vs, us : Pushed(vs, us)
    BY PushesFresh DEF Next, Drain
  <2> QED BY <2>1, TryMatchLeftovers DEF Pushed
<1>2. LeftoversEvicted <=> [][A]_vars
  BY DEF LeftoversEvicted
<1> HIDE DEF A
<1> QED BY <1>1, <1>2, InitOnce, NextOnce, PTL DEF Spec
-----------------------------------------------------------------------------
\* Every set of natural numbers that has an element has a least one.
LEMMA LeastNat ==
  ASSUME NEW T \in SUBSET Nat, T # {}
  PROVE  \E x \in T : \A y \in T : x <= y
<1> DEFINE R == OpToRel(<, Nat)
<1>1. \E x \in T : \A y \in T : ~(<<y, x>> \in R)
  BY NatLessThanWellFounded, WFMin
<1>2. \A x, y \in Nat : y < x => <<y, x>> \in R
  BY DEF OpToRel
<1> HIDE DEF R
<1>3. PICK x \in T : \A y \in T : ~(<<y, x>> \in R)
  BY <1>1
<1>4. ASSUME NEW y \in T PROVE x <= y
  <2>1. x \in Nat /\ y \in Nat
    OBVIOUS
  <2>2. ~(y < x)
    BY <1>2, <1>3, <2>1
  <2> QED BY <2>1, <2>2
<1> QED BY <1>4

\* Induction up to n, over a set instead of a predicate.
LEMMA InductTo ==
  ASSUME NEW n \in Nat, NEW T \in SUBSET (0..n), 0 \in T, \A m \in T : m < n => m + 1 \in T
  PROVE  n \in T
<1>1. SUFFICES ASSUME (0..n) \ T # {} PROVE FALSE
  OBVIOUS
<1>2. PICK x \in (0..n) \ T : \A y \in (0..n) \ T : x <= y
  <2>1. (0..n) \ T \in SUBSET Nat
    OBVIOUS
  <2> QED BY <1>1, <2>1, LeastNat
<1>3. x # 0 /\ x - 1 \in 0..n /\ x - 1 < n /\ ~(x <= x - 1)
  BY <1>2
<1>4. x - 1 \in T /\ (x - 1) + 1 \in T
  BY <1>2, <1>3
<1> QED BY <1>2, <1>4

\* A loop of n rounds with a body g computes a value after each round.
Loop(f, n, base, g) == f = [j \in 0..n |-> IF j = 0 THEN base ELSE g[<<j, f[j - 1]>>]]

LEMMA LoopExists ==
  ASSUME NEW S, NEW base \in S, NEW n \in Nat, NEW g \in [(1..n) \X S -> S]
  PROVE  \E f \in [0..n -> S] : Loop(f, n, base, g)
<1> DEFINE T == {m \in 0..n : \E f \in [0..m -> S] : Loop(f, m, base, g)}
<1>1. 0 \in T
  <2> DEFINE f == [j \in 0..0 |-> base]
             h == [j \in 0..0 |-> IF j = 0 THEN base ELSE g[<<j, f[j - 1]>>]]
  <2>1. f = h
    OBVIOUS
  <2>2. f \in [0..0 -> S]
    OBVIOUS
  <2> HIDE DEF f
  <2>3. Loop(f, 0, base, g)
    BY <2>1 DEF Loop
  <2> QED BY <2>2, <2>3
<1>2. ASSUME NEW m \in T, m < n PROVE m + 1 \in T
  <2>1. PICK f \in [0..m -> S] : Loop(f, m, base, g)
    OBVIOUS
  <2> DEFINE more == [j \in 0..(m + 1) |-> IF j = m + 1 THEN g[<<m + 1, f[m]>>] ELSE f[j]]
             h    == [j \in 0..(m + 1) |-> IF j = 0 THEN base ELSE g[<<j, more[j - 1]>>]]
  <2>2. m \in Nat /\ m + 1 \in 1..n /\ f[m] \in S
    <3>1. m \in 0..n
      OBVIOUS
    <3> HIDE DEF T
    <3>2. m \in Nat /\ m + 1 \in 1..n /\ m \in 0..m
      BY <1>2, <3>1
    <3> QED BY <3>2
  <2>3. g[<<m + 1, f[m]>>] \in S
    BY <2>2
  <2>4. more \in [0..(m + 1) -> S]
    BY <2>3
  <2>5. ASSUME NEW j \in 0..(m + 1) PROVE more[j] = h[j]
    <3>1. CASE j = m + 1
      <4>1. j - 1 = m /\ m \in 0..(m + 1) /\ m # m + 1 /\ j # 0
        BY <2>2, <3>1
      <4>2. more[j - 1] = f[m]
        BY <4>1
      <4> QED BY <3>1, <4>1, <4>2
    <3>2. CASE j # m + 1
      <4>1. j \in 0..m /\ more[j] = f[j]
        BY <2>2, <3>2
      <4>2. f[j] = IF j = 0 THEN base ELSE g[<<j, f[j - 1]>>]
        BY <2>1, <4>1 DEF Loop
      <4>3. j # 0 => more[j - 1] = f[j - 1]
        BY <2>2, <4>1
      <4> QED BY <4>1, <4>2, <4>3
    <3> QED BY <3>1, <3>2
  <2>6. more = h
    BY <2>5
  <2> HIDE DEF more
  <2>7. Loop(more, m + 1, base, g)
    BY <2>6 DEF Loop
  <2>8. m + 1 \in 0..n
    BY <2>2
  <2> QED BY <2>4, <2>7, <2>8
<1>3. n \in T
  <2>1. T \in SUBSET (0..n)
    OBVIOUS
  <2> HIDE DEF T
  <2> QED BY <1>1, <1>2, <2>1, InductTo
<1> QED BY <1>3

\* What the loops of tryMatch know: the pairs seen since one with a negative
\* distance, and the first of the closest of those, if there are any.
Result == [diff : Int, pos : Int \X Int]
Gap(vs, us, p) == Diff(vs[p[1]], us[p[2]])
Since(vs, us, seen) == {p \in seen : \A q \in seen : Gap(vs, us, q) < 0 => Before(q, p)}
Seen(vs, us, i, j) == {p \in Pairings(vs, us) : p[1] < i \/ (p[1] = i /\ p[2] <= j)}

Found(best, vs, us, seen) ==
  /\ best \in Result
  /\ best.diff < 0 => Since(vs, us, seen) = {}
  /\ best.diff >= 0 =>
       /\ best.pos \in Since(vs, us, seen)
       /\ best.diff = Gap(vs, us, best.pos)
       /\ \A q \in Since(vs, us, seen) :
            \/ best.diff < Gap(vs, us, q)
            \/ best.diff = Gap(vs, us, q) /\ (best.pos = q \/ Before(best.pos, q))

LEMMA GapInt ==
  ASSUME NEW vs \in Seq(VisFrame), NEW us \in Seq(UvFrame), NEW p \in Pairings(vs, us)
  PROVE  Gap(vs, us, p) \in Int
<1>1. vs[p[1]] \in VisFrame /\ us[p[2]] \in UvFrame
  BY ElementOfSeq DEF Pairings
<1>2. vs[p[1]].pts \in Int /\ us[p[2]].pts \in Int /\ HalfRange \in Nat \ {0}
  <2>1. HalfRange \in Nat \ {0}
    BY FrameSyncAssumption
  <2>2. VisPts \subseteq Int /\ UvPts \subseteq Int
    BY <2>1, FrameSyncAssumption
  <2> QED BY <1>1, <2>1, <2>2 DEF VisFrame, UvFrame
<1>3. \A x \in Int : Wrap(x) \in Int
  BY <1>2 DEF Wrap
<1>4. Wrap(vs[p[1]].pts - us[p[2]].pts) \in Int
  <2>1. vs[p[1]].pts - us[p[2]].pts \in Int
    BY <1>2
  <2> QED BY Zenon, <1>3, <2>1
<1> QED BY <1>3, <1>4 DEF Gap, Diff

\* One comparison.
LEMMA NearerFinds ==
  ASSUME NEW vs \in Seq(VisFrame), NEW us \in Seq(UvFrame),
         NEW seen \in SUBSET Pairings(vs, us), NEW p \in Pairings(vs, us),
         \A q \in seen : Before(q, p), NEW best, Found(best, vs, us, seen)
  PROVE  Found(Nearer(best, vs, us, p), vs, us, seen \cup {p})
<1> DEFINE d == Gap(vs, us, p)
           next == Nearer(best, vs, us, p)
           C == Since(vs, us, seen)
           D == Since(vs, us, seen \cup {p})
<1>1. d \in Int /\ \A q \in seen : Gap(vs, us, q) \in Int
  BY GapInt
<1>2. p \in Int \X Int /\ \A q \in seen : q \in Int \X Int
  BY DEF Pairings
<1>3. best \in Result /\ best.diff \in Int
  BY DEF Found, Result
<1>4. next = IF best.diff < 0 \/ d < best.diff THEN [diff |-> d, pos |-> p] ELSE best
  BY DEF Nearer, Gap
<1>5. next \in Result
  BY <1>1, <1>2, <1>3, <1>4 DEF Result
<1>6. \A q \in seen : ~Before(p, q)
  BY <1>2 DEF Before
<1>7. ~Before(p, p)
  BY <1>2 DEF Before
<1>8. CASE d < 0
  <2>1. D = {}
    BY <1>6, <1>7, <1>8 DEF Since
  <2>2. next.diff < 0
    BY <1>3, <1>4, <1>8, <1>1
  <2> HIDE DEF D, next, d
  <2>3. next.diff \in Int
    BY <1>5 DEF Result
  <2>4. ~(next.diff >= 0)
    BY <2>2, <2>3
  <2> QED BY <1>5, <2>1, <2>2, <2>4 DEF Found, D, next
<1>9. CASE d >= 0
  <2>1. ~(d < 0)
    BY <1>1, <1>9
  <2>2. D = C \cup {p}
    <3>1. \A q \in seen : q \in D <=> q \in C
      BY <2>1 DEF Since
    <3>2. p \in D
      BY <2>1 DEF Since
    <3>3. D \subseteq seen \cup {p} /\ C \subseteq seen
      BY DEF Since
    <3> HIDE DEF C, D
    <3> QED BY <3>1, <3>2, <3>3
  <2>3. /\ best.diff < 0 => C = {}
        /\ best.diff >= 0 =>
             /\ best.pos \in C /\ best.diff = Gap(vs, us, best.pos)
             /\ \A q \in C : \/ best.diff < Gap(vs, us, q)
                             \/ best.diff = Gap(vs, us, q) /\ (best.pos = q \/ Before(best.pos, q))
    BY DEF Found
  <2>4. C \subseteq seen
    BY DEF Since
  <2> HIDE DEF C, D, next, d
  <2>5. CASE best.diff < 0 \/ d < best.diff
    <3>1. next.diff = d /\ next.pos = p
      BY <1>4, <2>5
    <3>2. \A q \in C : d < Gap(vs, us, q)
      BY <1>1, <1>3, <2>3, <2>4, <2>5
    <3>3. p \in D /\ d = Gap(vs, us, p)
      BY <2>2 DEF d
    <3>4. \A q \in D : \/ d < Gap(vs, us, q)
                       \/ d = Gap(vs, us, q) /\ (p = q \/ Before(p, q))
      BY <2>2, <3>2, <3>3
    <3> QED BY <1>5, <2>1, <3>1, <3>3, <3>4 DEF Found, D, next
  <2>6. CASE ~(best.diff < 0 \/ d < best.diff)
    <3>1. next = best /\ best.diff >= 0 /\ best.diff <= d
      BY <1>1, <1>3, <1>4, <2>6
    <3>2. Before(best.pos, p)
      BY <2>3, <2>4, <3>1
    <3>3. best.diff < d \/ best.diff = d
      BY <1>1, <1>3, <3>1
    <3>4. \A q \in D : \/ best.diff < Gap(vs, us, q)
                       \/ best.diff = Gap(vs, us, q) /\ (best.pos = q \/ Before(best.pos, q))
      BY <2>2, <2>3, <3>1, <3>2, <3>3 DEF d
    <3>5. best.pos \in D /\ best.diff = Gap(vs, us, best.pos)
      BY <2>2, <2>3, <3>1
    <3>6. ~(best.diff < 0)
      BY <2>6
    <3> QED BY <1>5, <3>1, <3>4, <3>5, <3>6 DEF Found, D, next
  <2> QED BY <2>5, <2>6
<1> QED BY <1>1, <1>8, <1>9

\* One row.
LEMMA RowFinds ==
  ASSUME NEW vs \in Seq(VisFrame), NEW us \in Seq(UvFrame), NEW i \in 1..Len(vs),
         NEW before, Found(before, vs, us, Seen(vs, us, i, 0))
  PROVE  Found(ScanRow(before, vs, us, i), vs, us, Seen(vs, us, i, Len(us)))
<1> DEFINE n == Len(us)
           g == [jb \in (1..n) \X Result |-> Nearer(jb[2], vs, us, <<i, jb[1]>>)]
           P(f) == f = [j \in 0..n |-> IF j = 0 THEN before ELSE Nearer(f[j - 1], vs, us, <<i, j>>)]
           best == CHOOSE f : P(f)
<1>1. n \in Nat /\ before \in Result /\ \A j \in 1..n : <<i, j>> \in Pairings(vs, us)
  BY LenProperties DEF Found, Pairings
<1>2. g \in [(1..n) \X Result -> Result]
  <2> SUFFICES ASSUME NEW j \in 1..n, NEW b \in Result
               PROVE  Nearer(b, vs, us, <<i, j>>) \in Result
    OBVIOUS
  <2>1. Gap(vs, us, <<i, j>>) \in Int /\ <<i, j>> \in Int \X Int
    BY <1>1, GapInt
  <2>2. Gap(vs, us, <<i, j>>) = Diff(vs[<<i, j>>[1]], us[<<i, j>>[2]])
    BY DEF Gap
  <2> QED BY <2>1, <2>2 DEF Nearer, Result
<1>3. \E f : P(f)
  <2> HIDE DEF n, g
  <2>1. PICK f \in [0..n -> Result] : Loop(f, n, before, g)
    BY <1>1, <1>2, LoopExists
  <2>2. ASSUME NEW j \in 1..n PROVE g[<<j, f[j - 1]>>] = Nearer(f[j - 1], vs, us, <<i, j>>)
    <3>1. f[j - 1] \in Result
      BY <1>1
    <3> QED BY <3>1 DEF g
  <2>3. f = [j \in 0..n |-> IF j = 0 THEN before ELSE g[<<j, f[j - 1]>>]]
    BY <2>1 DEF Loop
  <2>4. \A j \in 0..n : (IF j = 0 THEN before ELSE g[<<j, f[j - 1]>>])
                         = (IF j = 0 THEN before ELSE Nearer(f[j - 1], vs, us, <<i, j>>))
    BY <1>1, <2>2
  <2>5. P(f)
    BY <2>3, <2>4
  <2> QED BY <2>5
<1>4. ScanRow(before, vs, us, i) = best[n]
  BY DEF ScanRow
<1>5. P(best)
  BY <1>3
<1> HIDE DEF best, P
<1>6. /\ best[0] = before
      /\ \A j \in 1..n : best[j] = Nearer(best[j - 1], vs, us, <<i, j>>)
  BY <1>1, <1>5 DEF P
<1> DEFINE T == {j \in 0..n : Found(best[j], vs, us, Seen(vs, us, i, j))}
<1>7. 0 \in T
  BY <1>1, <1>6
<1>8. ASSUME NEW j \in T, j < n PROVE j + 1 \in T
  <2>1. j + 1 \in 1..n /\ (j + 1) - 1 = j /\ j \in Nat
    BY <1>1, <1>8
  <2>2. best[j + 1] = Nearer(best[j], vs, us, <<i, j + 1>>)
    BY <1>6, <2>1
  <2>3. \A q \in Seen(vs, us, i, j) : Before(q, <<i, j + 1>>)
    BY <2>1 DEF Seen, Before, Pairings
  <2>4. Seen(vs, us, i, j + 1) = Seen(vs, us, i, j) \cup {<<i, j + 1>>}
    BY <1>1, <2>1 DEF Seen, Pairings
  <2>5. Seen(vs, us, i, j) \in SUBSET Pairings(vs, us) /\ <<i, j + 1>> \in Pairings(vs, us)
    BY <1>1, <2>1 DEF Seen
  <2>6. Found(best[j], vs, us, Seen(vs, us, i, j))
    OBVIOUS
  <2>7. Found(Nearer(best[j], vs, us, <<i, j + 1>>), vs, us, Seen(vs, us, i, j) \cup {<<i, j + 1>>})
    BY <2>3, <2>5, <2>6, NearerFinds
  <2>8. Found(best[j + 1], vs, us, Seen(vs, us, i, j + 1))
    BY <2>2, <2>4, <2>7
  <2>9. j + 1 \in 0..n
    BY <1>1, <2>1
  <2> QED BY Zenon, <2>8, <2>9
<1>9. n \in T
  <2>1. T \in SUBSET (0..n)
    OBVIOUS
  <2> HIDE DEF T, n
  <2> QED BY <1>1, <1>7, <1>8, <2>1, InductTo
<1> QED BY <1>4, <1>9

\* The nested loops find the first of the closest candidates, if there are any.
LEMMA ScanFinds ==
  ASSUME NEW vs \in Seq(VisFrame), NEW us \in Seq(UvFrame)
  PROVE  Found(Scan(vs, us), vs, us, Pairings(vs, us))
<1> DEFINE m == Len(vs)
           none == [diff |-> -1, pos |-> <<0, 0>>]
           Row(b, i) == ScanRow(b, vs, us, i)
           Good(b, i) == Found(b, vs, us, Seen(vs, us, i, Len(us)))
           P(f) == f = [i \in 0..m |-> IF i = 0 THEN none ELSE Row(f[i - 1], i)]
           best == CHOOSE f : P(f)
<1>1. m \in Nat /\ Len(us) \in Nat
  BY LenProperties
<1>2. Good(none, 0)
  <2>1. Seen(vs, us, 0, Len(us)) = {}
    BY <1>1 DEF Seen, Pairings
  <2> QED BY <2>1 DEF Found, Result, Since
<1>3. ASSUME NEW i \in 1..m, NEW b, Good(b, i - 1) PROVE Good(Row(b, i), i)
  <2>1. Seen(vs, us, i - 1, Len(us)) = Seen(vs, us, i, 0)
    BY <1>1 DEF Seen, Pairings
  <2> QED BY <1>3, <2>1, RowFinds
<1> HIDE DEF none, Row, Good
<1>4. \E f : P(f)
  <2> DEFINE U == {k \in 0..m : \E f : /\ f = [i \in 0..k |-> IF i = 0 THEN none ELSE Row(f[i - 1], i)]}
  <2>1. 0 \in U
    <3> DEFINE f == [i \in 0..0 |-> none]
               h == [i \in 0..0 |-> IF i = 0 THEN none ELSE Row(f[i - 1], i)]
    <3>1. f = h
      OBVIOUS
    <3> HIDE DEF f
    <3> QED BY <1>1, <3>1
  <2>2. ASSUME NEW k \in U, k < m PROVE k + 1 \in U
    <3>1. PICK f : f = [i \in 0..k |-> IF i = 0 THEN none ELSE Row(f[i - 1], i)]
      OBVIOUS
    <3> DEFINE more == [i \in 0..(k + 1) |-> IF i = k + 1 THEN Row(f[k], k + 1) ELSE f[i]]
               h    == [i \in 0..(k + 1) |-> IF i = 0 THEN none ELSE Row(more[i - 1], i)]
    <3>2. k \in Nat /\ k + 1 \in 0..m
      BY <1>1, <2>2
    <3>3. ASSUME NEW i \in 0..(k + 1) PROVE more[i] = h[i]
      <4>1. CASE i = k + 1
        <5>1. i - 1 = k /\ k \in 0..(k + 1) /\ k # k + 1 /\ i # 0
          BY <3>2, <4>1
        <5>2. more[i - 1] = f[k]
          BY <5>1
        <5> QED BY <4>1, <5>1, <5>2
      <4>2. CASE i # k + 1
        <5>1. i \in 0..k /\ more[i] = f[i]
          BY <3>2, <4>2
        <5>2. f[i] = IF i = 0 THEN none ELSE Row(f[i - 1], i)
          BY <3>1, <5>1
        <5>3. i # 0 => more[i - 1] = f[i - 1]
          BY <3>2, <5>1
        <5> QED BY <5>1, <5>2, <5>3
      <4> QED BY <4>1, <4>2
    <3>4. more = h
      BY <3>3
    <3> HIDE DEF more
    <3> QED BY <3>2, <3>4
  <2>3. m \in U
    <3>1. U \in SUBSET (0..m)
      OBVIOUS
    <3> HIDE DEF U, m
    <3> QED BY <1>1, <2>1, <2>2, <3>1, InductTo
  <2> QED BY <2>3
<1>5. Scan(vs, us) = best[m]
  BY DEF Scan, none, Row
<1>6. P(best)
  BY <1>4
<1> HIDE DEF best, P
<1>7. best[0] = none /\ \A i \in 1..m : best[i] = Row(best[i - 1], i)
  BY <1>1, <1>6 DEF P
<1> DEFINE T == {i \in 0..m : Good(best[i], i)}
<1>8. 0 \in T
  BY <1>1, <1>2, <1>7
<1>9. ASSUME NEW i \in T, i < m PROVE i + 1 \in T
  <2>1. i + 1 \in 1..m /\ (i + 1) - 1 = i /\ i + 1 \in 0..m
    BY <1>1, <1>9
  <2> QED BY <1>3, <1>7, <2>1
<1>10. Good(best[m], m)
  <2>1. T \in SUBSET (0..m)
    OBVIOUS
  <2>2. m \in T
    <3> HIDE DEF T, m
    <3> QED BY <1>1, <1>8, <1>9, <2>1, InductTo
  <2> QED BY <2>2
<1>11. Seen(vs, us, m, Len(us)) = Pairings(vs, us)
  BY <1>1 DEF Seen, Pairings
<1> QED BY <1>5, <1>10, <1>11 DEF Good

\* The pair that the nested loops choose is the one Candidates and IsBest
\* describe.
LEMMA ScanChooses ==
  ASSUME NEW vs \in Seq(VisFrame), NEW us \in Seq(UvFrame)
  PROVE  LET best == Scan(vs, us)
         IN /\ best.diff \in Int
            /\ IF best.diff < 0 \/ best.diff > ToleranceNs
               THEN \A p \in Candidates(vs, us) : Diff(vs[p[1]], us[p[2]]) > ToleranceNs
               ELSE /\ {p \in Candidates(vs, us) : IsBest(vs, us, p)} = {best.pos}
                    /\ Diff(vs[best.pos[1]], us[best.pos[2]]) <= ToleranceNs
<1> DEFINE best == Scan(vs, us)
           C    == Candidates(vs, us)
           G(p) == Gap(vs, us, p)
<1>1. Found(best, vs, us, Pairings(vs, us))
  BY ScanFinds
<1>2. C = Since(vs, us, Pairings(vs, us))
  BY DEF Candidates, Since, Gap
<1>3. \A p \in C : G(p) \in Int /\ p \in Int \X Int
  <2>1. \A p \in C : p \in Pairings(vs, us) /\ p \in Int \X Int
    BY DEF Candidates, Pairings
  <2> QED BY <2>1, GapInt
<1>4. best.diff \in Int /\ ToleranceNs \in Int
  BY <1>1, FrameSyncAssumption DEF Found, Result
<1>5. /\ best.diff < 0 => C = {}
      /\ best.diff >= 0 =>
           /\ best.pos \in C /\ best.diff = G(best.pos)
           /\ \A q \in C : \/ best.diff < G(q)
                           \/ best.diff = G(q) /\ (best.pos = q \/ Before(best.pos, q))
  BY <1>1, <1>2 DEF Found
<1>6. \A p \in C : IsBest(vs, us, p) <=>
        \A q \in C : G(p) < G(q) \/ (G(p) = G(q) /\ (p = q \/ Before(p, q)))
  BY DEF IsBest, Gap
<1>7. \A p, q \in Int \X Int : Before(p, q) => ~Before(q, p)
  BY DEF Before
<1> HIDE DEF C, G, best
<1>8. CASE best.diff < 0 \/ best.diff > ToleranceNs
  <2>1. \A p \in C : G(p) > ToleranceNs
    BY <1>3, <1>4, <1>5, <1>8
  <2> QED BY <1>4, <1>8, <2>1 DEF C, G, best, Gap
<1>9. CASE ~(best.diff < 0 \/ best.diff > ToleranceNs)
  <2>1. /\ best.pos \in C /\ best.diff = G(best.pos)
        /\ \A q \in C : \/ G(best.pos) < G(q)
                        \/ G(best.pos) = G(q) /\ (best.pos = q \/ Before(best.pos, q))
    BY <1>4, <1>5, <1>9
  <2>2. IsBest(vs, us, best.pos)
    BY <1>6, <2>1
  <2>3. ASSUME NEW p \in C, IsBest(vs, us, p) PROVE p = best.pos
    <3>1. G(p) < G(best.pos) \/ (G(p) = G(best.pos) /\ (p = best.pos \/ Before(p, best.pos)))
      BY <1>6, <2>1, <2>3
    <3>2. G(best.pos) < G(p) \/ (G(best.pos) = G(p) /\ (best.pos = p \/ Before(best.pos, p)))
      BY <2>1
    <3>3. ~(Before(p, best.pos) /\ Before(best.pos, p))
      BY <1>3, <1>7, <2>1
    <3> QED BY <1>3, <2>1, <3>1, <3>2, <3>3
  <2>4. {p \in C : IsBest(vs, us, p)} = {best.pos}
    BY <2>1, <2>2, <2>3
  <2>5. G(best.pos) <= ToleranceNs
    BY <1>4, <1>9, <2>1
  <2> QED BY <1>4, <1>9, <2>4, <2>5 DEF C, G, best, Gap
<1> QED BY <1>8, <1>9

\* When a frame arrives, the pair that the loops of tryMatch choose is the one
\* Candidates and IsBest describe, whatever the buffers hold and whatever
\* overflows.
THEOREM ScanAgreesAlways == Spec => []ScanAgrees
<1>1. TypeOK => ScanAgrees
  <2> SUFFICES ASSUME TypeOK, NEW t \in VisPts
               PROVE  LET vs   == Append(visibleFrames, [seq |-> 0, pts |-> t])
                          best == Scan(vs, uvFrames)
                      IN IF best.diff < 0 \/ best.diff > ToleranceNs
                         THEN \A p \in Candidates(vs, uvFrames) :
                                Diff(vs[p[1]], uvFrames[p[2]]) > ToleranceNs
                         ELSE {p \in Candidates(vs, uvFrames) : IsBest(vs, uvFrames, p)} = {best.pos}
    BY DEF ScanAgrees
  <2> DEFINE vs == Append(visibleFrames, [seq |-> 0, pts |-> t])
  <2>1. vs \in Seq(VisFrame) /\ uvFrames \in Seq(UvFrame)
    <3>1. visibleFrames \in Seq(VisFrame) /\ [seq |-> 0, pts |-> t] \in VisFrame
      BY DEF TypeOK, VisFrame
    <3> QED BY <3>1, AppendProperties DEF TypeOK
  <2> HIDE DEF vs
  <2>2. LET best == Scan(vs, uvFrames)
        IN IF best.diff < 0 \/ best.diff > ToleranceNs
           THEN \A p \in Candidates(vs, uvFrames) : Diff(vs[p[1]], uvFrames[p[2]]) > ToleranceNs
           ELSE {p \in Candidates(vs, uvFrames) : IsBest(vs, uvFrames, p)} = {best.pos}
    BY <2>1, ScanChooses
  <2> QED BY <2>2 DEF vs
<1> QED BY <1>1, TypeCorrect, PTL

\* tryMatch as it is written: the loops, then the test, then the removals.
TryMatchLoops(vs, us) ==
  LET best == Scan(vs, us)
  IN IF best.diff < 0 \/ best.diff > ToleranceNs
     THEN visibleFrames' = vs /\ uvFrames' = us /\ UNCHANGED emitted
     ELSE /\ visibleFrames' = RemoveAt(vs, best.pos[1])
          /\ uvFrames' = RemoveAt(us, best.pos[2])
          /\ emitted' = Append(emitted, [vis |-> vs[best.pos[1]], uv |-> us[best.pos[2]]])

\* The action TryMatch, which says which pair is taken, is the one the loops of
\* tryMatch take, for any contents of the two buffers and any presentation
\* times: every theorem about FrameSync is one about the code's loops.
THEOREM TryMatchIsLoops ==
  ASSUME NEW vs \in Seq(VisFrame), NEW us \in Seq(UvFrame)
  PROVE  TryMatch(vs, us) <=> TryMatchLoops(vs, us)
<1> DEFINE best    == Scan(vs, us)
           C       == Candidates(vs, us)
           D(p)    == Diff(vs[p[1]], us[p[2]])
           Take(p) == /\ visibleFrames' = RemoveAt(vs, p[1])
                      /\ uvFrames' = RemoveAt(us, p[2])
                      /\ emitted' = Append(emitted, [vis |-> vs[p[1]], uv |-> us[p[2]]])
           Leave   == visibleFrames' = vs /\ uvFrames' = us /\ UNCHANGED emitted
           None    == best.diff < 0 \/ best.diff > ToleranceNs
<1>1. /\ None => \A p \in C : D(p) > ToleranceNs
      /\ ~None => {p \in C : IsBest(vs, us, p)} = {best.pos} /\ D(best.pos) <= ToleranceNs
  BY ScanChooses
<1>2. \A p \in C : D(p) \in Int
  BY GapInt DEF Candidates, Gap
<1>3. ToleranceNs \in Int
  BY FrameSyncAssumption
<1>4. TryMatch(vs, us) <=> \/ \E p \in C : IsBest(vs, us, p) /\ D(p) <= ToleranceNs /\ Take(p)
                           \/ (\A p \in C : D(p) > ToleranceNs) /\ Leave
  BY DEF TryMatch
<1>5. TryMatchLoops(vs, us) <=> IF None THEN Leave ELSE Take(best.pos)
  BY DEF TryMatchLoops
<1> HIDE DEF best, C, D, Take, Leave, None
<1>6. \A p \in C : D(p) > ToleranceNs <=> ~(D(p) <= ToleranceNs)
  BY <1>2, <1>3
<1>7. CASE None
  BY <1>1, <1>4, <1>5, <1>6, <1>7
<1>8. CASE ~None
  <2>1. best.pos \in C /\ IsBest(vs, us, best.pos) /\ D(best.pos) <= ToleranceNs
    BY <1>1, <1>8
  <2>2. \A p \in C : IsBest(vs, us, p) => p = best.pos
    BY <1>1, <1>8
  <2>3. ~(\A p \in C : D(p) > ToleranceNs)
    BY <1>6, <2>1
  <2> QED BY <1>4, <1>5, <1>8, <2>1, <2>2, <2>3
<1> QED BY <1>7, <1>8
-----------------------------------------------------------------------------
\* Where ingestStream and a reader can be.
AnyIngest == {"top", "open_vis", "open_uv", "start", "wait_vis", "wait_uv", "close", "done"}
Waiting   == {"wait_vis", "wait_uv"}
AnyReader == {"none", "check", "decode", "push", "done"}
Ended     == {"none", "done"}

Frame(c) == [seq : Nat, pts : Pts(c)]
AnyFrame == [seq : Nat, pts : Int]

IngestTypeOK ==
  /\ ingest \in [pc : AnyIngest, session : Nat]
  /\ decoder \in [Cameras -> [open : BOOLEAN, last_pts : Int]]
  /\ reader \in [Cameras -> [pc : AnyReader, frame : AnyFrame]]
  /\ born \in [Cameras -> Seq(Nat)]

\* Readers run only while ingestStream waits for them.
ReadersWaited ==
  /\ ingest.pc \notin Waiting => \A c \in Cameras : reader[c].pc \in Ended
  /\ ingest.pc = "wait_uv" => reader["vis"].pc \in Ended

\* The decoders that are open, by where ingestStream is.
DecodersOpen ==
  /\ ingest.pc \in {"top", "open_vis", "done"} => ~decoder["vis"].open
  /\ ingest.pc \in {"top", "open_vis", "open_uv", "done"} => ~decoder["uv"].open
  /\ ingest.pc = "open_uv" => decoder["vis"].open
  /\ ingest.pc \in Waiting \cup {"start"} => \A c \in Cameras : decoder[c].open

Sent(c) == IF c = "vis" THEN visSent.seq ELSE uvSent.seq

\* A reader holds the last frame of its camera, of this session, or none.
FramesInOrder ==
  \A c \in Cameras :
    /\ Sent(c) \in Nat
    /\ Len(born[c]) = Sent(c) + (IF reader[c].pc = "push" THEN 1 ELSE 0)
    /\ reader[c].pc = "push" =>
         /\ reader[c].frame \in Frame(c)
         /\ reader[c].frame.seq = Len(born[c])
         /\ Len(born[c]) <= MaxFrames
         /\ born[c][Len(born[c])] = ingest.session

IngestInv == IngestTypeOK /\ ReadersWaited /\ DecodersOpen /\ FramesInOrder
-----------------------------------------------------------------------------
LEMMA IngestNumbers ==
  /\ \A c \in Cameras : Pts(c) \subseteq Int /\ Stamps \subseteq Pts(c)
  /\ NoPts \in Int /\ NoFrame \in AnyFrame /\ NoFrame.seq = 0
  /\ Cameras = {"vis", "uv"} /\ "vis" \in Cameras /\ "uv" \in Cameras
<1>1. HalfRange \in Nat
  BY FrameSyncAssumption
<1>2. VisPts \subseteq Int /\ UvPts \subseteq Int
  BY <1>1, FrameSyncAssumption
<1>3. \A c \in Cameras : Pts(c) \subseteq Int /\ Stamps \subseteq Pts(c)
  BY <1>2, IngestAssumption DEF Pts
<1>4. NoPts \in Int
  BY <1>1 DEF NoPts
<1>5. NoFrame \in AnyFrame /\ NoFrame.seq = 0
  BY DEF NoFrame, AnyFrame
<1> QED BY <1>3, <1>4, <1>5 DEF Cameras

LEMMA InitIngestInv == IngestInit => IngestInv
<1> SUFFICES ASSUME IngestInit PROVE IngestInv
  OBVIOUS
<1>1. IngestTypeOK
  <2>1. Closed \in [open : BOOLEAN, last_pts : Int]
    BY IngestNumbers DEF Closed
  <2>2. <<>> \in Seq(Nat)
    BY EmptySeq
  <2> QED BY <2>1, <2>2, IngestNumbers DEF IngestInit, IngestTypeOK, AnyIngest, AnyReader
<1>2. ReadersWaited /\ DecodersOpen
  BY IngestNumbers DEF IngestInit, ReadersWaited, DecodersOpen, Waiting, Ended, Closed
<1>3. FramesInOrder
  <2>1. visSent.seq = 0 /\ uvSent.seq = 0 /\ Len(<<>>) = 0
    BY EmptySeq DEF IngestInit, Init
  <2>2. \A c \in Cameras : born[c] = <<>> /\ reader[c].pc = "none"
    BY DEF IngestInit
  <2> QED BY <2>1, <2>2 DEF FramesInOrder, Sent
<1> QED BY <1>1, <1>2, <1>3 DEF IngestInv

\* A step of ingestStream.
LEMMA IngestTypes == IngestTypeOK /\ IngestStream => IngestTypeOK'
<1> SUFFICES ASSUME IngestTypeOK, IngestStream PROVE IngestTypeOK'
  OBVIOUS
<1>1. /\ ingest \in [pc : AnyIngest, session : Nat]
      /\ decoder \in [Cameras -> [open : BOOLEAN, last_pts : Int]]
      /\ reader \in [Cameras -> [pc : AnyReader, frame : AnyFrame]]
      /\ born \in [Cameras -> Seq(Nat)]
  BY DEF IngestTypeOK
<1>2. Opened \in [open : BOOLEAN, last_pts : Int] /\ Closed \in [open : BOOLEAN, last_pts : Int]
  BY IngestNumbers DEF Opened, Closed
<1>3. born' = born
  BY DEF IngestStream, Top, OpenVis, OpenUv, Start, WaitVis, WaitUv, CloseBoth
<1>4. decoder' \in [Cameras -> [open : BOOLEAN, last_pts : Int]]
  BY <1>1, <1>2 DEF IngestStream, Top, OpenVis, OpenUv, Start, WaitVis, WaitUv, CloseBoth
<1>5. reader' \in [Cameras -> [pc : AnyReader, frame : AnyFrame]]
  BY <1>1, IngestNumbers DEF IngestStream, Top, OpenVis, OpenUv, Start, WaitVis, WaitUv, CloseBoth, AnyReader
<1>6. ingest' \in [pc : AnyIngest, session : Nat]
  <2>1. ingest.session + 1 \in Nat
    BY <1>1
  <2>2. CASE Start
    BY <2>1, <2>2 DEF Start, AnyIngest
  <2>3. CASE ~Start
    BY <1>1, <2>3 DEF IngestStream, Top, OpenVis, OpenUv, WaitVis, WaitUv, CloseBoth, AnyIngest
  <2> QED BY <2>2, <2>3
<1> QED BY <1>1, <1>3, <1>4, <1>5, <1>6 DEF IngestTypeOK

LEMMA IngestStep == IngestInv /\ IngestStream => IngestInv'
<1> SUFFICES ASSUME IngestInv, IngestStream PROVE IngestInv'
  OBVIOUS
<1>1. IngestTypeOK /\ IngestTypeOK' /\ ReadersWaited /\ DecodersOpen /\ FramesInOrder
  BY IngestTypes DEF IngestInv
<1>. /\ ingest \in [pc : AnyIngest, session : Nat]
     /\ decoder \in [Cameras -> [open : BOOLEAN, last_pts : Int]]
     /\ reader \in [Cameras -> [pc : AnyReader, frame : AnyFrame]]
     /\ "vis" \in Cameras /\ "uv" \in Cameras /\ \A c \in Cameras : c = "vis" \/ c = "uv"
  BY <1>1, IngestNumbers DEF IngestTypeOK
<1>2. UNCHANGED <<born, visSent, uvSent>>
  BY DEF IngestStream, Top, OpenVis, OpenUv, Start, WaitVis, WaitUv, CloseBoth, syncVars, vars
<1>3. CASE Start
  <2>1. /\ ingest.pc = "start" /\ ingest'.pc = "wait_vis"
        /\ \A c \in Cameras : reader'[c].pc = "check"
        /\ decoder' = decoder
    BY <1>3 DEF Start
  <2>2. \A c \in Cameras : reader[c].pc # "push"
    BY <1>1, <2>1 DEF ReadersWaited, Waiting, Ended
  <2>3. ReadersWaited' /\ DecodersOpen'
    BY <1>1, <2>1 DEF ReadersWaited, DecodersOpen, Waiting
  <2>4. FramesInOrder'
    BY <1>1, <1>2, <2>1, <2>2 DEF FramesInOrder, Sent
  <2> QED BY <1>1, <2>3, <2>4 DEF IngestInv
<1>4. CASE ~Start
  <2>1. reader' = reader /\ ingest'.session = ingest.session
    BY <1>4 DEF IngestStream, Top, OpenVis, OpenUv, WaitVis, WaitUv, CloseBoth
  <2>2. FramesInOrder'
    BY <1>1, <1>2, <2>1 DEF FramesInOrder, Sent
  <2>3. ReadersWaited'
    BY <1>1, <1>4, <2>1 DEF IngestStream, Top, OpenVis, OpenUv, WaitVis, WaitUv, CloseBoth,
                            ReadersWaited, Waiting, Ended
  <2>4. DecodersOpen'
    <3>1. CASE Top
      BY <1>1, <3>1 DEF Top, DecodersOpen, Waiting
    <3>2. CASE OpenVis
      BY <1>1, <3>2 DEF OpenVis, Opened, DecodersOpen, Waiting
    <3>3. CASE OpenUv
      <4>1. ingest.pc = "open_uv" /\ ~decoder["uv"].open
        BY <1>1, <3>3 DEF OpenUv, DecodersOpen
      <4>2. CASE ingest'.pc = "top" /\ decoder' = [decoder EXCEPT !["vis"] = Closed]
        BY <4>1, <4>2 DEF Closed, DecodersOpen, Waiting
      <4>3. CASE ingest'.pc = "start" /\ decoder' = [decoder EXCEPT !["uv"] = Opened]
        <5>1. decoder["vis"].open
          BY <1>1, <4>1 DEF DecodersOpen
        <5> QED BY <4>3, <5>1 DEF Opened, DecodersOpen, Waiting
      <4> QED BY <3>3, <4>2, <4>3 DEF OpenUv
    <3>4. CASE WaitVis \/ WaitUv
      BY <1>1, <3>4 DEF WaitVis, WaitUv, DecodersOpen, Waiting
    <3>5. CASE CloseBoth
      BY <3>5 DEF CloseBoth, Closed, DecodersOpen, Waiting
    <3> QED BY <1>4, <3>1, <3>2, <3>3, <3>4, <3>5 DEF IngestStream
  <2> QED BY <1>1, <2>2, <2>3, <2>4 DEF IngestInv
<1> QED BY <1>3, <1>4
-----------------------------------------------------------------------------
\* What the steps of a reader leave alone.
LEMMA ReaderFrame ==
  ASSUME IngestInv, NEW c \in Cameras, Check(c) \/ Decode(c) \/ Push(c)
  PROVE  /\ ingest' = ingest /\ ingest.pc \in Waiting
         /\ \A d \in Cameras : decoder'[d].open = decoder[d].open
         /\ \A d \in Cameras \ {c} : reader'[d] = reader[d] /\ born'[d] = born[d]
         /\ ReadersWaited' /\ DecodersOpen'
<1>. /\ ingest \in [pc : AnyIngest, session : Nat]
     /\ decoder \in [Cameras -> [open : BOOLEAN, last_pts : Int]]
     /\ reader \in [Cameras -> [pc : AnyReader, frame : AnyFrame]]
     /\ born \in [Cameras -> Seq(Nat)]
     /\ "vis" \in Cameras /\ "uv" \in Cameras
  BY IngestNumbers DEF IngestInv, IngestTypeOK
<1>1. ingest' = ingest /\ reader[c].pc \in {"check", "decode", "push"}
  BY DEF Check, Decode, Push
<1>2. ingest.pc \in Waiting /\ (ingest.pc = "wait_uv" => c # "vis")
  BY <1>1 DEF IngestInv, ReadersWaited, Ended
<1>3. \A d \in Cameras : decoder'[d].open = decoder[d].open
  <2>1. CASE decoder' = decoder
    BY <2>1
  <2>2. ASSUME NEW pts, decoder' = [decoder EXCEPT ![c].last_pts = pts]
        PROVE  \A d \in Cameras : decoder'[d].open = decoder[d].open
    BY <2>2
  <2> QED BY <2>1, <2>2 DEF Check, Decode, Push
<1>4. \A d \in Cameras \ {c} : reader'[d] = reader[d] /\ born'[d] = born[d]
  BY DEF Check, Decode, Push
<1>5. ReadersWaited'
  BY <1>1, <1>2, <1>4 DEF IngestInv, ReadersWaited
<1>6. DecodersOpen'
  BY <1>1, <1>3 DEF IngestInv, DecodersOpen
<1> QED BY <1>1, <1>2, <1>3, <1>4, <1>5, <1>6

LEMMA ReaderTypes ==
  ASSUME IngestInv, NEW c \in Cameras, Check(c) \/ Decode(c) \/ Push(c)
  PROVE  IngestTypeOK'
<1>. /\ ingest \in [pc : AnyIngest, session : Nat]
     /\ decoder \in [Cameras -> [open : BOOLEAN, last_pts : Int]]
     /\ reader \in [Cameras -> [pc : AnyReader, frame : AnyFrame]]
     /\ born \in [Cameras -> Seq(Nat)] /\ Pts(c) \subseteq Int
  BY IngestNumbers DEF IngestInv, IngestTypeOK
<1>1. Stamped(c) \subseteq Pts(c)
  BY IngestNumbers DEF Stamped
<1>2. CASE Check(c)
  BY <1>2 DEF Check, IngestTypeOK, AnyReader
<1>3. CASE Push(c)
  BY <1>3, IngestNumbers DEF Push, IngestTypeOK, AnyReader
<1>4. CASE Decode(c)
  <2>1. CASE reader' = [reader EXCEPT ![c].pc = "done"] /\ UNCHANGED <<decoder, born>>
    BY <1>4, <2>1 DEF Decode, IngestTypeOK, AnyReader
  <2>2. ASSUME NEW pts \in Stamped(c),
               reader' = [reader EXCEPT ![c] =
                            [pc |-> "push", frame |-> [seq |-> Len(born[c]) + 1, pts |-> pts]]],
               decoder' = [decoder EXCEPT ![c].last_pts = pts],
               born' = [born EXCEPT ![c] = Append(@, ingest.session)]
        PROVE  IngestTypeOK'
    <3>1. born[c] \in Seq(Nat) /\ Len(born[c]) + 1 \in Nat /\ pts \in Pts(c) /\ pts \in Int
      <4>1. born[c] \in Seq(Nat) /\ pts \in Pts(c)
        BY <1>1
      <4>2. Len(born[c]) \in Nat
        BY <4>1, LenProperties
      <4> QED BY <4>1, <4>2
    <3>2. [seq |-> Len(born[c]) + 1, pts |-> pts] \in AnyFrame
      BY <3>1 DEF AnyFrame
    <3>3. Append(born[c], ingest.session) \in Seq(Nat)
      BY <3>1, AppendProperties
    <3>4. born' \in [Cameras -> Seq(Nat)]
      BY <2>2, <3>3
    <3>5. reader' \in [Cameras -> [pc : AnyReader, frame : AnyFrame]]
      BY <2>2, <3>2 DEF AnyReader
    <3>6. decoder' \in [Cameras -> [open : BOOLEAN, last_pts : Int]]
      BY <2>2, <3>1
    <3> QED BY <1>4, <3>4, <3>5, <3>6 DEF Decode, IngestTypeOK
  <2> QED BY <1>4, <2>1, <2>2 DEF Decode
<1> QED BY <1>2, <1>3, <1>4

LEMMA ReaderStep ==
  ASSUME IngestInv, NEW c \in Cameras, Check(c) \/ Decode(c) \/ Push(c)
  PROVE  IngestInv'
<1>. /\ ingest \in [pc : AnyIngest, session : Nat]
     /\ reader \in [Cameras -> [pc : AnyReader, frame : AnyFrame]]
     /\ born \in [Cameras -> Seq(Nat)] /\ Pts(c) \subseteq Int
     /\ "vis" \in Cameras /\ "uv" \in Cameras /\ \A d \in Cameras : d = "vis" \/ d = "uv"
  BY IngestNumbers DEF IngestInv, IngestTypeOK
<1>1. IngestTypeOK' /\ FramesInOrder
  BY ReaderTypes DEF IngestInv
<1>2. /\ ingest' = ingest
      /\ \A d \in Cameras \ {c} : reader'[d] = reader[d] /\ born'[d] = born[d]
      /\ ReadersWaited' /\ DecodersOpen'
  BY ReaderFrame
<1>3. \A d \in Cameras : Len(born[d]) \in Nat
  BY LenProperties
<1>4. CASE Check(c)
  <2>1. /\ reader[c].pc = "check" /\ reader'[c].pc \in {"done", "decode"}
        /\ UNCHANGED <<born, visSent, uvSent>>
    BY <1>4 DEF Check, syncVars, vars
  <2>2. FramesInOrder'
    BY <1>1, <1>2, <2>1 DEF FramesInOrder, Sent
  <2> QED BY <1>1, <1>2, <2>2 DEF IngestInv
<1>5. CASE Push(c)
  <2>1. /\ reader[c].pc = "push" /\ reader'[c].pc = "check" /\ born' = born
        /\ IF c = "vis" THEN visSent' = reader[c].frame /\ uvSent' = uvSent
           ELSE uvSent' = reader[c].frame /\ visSent' = visSent
    BY <1>5 DEF Push, PushVisible, PushUV
  <2>2. reader[c].frame.seq = Len(born[c])
    BY <1>1, <2>1 DEF FramesInOrder
  <2>3. FramesInOrder'
    BY SMTT(40), <1>1, <1>2, <1>3, <2>1, <2>2 DEF FramesInOrder, Sent
  <2> QED BY <1>1, <1>2, <2>3 DEF IngestInv
<1>6. CASE Decode(c)
  <2>1. reader[c].pc = "decode" /\ UNCHANGED <<visSent, uvSent>>
    BY <1>6 DEF Decode, syncVars, vars
  <2>2. CASE reader'[c].pc = "done" /\ born' = born
    <3>1. FramesInOrder'
      BY <1>1, <1>2, <2>1, <2>2 DEF FramesInOrder, Sent
    <3> QED BY <1>1, <1>2, <3>1 DEF IngestInv
  <2>3. ASSUME NEW pts \in Stamped(c), Len(born[c]) < MaxFrames,
               reader'[c] = [pc |-> "push", frame |-> [seq |-> Len(born[c]) + 1, pts |-> pts]],
               born'[c] = Append(born[c], ingest.session)
        PROVE  IngestInv'
    <3> DEFINE n == Len(born[c])
    <3>1. n \in Nat /\ MaxFrames \in Nat /\ pts \in Pts(c)
      BY <1>3, IngestNumbers, FrameSyncAssumption DEF Stamped
    <3>2. Len(born'[c]) = n + 1 /\ born'[c][n + 1] = ingest.session
      BY <2>3, AppendProperties
    <3>3. n = Sent(c)
      <4>1. n = Sent(c) + (IF reader[c].pc = "push" THEN 1 ELSE 0) /\ Sent(c) \in Nat
        BY <1>1 DEF FramesInOrder
      <4> QED BY <2>1, <4>1
    <3>4. reader'[c].pc = "push" /\ reader'[c].frame \in Frame(c) /\ reader'[c].frame.seq = n + 1
      BY <2>3, <3>1 DEF Frame
    <3>5. n + 1 <= MaxFrames
      BY <2>3, <3>1
    <3> HIDE DEF n
    <3>6. \A d \in Cameras : Sent(d)' = Sent(d)
      BY <2>1 DEF Sent
    <3>7. FramesInOrder'
      <4> SUFFICES ASSUME NEW d \in Cameras
                   PROVE  /\ Sent(d)' \in Nat
                          /\ Len(born'[d]) = Sent(d)' + (IF reader'[d].pc = "push" THEN 1 ELSE 0)
                          /\ reader'[d].pc = "push" =>
                               /\ reader'[d].frame \in Frame(d)
                               /\ reader'[d].frame.seq = Len(born'[d])
                               /\ Len(born'[d]) <= MaxFrames
                               /\ born'[d][Len(born'[d])] = ingest'.session
        BY DEF FramesInOrder
      <4>1. CASE d = c
        BY <1>2, <3>1, <3>2, <3>3, <3>4, <3>5, <3>6, <4>1
      <4>2. CASE d # c
        <5>1. reader'[d] = reader[d] /\ born'[d] = born[d]
          BY <1>2, <4>2
        <5> QED BY <1>1, <1>2, <3>6, <5>1 DEF FramesInOrder
      <4> QED BY <4>1, <4>2
    <3> QED BY <1>1, <1>2, <3>7 DEF IngestInv
  <2> QED BY <1>6, <2>2, <2>3 DEF Decode
<1> QED BY <1>4, <1>5, <1>6

LEMMA NextIngestInv == IngestInv /\ [IngestNext]_ingestVars => IngestInv'
<1> SUFFICES ASSUME IngestInv, [IngestNext]_ingestVars PROVE IngestInv'
  OBVIOUS
<1>1. CASE IngestStream
  BY <1>1, IngestStep
<1>2. ASSUME NEW c \in Cameras, Check(c) \/ Decode(c) \/ Push(c)
      PROVE  IngestInv'
  BY <1>2, ReaderStep
<1>3. CASE Cancel \/ UNCHANGED ingestVars
  <2>1. UNCHANGED <<ingest, decoder, reader, born, visSent, uvSent>>
    BY <1>3 DEF Cancel, ingestVars, syncVars, vars
  <2> QED BY <2>1 DEF IngestInv, IngestTypeOK, ReadersWaited, DecodersOpen, FramesInOrder, Sent
<1> QED BY <1>1, <1>2, <1>3 DEF IngestNext

\* The control of ingestStream and its readers, the decoders that are open,
\* and the frame each reader holds.
THEOREM IngestInvariance == IngestSpec => []IngestInv
BY InitIngestInv, NextIngestInv, PTL DEF IngestSpec

\* No reader outlives its session, reads a closed decoder or pushes a frame of
\* an earlier session, and no decoder is left open.
THEOREM SessionsApartAlways == IngestSpec => []SessionsApart
<1>1. IngestInv => SessionsApart
  <2> SUFFICES ASSUME IngestInv PROVE SessionsApart
    OBVIOUS
  <2>1. \A c \in Cameras : c = "vis" \/ c = "uv"
    BY IngestNumbers
  <2>2. \A c \in Cameras : reader[c].pc \in {"decode", "push"} => ingest.pc \in Waiting
    BY DEF IngestInv, ReadersWaited, Ended
  <2>3. \A c \in Cameras : reader[c].pc = "decode" => decoder[c].open
    BY <2>2 DEF IngestInv, DecodersOpen
  <2>4. ingest.pc \in {"top", "open_vis", "done"} => \A c \in Cameras : ~decoder[c].open
    BY <2>1 DEF IngestInv, DecodersOpen
  <2>5. \A c \in Cameras : reader[c].pc = "push" => born[c][reader[c].frame.seq] = ingest.session
    BY DEF IngestInv, FramesInOrder
  <2> QED BY <2>2, <2>3, <2>4, <2>5 DEF SessionsApart, Waiting
<1> QED BY <1>1, IngestInvariance, PTL

\* A push into the synchroniser is the next frame of its camera.
LEMMA PushMaps ==
  ASSUME IngestInv, NEW c \in Cameras, Push(c)
  PROVE  Next
<1>1. /\ reader[c].frame \in Frame(c)
      /\ reader[c].frame.seq = Sent(c) + 1 /\ Sent(c) < MaxFrames
  <2>1. /\ reader[c].frame \in Frame(c) /\ reader[c].frame.seq = Len(born[c])
        /\ Len(born[c]) = Sent(c) + 1 /\ Len(born[c]) <= MaxFrames
    BY DEF IngestInv, FramesInOrder, Push
  <2>2. Len(born[c]) \in Nat /\ MaxFrames \in Nat
    BY FrameSyncAssumption, LenProperties DEF IngestInv, IngestTypeOK
  <2>3. Sent(c) \in Nat
    BY DEF IngestInv, FramesInOrder
  <2> QED BY <2>1, <2>2, <2>3
<1>2. PICK t \in Pts(c) : reader[c].frame = [seq |-> Sent(c) + 1, pts |-> t]
  BY <1>1 DEF Frame
<1>3. CASE c = "vis"
  <2>1. Sent(c) = visSent.seq /\ PushVisible([seq |-> visSent.seq + 1, pts |-> t])
    BY <1>2, <1>3 DEF Push, Sent
  <2>2. t \in VisPts
    BY <1>3 DEF Pts
  <2> QED BY <1>1, <2>1, <2>2 DEF Next
<1>4. CASE c # "vis"
  <2>1. Sent(c) = uvSent.seq /\ PushUV([seq |-> uvSent.seq + 1, pts |-> t])
    BY <1>2, <1>4 DEF Push, Sent
  <2>2. t \in UvPts
    BY <1>4 DEF Pts
  <2> QED BY <1>1, <2>1, <2>2 DEF Next
<1> QED BY <1>3, <1>4

\* The readers of all sessions, scheduled in any way, push into the
\* synchroniser as FrameSync says: whatever is true of FrameSync is true of
\* the synchroniser of a running stream, across reconnections.
THEOREM Refinement == IngestSpec => ImplementsSync
<1>1. IngestInit => Init
  BY DEF IngestInit
<1>2. IngestInv /\ [IngestNext]_ingestVars => [Next]_vars
  <2> SUFFICES ASSUME IngestInv, [IngestNext]_ingestVars PROVE Next \/ UNCHANGED vars
    OBVIOUS
  <2>1. CASE IngestStream \/ Cancel \/ UNCHANGED ingestVars
    BY <2>1 DEF IngestStream, Top, OpenVis, OpenUv, Start, WaitVis, WaitUv, CloseBoth,
                Cancel, ingestVars, syncVars, vars
  <2>2. ASSUME NEW c \in Cameras, Check(c) \/ Decode(c)
        PROVE  UNCHANGED vars
    BY <2>2 DEF Check, Decode, syncVars, vars
  <2>3. ASSUME NEW c \in Cameras, Push(c)
        PROVE  Next
    BY <2>3, PushMaps
  <2> QED BY <2>1, <2>2, <2>3 DEF IngestNext
<1> QED BY <1>1, <1>2, IngestInvariance, PTL DEF IngestSpec, ImplementsSync, Spec

\* So across reconnections no frame is part of two pairs, and what an earlier
\* session left in a buffer is paired only while fewer than maxBufferSize frames
\* of its camera went without a partner since.  If differences do not overflow,
\* pairs also are within the tolerance, are reported when their later frame
\* arrives and leave in the order of both cameras, and no two frames that belong
\* together wait.
THEOREM AcrossSessions ==
  IngestSpec => /\ []EmittedOnce
                /\ LeftoversEvicted
                /\ NoOverflow => []EmittedClose /\ []NoMatchLeft /\ []OrderPreserved /\ PairedOnArrival
<1>1. IngestSpec => Spec
  BY Refinement DEF ImplementsSync
<1>2. IngestSpec => []EmittedOnce /\ LeftoversEvicted
  BY <1>1, EmittedOnceAlways, LeftoversEvictedAlways
<1>3. ASSUME NoOverflow
      PROVE  IngestSpec => []EmittedClose /\ []NoMatchLeft /\ []OrderPreserved /\ PairedOnArrival
  <2>1. NotOpposite
    BY <1>3, NoOverflowNotOpposite
  <2> QED BY <1>1, <1>3, <2>1, EmittedCloseAlways, NoMatchLeftAlways, OrderPreservedAlways,
             PairedOnArrivalAlways
<1> QED BY <1>2, <1>3
=============================================================================
