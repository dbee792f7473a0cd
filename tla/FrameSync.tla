------------------------------ MODULE FrameSync ------------------------------
(***************************************************************************)
(* Pairing the frames of the two cameras of one stream by presentation     *)
(* time (pkg/sync/framesync.go).  The two reader goroutines push into two  *)
(* bounded buffers; each push evicts what is too old and then hands the    *)
(* closest pair, if it is close enough, to the callback.  Push and Drain   *)
(* hold the mutex from start to end, the callback included, so each is one *)
(* step here.                                                              *)
(*                                                                         *)
(* Presentation times are 64-bit: HalfRange is 2^63, and the subtraction   *)
(* wraps as Go's does.                                                     *)
(***************************************************************************)
EXTENDS Integers, Sequences, FiniteSets, SequencesExt

CONSTANTS
  VisPts, UvPts,   \* the presentation times each camera's frames may have
  ToleranceNs,     \* toleranceNs
  MaxBufferSize,   \* maxBufferSize
  HalfRange,       \* 2^63
  MaxFrames        \* bound: frames of each camera in a behaviour

ASSUME FrameSyncAssumption ==
  /\ HalfRange \in Nat \ {0}
  /\ VisPts \subseteq (-HalfRange)..(HalfRange - 1)
  /\ UvPts \subseteq (-HalfRange)..(HalfRange - 1)
  /\ ToleranceNs \in 0..(HalfRange - 1)
  /\ MaxBufferSize \in Nat \ {0}
  /\ MaxFrames \in Nat

VARIABLES
  visibleFrames, uvFrames,  \* the two buffers, oldest frame first
  visSent, uvSent,          \* the last frame each camera delivered
  emitted                   \* history: the pairs the callback received

vars == <<visibleFrames, uvFrames, visSent, uvSent, emitted>>

VisFrame == [seq : Nat, pts : VisPts]
UvFrame  == [seq : Nat, pts : UvPts]

Init ==
  /\ visibleFrames = <<>>
  /\ uvFrames = <<>>
  /\ visSent = [seq |-> 0, pts |-> 0]
  /\ uvSent = [seq |-> 0, pts |-> 0]
  /\ emitted = <<>>
-----------------------------------------------------------------------------
Wrap(x) == ((x + HalfRange) % (2 * HalfRange)) - HalfRange

\* Mutant: the difference in half as many bits.
DiffNarrow(a, b) ==
  LET d == ((a.pts - b.pts + HalfRange \div 2) % HalfRange) - HalfRange \div 2
  IN IF d < 0 THEN -d ELSE d

\* The distance tryMatch computes; negative if the difference is -2^63.
Diff(a, b) ==
  LET d == Wrap(a.pts - b.pts) IN IF d < 0 THEN Wrap(-d) ELSE d

\* Positions in the two buffers, in the order of tryMatch's nested loops.
Pairings(vs, us) == (1..Len(vs)) \X (1..Len(us))
Before(p, q) == p[1] < q[1] \/ (p[1] = q[1] /\ p[2] < q[2])

\* Mutant: a negative distance is a distance like any other.
CandidatesAll(vs, us) == Pairings(vs, us)

\* The scan forgets all it saw before a pair with a negative distance.
Candidates(vs, us) ==
  {p \in Pairings(vs, us) :
     \A q \in Pairings(vs, us) :
       Diff(vs[q[1]], us[q[2]]) < 0 => Before(q, p)}

\* The first of the closest.
IsBest(vs, us, p) ==
  \A q \in Candidates(vs, us) :
    \/ Diff(vs[p[1]], us[p[2]]) < Diff(vs[q[1]], us[q[2]])
    \/ Diff(vs[p[1]], us[p[2]]) = Diff(vs[q[1]], us[q[2]]) /\ (p = q \/ Before(p, q))

\* The nested loops of tryMatch: bestDiff, with bestVis and bestUV, after each
\* row, and in a row after each comparison.
Nearer(best, vs, us, p) ==
  LET diff == Diff(vs[p[1]], us[p[2]])
  IN IF best.diff < 0 \/ diff < best.diff THEN [diff |-> diff, pos |-> p] ELSE best

ScanRow(before, vs, us, i) ==
  LET best[j \in 0..Len(us)] == IF j = 0 THEN before ELSE Nearer(best[j - 1], vs, us, <<i, j>>)
  IN best[Len(us)]

Scan(vs, us) ==
  LET best[i \in 0..Len(vs)] ==
        IF i = 0 THEN [diff |-> -1, pos |-> <<0, 0>>] ELSE ScanRow(best[i - 1], vs, us, i)
  IN best[Len(vs)]

\* Mutant: frames exactly as far apart as the tolerance are not paired.
TryMatchStrict(vs, us) ==
  \/ \E p \in Candidates(vs, us) :
       /\ IsBest(vs, us, p)
       /\ Diff(vs[p[1]], us[p[2]]) < ToleranceNs
       /\ visibleFrames' = RemoveAt(vs, p[1])
       /\ uvFrames' = RemoveAt(us, p[2])
       /\ emitted' = Append(emitted, [vis |-> vs[p[1]], uv |-> us[p[2]]])
  \/ /\ \A p \in Candidates(vs, us) : Diff(vs[p[1]], us[p[2]]) >= ToleranceNs
     /\ visibleFrames' = vs
     /\ uvFrames' = us
     /\ UNCHANGED emitted

\* Mutant: the ultraviolet frame stays in its buffer.
TryMatchKeepsUV(vs, us) ==
  \/ \E p \in Candidates(vs, us) :
       /\ IsBest(vs, us, p)
       /\ Diff(vs[p[1]], us[p[2]]) <= ToleranceNs
       /\ visibleFrames' = RemoveAt(vs, p[1])
       /\ uvFrames' = us
       /\ emitted' = Append(emitted, [vis |-> vs[p[1]], uv |-> us[p[2]]])
  \/ /\ \A p \in Candidates(vs, us) : Diff(vs[p[1]], us[p[2]]) > ToleranceNs
     /\ visibleFrames' = vs
     /\ uvFrames' = us
     /\ UNCHANGED emitted

\* tryMatch on the buffers vs and us.
TryMatch(vs, us) ==
  \/ \E p \in Candidates(vs, us) :
       /\ IsBest(vs, us, p)
       /\ Diff(vs[p[1]], us[p[2]]) <= ToleranceNs
       /\ visibleFrames' = RemoveAt(vs, p[1])
       /\ uvFrames' = RemoveAt(us, p[2])
       /\ emitted' = Append(emitted, [vis |-> vs[p[1]], uv |-> us[p[2]]])
  \/ /\ \A p \in Candidates(vs, us) : Diff(vs[p[1]], us[p[2]]) > ToleranceNs
     /\ visibleFrames' = vs
     /\ uvFrames' = us
     /\ UNCHANGED emitted

\* Mutant: one frame too many.
EvictOldLate(queue) ==
  IF Len(queue) > MaxBufferSize + 1 THEN Tail(queue) ELSE queue

\* evictOld: the newest MaxBufferSize frames.
EvictOld(queue) ==
  IF Len(queue) > MaxBufferSize
  THEN SubSeq(queue, Len(queue) - MaxBufferSize + 1, Len(queue))
  ELSE queue

PushVisible(frame) ==
  /\ visSent' = frame
  /\ TryMatch(EvictOld(Append(visibleFrames, frame)), uvFrames)
  /\ UNCHANGED uvSent

PushUV(frame) ==
  /\ uvSent' = frame
  /\ TryMatch(visibleFrames, EvictOld(Append(uvFrames, frame)))
  /\ UNCHANGED visSent

Drain ==
  /\ visibleFrames' = <<>>
  /\ uvFrames' = <<>>
  /\ UNCHANGED <<visSent, uvSent, emitted>>

\* A camera may be reconnected at any time and start again from any time.
Next ==
  \/ \E t \in VisPts : /\ visSent.seq < MaxFrames
                       /\ PushVisible([seq |-> visSent.seq + 1, pts |-> t])
  \/ \E t \in UvPts : /\ uvSent.seq < MaxFrames
                      /\ PushUV([seq |-> uvSent.seq + 1, pts |-> t])
  \/ Drain

Spec == Init /\ [][Next]_vars
-----------------------------------------------------------------------------
\* The types, and the bound maxBufferSize puts on the buffers.
TypeOK ==
  /\ visibleFrames \in Seq(VisFrame) /\ Len(visibleFrames) <= MaxBufferSize
  /\ uvFrames \in Seq(UvFrame) /\ Len(uvFrames) <= MaxBufferSize
  /\ visSent.seq \in Nat /\ uvSent.seq \in Nat
  /\ emitted \in Seq([vis : VisFrame, uv : UvFrame])

Distance(a, b) == IF a.pts < b.pts THEN b.pts - a.pts ELSE a.pts - b.pts

\* No two frames, one of each camera, are 2^63 or more apart.
NoOverflow == \A v \in VisPts : \A u \in UvPts : v - u \in (1 - HalfRange)..(HalfRange - 1)

\* One match per push is enough: between pushes the buffers never hold two
\* frames that belong together, however many wait and in whatever order they
\* came (provided that NoOverflow).
NoMatchLeft ==
  \A i \in 1..Len(visibleFrames) : \A j \in 1..Len(uvFrames) :
    Distance(visibleFrames[i], uvFrames[j]) > ToleranceNs

\* The callback receives frames no further apart than the tolerance, also
\* when a camera delivers frames without a time stamp (AV_NOPTS_VALUE is
\* -2^63) and the subtraction overflows.
EmittedClose ==
  \A k \in 1..Len(emitted) : Distance(emitted[k].vis, emitted[k].uv) <= ToleranceNs

\* No frame is part of two pairs or still buffered after it was emitted.
EmittedOnce ==
  /\ \A k, l \in 1..Len(emitted) :
       k # l => /\ emitted[k].vis.seq # emitted[l].vis.seq
                /\ emitted[k].uv.seq # emitted[l].uv.seq
  /\ \A k \in 1..Len(emitted) :
       /\ \A i \in 1..Len(visibleFrames) : emitted[k].vis.seq # visibleFrames[i].seq
       /\ \A j \in 1..Len(uvFrames) : emitted[k].uv.seq # uvFrames[j].seq

\* What Candidates and IsBest say is what the loops of tryMatch find when a
\* frame arrives, also when differences overflow: the same pair, or none within
\* the tolerance.
ScanAgrees ==
  \A vs \in {Append(visibleFrames, [seq |-> 0, pts |-> t]) : t \in VisPts} :
    LET best == Scan(vs, uvFrames)
    IN IF best.diff < 0 \/ best.diff > ToleranceNs
       THEN \A p \in Candidates(vs, uvFrames) : Diff(vs[p[1]], uvFrames[p[2]]) > ToleranceNs
       ELSE {p \in Candidates(vs, uvFrames) : IsBest(vs, uvFrames, p)} = {best.pos}

\* A pair is reported by the push of its later frame: a frame that waits is
\* never paired by the arrival of a third one.
PairedOnArrival ==
  [][emitted' # emitted =>
       LET pair == emitted'[Len(emitted')] IN
         \/ pair.vis = visSent' /\ visSent' # visSent
         \/ pair.uv = uvSent' /\ uvSent' # uvSent]_vars

\* Of two frames of a camera, the later one has a time that is later by more
\* than the tolerance.
Spaced(a, b) ==
  /\ a.seq < b.seq => a.pts + ToleranceNs < b.pts
  /\ b.seq < a.seq => b.pts + ToleranceNs < a.pts

\* Two pairs leave in the order of both cameras if the frames of each camera
\* are further apart than the tolerance, whatever waits, is evicted or drained
\* in between (provided that NoOverflow).  Frames closer together may leave
\* crosswise: the closest pair is taken, not the oldest.
OrderPreserved ==
  \A k, l \in 1..Len(emitted) :
    k < l /\ Spaced(emitted[k].vis, emitted[l].vis) /\ Spaced(emitted[k].uv, emitted[l].uv) =>
      /\ emitted[k].vis.seq < emitted[l].vis.seq
      /\ emitted[k].uv.seq < emitted[l].uv.seq

\* The frames of each camera that the callback received.
VisPaired == {emitted[k].vis.seq : k \in 1..Len(emitted)}
UvPaired  == {emitted[k].uv.seq : k \in 1..Len(emitted)}

\* A frame is paired only while fewer than MaxBufferSize frames of its own
\* camera that came after it went without a partner.  How many came after it
\* and were paired says nothing: they leave the buffer and it stays, for as
\* long as the camera's frames find partners, also when the camera was
\* connected anew in between.
LeftoversEvicted ==
  [][emitted' # emitted =>
       LET pair == emitted'[Len(emitted')] IN
         /\ Cardinality(((pair.vis.seq + 1)..visSent'.seq) \ VisPaired) < MaxBufferSize
         /\ Cardinality(((pair.uv.seq + 1)..uvSent'.seq) \ UvPaired) < MaxBufferSize]_vars
==============================================================================
