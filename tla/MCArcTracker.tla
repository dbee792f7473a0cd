---------------------------- MODULE MCArcTracker ----------------------------
(* Model-checking instances of ArcTracker: boxes one pixel high, so that     *)
(* their overlap is that of intervals, and the thresholds of the code.       *)
EXTENDS ArcTracker, TLC

Larger(a, b)  == IF a < b THEN b ELSE a
Smaller(a, b) == IF a < b THEN a ELSE b

IntervalIou(a, b) ==
  LET inter == Larger(0, Smaller(a[2], b[2]) - Larger(a[1], b[1]))
      union == (a[2] - a[1]) + (b[2] - b[1]) - inter
  IN IF union > 0 THEN (1000 * inter) \div union ELSE 0

\* Overlaps of three fifths (suppressed by nms), of a third (matched by the
\* tracker, not suppressed), of a seventh (not matched) and none; one box has
\* no area.
RowOfBoxes == {<<0, 4>>, <<2, 6>>, <<3, 7>>, <<3, 3>>}

\* Arcs are strong in one place and weak elsewhere.
StrongOrWeak == {[box |-> b, energy |-> IF b = <<0, 4>> THEN 3 ELSE 1] : b \in RowOfBoxes}

OverlapTable == [a \in RowOfBoxes, b \in RowOfBoxes |-> IntervalIou(a, b)]
Overlap(a, b) == OverlapTable[a, b]

\* Time may step back when a camera is reconnected.
Restarts == {-2, 1, 3}

\* The order of the thresholds in the code.  The second sighting can reach
\* every level, a third one every fall.
SmallThresholds ==
  [cumulative2 |-> 2, cumulative3 |-> 5, cumulative4 |-> 6, cumulative5 |-> 8,
   instant3 |-> 2, instant5 |-> 3, duration4 |-> 3, duration5 |-> 6]
==============================================================================
