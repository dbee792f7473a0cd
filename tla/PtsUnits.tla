------------------------------ MODULE PtsUnits ------------------------------
(***************************************************************************)
(* The unit of the times that FrameSync compares.  A decoded frame carries *)
(* the time stamp of its stream, counted in the stream's time base; the    *)
(* decoder hands the count on under the name PTSNs, and the synchroniser   *)
(* compares it with a tolerance in nanoseconds.                            *)
(***************************************************************************)
EXTENDS FrameSync

CONSTANTS
  Ticks,       \* time stamps in units of the time base
  NsPerTick    \* nanoseconds in one such unit

\* DecodeNext: the time stamp as it is.
PTSNs(ticks) == ticks

StampedTimes == {PTSNs(t) : t \in Ticks}

\* When a frame was taken, in nanoseconds.
TakenAt(frame) == NsPerTick * (CHOOSE t \in Ticks : PTSNs(t) = frame.pts)

\* The two frames of a pair were taken within sync_tolerance_ms of each other.
PairsWithinTolerance ==
  \A k \in 1..Len(emitted) :
    TakenAt(emitted[k].vis) - TakenAt(emitted[k].uv) \in (-ToleranceNs)..ToleranceNs
==============================================================================
