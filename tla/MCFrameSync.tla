----------------------------- MODULE MCFrameSync -----------------------------
(* Model-checking instance of FrameSync without overflow.                   *)
EXTENDS FrameSync, TLC

\* Several frames within reach of one.
NearVis == {0, 2, 3, 6}
NearUv  == {1, 3, 4}
==============================================================================
