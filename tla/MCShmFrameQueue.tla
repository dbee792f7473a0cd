--------------------------- MODULE MCShmFrameQueue ---------------------------
(* The model-checking instance of ShmFrameQueue: two frames as model values. *)
EXTENDS ShmFrameQueue

CONSTANTS f1, f2
==============================================================================
