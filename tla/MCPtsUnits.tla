----------------------------- MODULE MCPtsUnits -----------------------------
(* The model-checking instance of PtsUnits: ticks of three nanoseconds and a *)
(* tolerance of two (an RTSP video stream has ticks of 11111 ns and the code *)
(* a tolerance of five million).                                             *)
EXTENDS PtsUnits

SomeTicks == 0..4
==============================================================================
