---------------------------- MODULE MCWireLayout ----------------------------
(* The model-checking instance of WireLayout: a 64-bit target.               *)
EXTENDS WireLayout
==============================================================================
