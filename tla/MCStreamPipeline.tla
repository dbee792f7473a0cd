-------------------------- MODULE MCStreamPipeline --------------------------
(* Model-checking instance of StreamPipeline. *)
EXTENDS StreamPipeline, TLC
==============================================================================
