---------------------------- MODULE MCContextPool ----------------------------
(* The model-checking instance of EngineLoad and ContextPool: more threads   *)
(* than contexts.                                                            *)
EXTENDS EngineLoad
==============================================================================
