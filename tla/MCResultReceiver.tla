-------------------------- MODULE MCResultReceiver --------------------------
(* Model-checking instances of ResultReceiver.                               *)
EXTENDS ResultReceiver, TLC

\* One alarm after a result that is none, and two alarms.
MixedPayloads == {<<1, 2>>, <<2, 4>>}
==============================================================================
