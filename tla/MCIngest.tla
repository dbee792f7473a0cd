------------------------------ MODULE MCIngest ------------------------------
(* The model-checking instance of Ingest: cameras whose frames carry one of  *)
(* two times, or none: those of a camera without time stamps begin at -7, so *)
(* that HalfRange is between the first of them and 1.                        *)
EXTENDS Ingest

SomeStamps == {1, 3}
SomeTimes  == {-7, -6, 1, 3}
=============================================================================
