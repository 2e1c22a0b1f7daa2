--------------------------- MODULE MCServicePairing ---------------------------
(***************************************************************************)
(* ServicePairing for TLC: the first test is one of the first run, the     *)
(* others are of the last run.                                             *)
(***************************************************************************)
EXTENDS ServicePairing

CONSTANTS t1, t2

MCRunOf == [t \in Test |-> IF t = t1 THEN 1 ELSE MaxRun]
=============================================================================
