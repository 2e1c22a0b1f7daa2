------------------------------ MODULE MCSdkTests ------------------------------
(***************************************************************************)
(* SdkTests for TLC: one rule of another program whose listing contains    *)
(* neither name and port, and one that is taken for a rule of the tests.   *)
(***************************************************************************)
EXTENDS SdkTests

CONSTANTS ssh, alike

MCTakenFor == [r \in Other |-> IF r = alike THEN "REJECT" ELSE "none"]
=============================================================================
