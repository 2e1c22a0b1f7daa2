-------------------------------- MODULE MCIotHub --------------------------------
(***************************************************************************)
(* IotHub for TLC: start-up and two calls of InitializeAsync that the      *)
(* status handler starts.  No symmetry, because liveness is checked too.   *)
(***************************************************************************)
EXTENDS IotHub

CONSTANTS main, i1, i2
=============================================================================
