-------------------------- MODULE MCDesiredProperties --------------------------
(***************************************************************************)
(* DesiredProperties for TLC.  Tests are numbers and None is 0, so there   *)
(* is no symmetry to use; three tests are enough for one that is still     *)
(* under way in the service, one that runs and one that is refused.        *)
(***************************************************************************)
EXTENDS DesiredProperties
=============================================================================
