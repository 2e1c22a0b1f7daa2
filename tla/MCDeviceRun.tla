------------------------------ MODULE MCDeviceRun ------------------------------
(***************************************************************************)
(* DeviceRun for TLC: two overlapping tests of reported properties, and    *)
(* one failure more than the limits allow.  No symmetry, because liveness  *)
(* is checked too.                                                         *)
(***************************************************************************)
EXTENDS DeviceRun
=============================================================================
