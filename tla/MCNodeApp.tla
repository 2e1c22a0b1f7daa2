------------------------------- MODULE MCNodeApp -------------------------------
(***************************************************************************)
(* NodeApp for TLC.  Besides a signal, a run has one error from            *)
(* startDeviceApp and up to three from each pass of the metrics loop.      *)
(* Three messages are enough for a gap, for an old index and for a first   *)
(* message that is late.                                                   *)
(***************************************************************************)
EXTENDS NodeApp
=============================================================================
