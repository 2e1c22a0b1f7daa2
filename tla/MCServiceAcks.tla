---------------------------- MODULE MCServiceAcks ----------------------------
(***************************************************************************)
(* ServiceAcks for TLC: an urgent operation of one device, which EventHub  *)
(* may deliver twice, an ordinary one of another, and a third, a method    *)
(* call, that is answered without batching.  That pairing requests and     *)
(* commands lose nothing either is proved in ServiceAcksProofs.            *)
(***************************************************************************)
EXTENDS ServiceAcks, TLC

CONSTANTS urgent, ordinary, direct, d1, d2

MCDeviceOf == [o \in Operation |-> IF o = ordinary THEN d2 ELSE d1]

MCMaxDeliveries == [o \in Operation |-> IF o = urgent THEN 2 ELSE 1]
=============================================================================
