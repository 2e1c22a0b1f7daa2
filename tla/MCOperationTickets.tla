------------------------- MODULE MCOperationTickets -------------------------
(***************************************************************************)
(* OperationTickets for TLC: two operations, and the batches the service   *)
(* may send for them.  Within one batch the service names an id once       *)
(* (service.py:651-659), so batches repeat no id.                          *)
(***************************************************************************)
EXTENDS OperationTickets, SequencesExt

MCBatch == SetToAllKPermutations(Op) \ {<<>>}
=============================================================================
