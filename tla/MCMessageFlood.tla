----------------------------- MODULE MCMessageFlood -----------------------------
(***************************************************************************)
(* MessageFlood for TLC.  Messages are scanned in the order of their       *)
(* numbers and floods are submitted in theirs, so there is no symmetry.    *)
(***************************************************************************)
EXTENDS MessageFlood

MCMaxOps == <<2, 1>>
=============================================================================
