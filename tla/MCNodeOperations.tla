--------------------------- MODULE MCNodeOperations ---------------------------
(***************************************************************************)
(* NodeOperations for TLC.  Messages and tests are numbers that actions    *)
(* compare, so there is no symmetry to use.  The first message and the     *)
(* first test are acknowledged twice, so that a copy may come while the    *)
(* second is under way.                                                    *)
(***************************************************************************)
EXTENDS NodeOperations

MCMaxAcks == [o \in Operation |-> IF o[2] = 1 THEN 2 ELSE 1]
=============================================================================
