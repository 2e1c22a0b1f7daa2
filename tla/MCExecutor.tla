----------------------------- MODULE MCExecutor -----------------------------
(***************************************************************************)
(* Executor for TLC: a critical job of the main thread that submits a      *)
(* short-lived one, as the receiving thread of the service and the sending *)
(* thread of the device do, and a job that this one submits in turn.       *)
(***************************************************************************)
EXTENDS Executor, TLC

CONSTANTS loop, task, nested

MCParent == [j \in Job |-> CASE j = task -> loop [] j = nested -> task [] OTHER -> Main]
=============================================================================
