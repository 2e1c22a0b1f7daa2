------------------------------ MODULE RoundTrip ------------------------------
(***************************************************************************)
(* What a set of operation tickets promises the device app: an operation   *)
(* is tracked from its start until its response completes it, it completes *)
(* at most once however often the response arrives, a completed one is     *)
(* dropped from the list, and its caller gets one verdict, "verified" only *)
(* after the completion.                                                   *)
(***************************************************************************)
CONSTANT Op

VARIABLES
  verdict,    \* what the caller of each operation has concluded
  tracked,    \* the started operations a response can still complete
  completed   \* the operations whose response has been seen

vars == <<verdict, tracked, completed>>

Final == {"verified", "timedOut", "failed"}

Init ==
  /\ verdict = [o \in Op |-> "none"]
  /\ tracked = {}
  /\ completed = {}

Start(o) ==
  /\ verdict[o] = "none"
  /\ verdict' = [verdict EXCEPT ![o] = "pending"]
  /\ tracked' = tracked \cup {o}
  /\ UNCHANGED completed

Complete(o) ==
  /\ o \in tracked \ completed
  /\ completed' = completed \cup {o}
  /\ UNCHANGED <<verdict, tracked>>

Drop(o) ==
  /\ o \in tracked \cap completed
  /\ tracked' = tracked \ {o}
  /\ UNCHANGED <<verdict, completed>>

Conclude(o, v) ==
  /\ verdict[o] = "pending"
  /\ v = "verified" => o \in completed
  /\ verdict' = [verdict EXCEPT ![o] = v]
  /\ UNCHANGED <<tracked, completed>>

Next ==
  \E o \in Op :
    \/ Start(o) \/ Complete(o) \/ Drop(o)
    \/ \E v \in Final : Conclude(o, v)

Spec == Init /\ [][Next]_vars
=============================================================================
