----------------------------- MODULE NetworkDrop -----------------------------
(***************************************************************************)
(* How the SDK tests cut the network off (python/common/drop.py and        *)
(* python/sdk_e2e/drop_fixtures.py): disconnect_port appends a rule to the *)
(* OUTPUT chain of iptables, reconnect_all lists the chain and deletes by  *)
(* number what it takes for such a rule.  The chain outlives the process:  *)
(* a session that is killed leaves its rules to the next one.              *)
(***************************************************************************)
EXTENDS Naturals, Sequences, SequencesExt

CONSTANTS
  Other,      \* the rules of other programs, with any port in their listing
  TakenFor,   \* [Other -> the type for which reconnect_all takes one, or "none"]
  MaxRules    \* bound: the length of the chain

\* all_disconnect_types: the rules of the tests, all for the port of one transport.
Type == {"DROP", "REJECT"}

ASSUME DropAssumption ==
  /\ Type \cap Other = {} /\ IsFiniteSet(Other) /\ MaxRules \in Nat
  /\ TakenFor \in [Other -> Type \cup {"none"}]

VARIABLES
  rules,  \* the chain
  pc,     \* what the process does: "down", "list" and "scan" in reconnect_all,
          \* "idle" between two tests, and "body"
  from,   \* what called reconnect_all: the "import", the "body", the "teardown"
  types,  \* the types it has still to do
  lines,  \* the listing it works on
  at,     \* the number of the line it looks at
  failed  \* a teardown raised since reconnect_all last returned

restoreVars == <<from, types, lines, at>>
dropVars == <<rules, pc, restoreVars, failed>>

\* A killed session may have left rules anywhere among those of other programs.
DropInit ==
  /\ \E s \in SetToSeqs(Other), left \in {<<>>, <<"DROP">>, <<"DROP", "REJECT">>} :
       \E n \in 0..Len(s) : rules = SubSeq(s, 1, n) \o left \o SubSeq(s, n + 1, Len(s))
  /\ pc = "down" /\ from = "import" /\ types = <<>> /\ lines = <<>> /\ at = 0 /\ failed = FALSE

Blocked == \E i \in DOMAIN rules : rules[i] \in Type

-----------------------------------------------------------------------------
(***************************************************************************)
(* reconnect_all.                                                          *)
(***************************************************************************)

Reconnect(caller) ==
  pc' = "list" /\ from' = caller /\ types' = <<"DROP", "REJECT">> /\ lines' = <<>> /\ at' = 0

\* What it leaves, however it ends.
Left == from' = "import" /\ types' = <<>> /\ lines' = <<>> /\ at' = 0

\* Where the caller goes on when reconnect_all returns.
Resume == IF from = "body" THEN "body" ELSE "idle"

\* The chain is listed for the next type, or every type is done.
List ==
  /\ pc = "list"
  /\ IF types = <<>>
       THEN pc' = Resume /\ failed' = FALSE /\ Left
       ELSE pc' = "scan" /\ lines' = rules /\ at' = Len(rules) /\ UNCHANGED <<from, types, failed>>
  /\ UNCHANGED rules

\* "disconnect_type in line and str(port) in line"
Matches(rule) == Head(types) = (IF rule \in Other THEN TakenFor[rule] ELSE rule)

\* Mutant: the lines are looked at from the first to the last.
LineForward == Len(lines) + 1 - at

\* "do the lines in reverse because deleting an entry changes the line numbers"
Line == at

Scan ==
  /\ pc = "scan"
  /\ IF at = 0
       THEN pc' = "list" /\ types' = Tail(types) /\ UNCHANGED <<rules, at>>
       ELSE /\ rules' = IF Matches(lines[Line]) /\ Line <= Len(rules)
                          THEN RemoveAt(rules, Line) ELSE rules
            /\ at' = at - 1 /\ UNCHANGED <<pc, types>>
  /\ UNCHANGED <<from, lines, failed>>

-----------------------------------------------------------------------------
(***************************************************************************)
(* The fixture, its tests and the end of the process.                      *)
(***************************************************************************)

\* The import of drop_fixtures by the first test of a session.
StartSession == pc = "down" /\ Reconnect("import") /\ UNCHANGED <<rules, failed>>

StartTest == pc = "idle" /\ pc' = "body" /\ UNCHANGED <<rules, restoreVars, failed>>

\* drop_outgoing and reject_outgoing.
Disconnect(type) ==
  /\ pc = "body" /\ Len(rules) < MaxRules
  /\ rules' = Append(rules, type)
  /\ UNCHANGED <<pc, restoreVars, failed>>

\* restore_all, called by the test ...
Restore == pc = "body" /\ Reconnect("body") /\ UNCHANGED <<rules, failed>>

\* Mutant: nothing follows the yield of the fixture.
NoTeardown == pc = "body" /\ pc' = "idle" /\ UNCHANGED <<rules, restoreVars, failed>>

\* ... or by the fixture, however the test ended.
Teardown == pc = "body" /\ Reconnect("teardown") /\ UNCHANGED <<rules, failed>>

\* A command fails, or pytest's timeout comes.  In the import it ends the
\* session, in the test it ends the test, and after the teardown the next test runs.
Raise ==
  /\ pc \in {"list", "scan"}
  /\ \/ from = "import" /\ pc' = "down" /\ Left /\ UNCHANGED failed
     \/ from = "body" /\ Reconnect("teardown") /\ UNCHANGED failed
     \/ from = "teardown" /\ pc' = "idle" /\ failed' = TRUE /\ Left
  /\ UNCHANGED rules

\* The session ends or is killed.
Kill == pc # "down" /\ pc' = "down" /\ failed' = FALSE /\ Left /\ UNCHANGED rules

-----------------------------------------------------------------------------

DropTypeOK ==
  /\ rules \in Seq(Type \cup Other) /\ lines \in Seq(Type \cup Other) /\ at \in 0..Len(lines)
  /\ pc \in {"down", "list", "scan", "idle", "body"} /\ from \in {"import", "body", "teardown"}
  /\ types \in Seq(Type) /\ failed \in BOOLEAN
=============================================================================
