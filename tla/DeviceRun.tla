------------------------------- MODULE DeviceRun -------------------------------
(***************************************************************************)
(* A run of the device app (main in python/device/device.py): start-up,    *)
(* the loop that watches the test threads, what counts as a failure, and   *)
(* the run state that the twin shows the service app.                      *)
(*                                                                         *)
(* The executors are those of the module Executor.  What main() gets from  *)
(* them is kept here as the exceptions of dead threads that no             *)
(* check_for_failures has collected yet.  The one test thread kept as a    *)
(* thread is test_reported_properties, because it writes the run state     *)
(* into the twin too.                                                      *)
(***************************************************************************)
EXTENDS Naturals

CONSTANTS
  Tester,             \* threads that run test_reported_properties
  AllowedExceptions,  \* ALLOWED_EXCEPTION_COUNT
  AllowedTimeouts,    \* OPERATION_TIMEOUT_ALLOWED_FAILURE_COUNT
  MaxRunDuration,     \* MAX_RUN_DURATION_IN_SECONDS: 0 or more
  MaxFailures         \* bound: exceptions and timeouts of a run

ASSUME RunAssumption ==
  {AllowedExceptions, AllowedTimeouts, MaxRunDuration, MaxFailures} \subseteq Nat

VARIABLES
  mainPc,     \* where main() is
  runState,   \* metrics.run_state
  twinState,  \* the run state in the reported properties
  expired,    \* planned_end_time has passed
  exceptions, \* metrics.exception_count
  timeouts,   \* the sum of the six counters of timeouts
  uncollected,\* exceptions of dead threads the loop has not been told of
  overdue,    \* a critical thread has not reset its watchdog for too long
  nonFatal,   \* non_fatal_errors, a local of the loop
  fatal,      \* fatal_error is not None, a local of the loop
  report,     \* the run state a test has read and not patched yet
  handled,    \* how many handlers have raised
  collected,  \* how many non-fatal exceptions the loop has been told of
  condemned,  \* the loop has been told of a fatal or a critical exception
  unanswered  \* how many operations have timed out

runVars == <<runState, expired>>
twinVars == <<twinState, report>>
timeoutVars == <<timeouts, unanswered>>
roundVars == <<nonFatal, fatal, collected, condemned>>
excVars == <<exceptions, handled>>
countVars == <<excVars, timeoutVars, roundVars>>
threadVars == <<uncollected, overdue>>
vars == <<mainPc, runVars, twinVars, countVars, threadVars>>

\* Of the outgoing executor exceptions are critical, fatal or plain; of the
\* incoming one, whose threads only handle messages, they are plain.
NoException == [out |-> 0, in |-> 0, fatal |-> FALSE, critical |-> FALSE]

StartUp == {"connect", "clear", "initial", "pair", "threads"}
InTry == {"loop", "wait", "watch", "counts", "failOut", "failIn", "add"}
Ending == {"join", "patch", "disconnect"}

Failures == handled + collected + unanswered + uncollected.out + uncollected.in

Init ==
  /\ mainPc = "connect" /\ runState = "Running"
  /\ twinState \in {"none", "Complete"}     \* left by the last run, if any
  /\ expired = FALSE
  /\ exceptions = 0 /\ timeouts = 0
  /\ handled = 0 /\ collected = 0 /\ unanswered = 0
  /\ nonFatal = 0 /\ fatal = FALSE /\ condemned = FALSE
  /\ uncollected = NoException /\ overdue = FALSE
  /\ report = [t \in Tester |-> "none"]

Goto(from, to) == mainPc = from /\ mainPc' = to
Proceed(from, to) == Goto(from, to) /\ UNCHANGED runVars

\* Leaves the try with run_state st.  The done event set next ends the loops of
\* the test threads, not the tests they have submitted.
Leave(st) == mainPc' = "join" /\ runState' = st /\ UNCHANGED expired

-----------------------------------------------------------------------------
\* Start-up, all of it before the try of main(), and the finally.

Connect == Proceed("connect", "clear") /\ UNCHANGED <<twinVars, countVars, threadVars>>

\* The old properties are removed with one patch, the new ones set with another.
Patch(from, to, state) ==
  Proceed(from, to) /\ twinState' = state /\ UNCHANGED <<report, countVars, threadVars>>

ClearTwin == Patch("clear", "initial", "none")
PushInitial == Patch("initial", "pair", runState)

Pair == Proceed("pair", "threads") /\ UNCHANGED <<twinVars, countVars, threadVars>>

\* The threads start and planned_end_time is set.
StartThreads ==
  /\ Goto("threads", "loop") /\ expired' = (MaxRunDuration = 0)
  /\ UNCHANGED <<runState, twinVars, countVars, threadVars>>

\* Both executors are waited for, for two operation timeouts each; threads that
\* are still running then, or that were submitted since, are not waited for.
Join == Proceed("join", "patch") /\ UNCHANGED <<twinVars, countVars, threadVars>>

FinalPatch == Patch("patch", "disconnect", runState)

Disconnect == Proceed("disconnect", "exited") /\ UNCHANGED <<twinVars, countVars, threadVars>>

\* A call to the SDK raises, pairing times out, or control-C: nothing catches it.
Fails ==
  /\ mainPc \in StartUp \cup Ending /\ mainPc' = "exited"
  /\ UNCHANGED <<runVars, twinVars, countVars, threadVars>>

-----------------------------------------------------------------------------
\* The loop.

LoopTest ==
  /\ mainPc = "loop"
  /\ IF expired THEN Leave("Complete") ELSE Proceed("loop", "wait")
  /\ UNCHANGED <<twinVars, countVars, threadVars>>

\* wait_for_thread_death_event returns: some thread has ended, or it is time.
Wake == Proceed("wait", "watch") /\ UNCHANGED <<twinVars, countVars, threadVars>>

CheckWatchdogs ==
  /\ mainPc = "watch"
  /\ IF overdue THEN Leave("Failed") ELSE Proceed("watch", "counts")
  /\ UNCHANGED <<twinVars, countVars, threadVars>>

\* Mutant: the counts are compared only while there is time left.
TooManyInTime == ~expired /\ (exceptions > AllowedExceptions \/ timeouts > AllowedTimeouts)

TooMany == exceptions > AllowedExceptions \/ timeouts > AllowedTimeouts

\* Mutant: the failures of a round are counted from those of the one before.
SameRound == nonFatal

NewRound == 0

\* check_failure_counts, and the start of a new count of this round.
CheckFailureCounts ==
  /\ mainPc = "counts"
  /\ IF TooMany
       THEN Leave("Failed") /\ UNCHANGED <<nonFatal, fatal>>
       ELSE Proceed("counts", "failOut") /\ nonFatal' = NewRound /\ fatal' = FALSE
  /\ UNCHANGED <<twinVars, excVars, timeoutVars, collected, condemned, threadVars>>

\* check_for_failures of outgoing_executor.  A critical exception is raised
\* after count_failure has seen the others.
CollectOutgoing ==
  /\ mainPc = "failOut"
  /\ nonFatal' = nonFatal + uncollected.out /\ collected' = collected + uncollected.out
  /\ fatal' = uncollected.fatal
  /\ condemned' = (condemned \/ uncollected.fatal \/ uncollected.critical)
  /\ uncollected' = [NoException EXCEPT !.in = uncollected.in]
  /\ IF uncollected.critical THEN Leave("Failed") ELSE Proceed("failOut", "failIn")
  /\ UNCHANGED <<twinVars, excVars, timeoutVars, overdue>>

\* Mutant: the second check forgets what the first has found.
Forgotten == FALSE

StillFatal == fatal

CollectIncoming ==
  /\ Proceed("failIn", "add")
  /\ nonFatal' = nonFatal + uncollected.in /\ collected' = collected + uncollected.in
  /\ fatal' = StillFatal
  /\ uncollected' = [uncollected EXCEPT !.in = 0]
  /\ UNCHANGED <<twinVars, excVars, timeoutVars, condemned, overdue>>

\* check_for_failures met a future that is not done yet: the list it had taken
\* is gone.
CollectAsserts ==
  /\ \/ mainPc = "failOut" /\ uncollected' = [NoException EXCEPT !.in = uncollected.in]
     \/ mainPc = "failIn" /\ uncollected' = [uncollected EXCEPT !.in = 0]
  /\ Leave("Failed")
  /\ UNCHANGED <<twinVars, countVars, overdue>>

AddFailures ==
  /\ mainPc = "add"
  /\ exceptions' = exceptions + nonFatal
  /\ IF fatal THEN Leave("Failed") ELSE Proceed("add", "loop")
  /\ UNCHANGED <<twinVars, handled, timeoutVars, roundVars, threadVars>>

\* Mutant: the except clauses cover the finally too.
CaughtToTheEnd == InTry \cup Ending

Caught == InTry

\* Control-C anywhere in the try.
Interrupt ==
  /\ mainPc \in Caught /\ Leave("Interrupted")
  /\ UNCHANGED <<twinVars, countVars, threadVars>>

-----------------------------------------------------------------------------
\* The clock, the handlers and the test threads.

Expire ==
  /\ mainPc \in InTry /\ ~expired /\ expired' = TRUE
  /\ UNCHANGED <<mainPc, runState, twinVars, countVars, threadVars>>

\* wrap_handler counts what a handler raises; handlers are set before pairing.
HandlerRaises ==
  /\ mainPc \notin {"connect", "clear", "initial", "exited"} /\ Failures < MaxFailures
  /\ exceptions' = exceptions + 1 /\ handled' = handled + 1
  /\ UNCHANGED <<mainPc, runVars, twinVars, timeoutVars, roundVars, threadVars>>

Started == mainPc \in InTry \cup Ending

ThreadRaises(executor) ==
  /\ Started /\ Failures < MaxFailures
  /\ uncollected' = [uncollected EXCEPT ![executor] = @ + 1]
  /\ UNCHANGED <<mainPc, runVars, twinVars, countVars, overdue>>

\* A response differs from what was sent (test_method_invoke, test_c2d).
MismatchRaises ==
  /\ Started /\ uncollected' = [uncollected EXCEPT !.fatal = TRUE]
  /\ UNCHANGED <<mainPc, runVars, twinVars, countVars, overdue>>

CriticalRaises ==
  /\ Started /\ uncollected' = [uncollected EXCEPT !.critical = TRUE]
  /\ UNCHANGED <<mainPc, runVars, twinVars, countVars, overdue>>

CriticalHangs ==
  /\ Started /\ overdue' = TRUE
  /\ UNCHANGED <<mainPc, runVars, twinVars, countVars, uncollected>>

\* An operation is not answered in time and its test adds one to its counter;
\* test_method_invoke puts a new counter in place of its own instead.
TimesOut(counted) ==
  /\ Started /\ Failures < MaxFailures
  /\ timeouts' = timeouts + counted /\ unanswered' = unanswered + 1
  /\ UNCHANGED <<mainPc, runVars, twinVars, excVars, roundVars, threadVars>>

OperationTimesOut == TimesOut(1)
MethodTimesOut == TimesOut(0)

\* test_reported_properties reads the run state ...
TestReads(t) ==
  /\ Started /\ report[t] = "none"
  /\ report' = [report EXCEPT ![t] = runState]
  /\ UNCHANGED <<mainPc, runVars, twinState, countVars, threadVars>>

\* ... and patches the twin with it, perhaps after main() has returned: the
\* process lives until its threads have ended.
TestPatches(t) ==
  /\ report[t] # "none"
  /\ twinState' = report[t] /\ report' = [report EXCEPT ![t] = "none"]
  /\ UNCHANGED <<mainPc, runVars, countVars, threadVars>>

-----------------------------------------------------------------------------

\* The steps of main() that do not fail.
Main ==
  \/ Connect \/ ClearTwin \/ PushInitial \/ Pair \/ StartThreads
  \/ LoopTest \/ Wake \/ CheckWatchdogs \/ CheckFailureCounts
  \/ CollectOutgoing \/ CollectIncoming \/ AddFailures
  \/ Join \/ FinalPatch \/ Disconnect

Next ==
  \/ Main \/ Fails \/ CollectAsserts \/ Interrupt \/ Expire \/ HandlerRaises
  \/ \E executor \in {"out", "in"} : ThreadRaises(executor)
  \/ MismatchRaises \/ CriticalRaises \/ CriticalHangs
  \/ OperationTimesOut \/ MethodTimesOut
  \/ \E t \in Tester : TestReads(t) \/ TestPatches(t)

Spec == Init /\ [][Next]_vars

\* main() runs, the wait for a thread death has a timeout, and every call of
\* the SDK returns or raises.
FairSpec == Spec /\ WF_vars(Main)

-----------------------------------------------------------------------------
\* Properties.

RunState == {"Running", "Complete", "Failed", "Interrupted"}

TypeOK ==
  /\ mainPc \in StartUp \cup InTry \cup Ending \cup {"exited"}
  /\ runState \in RunState /\ twinState \in RunState \cup {"none"}
  /\ expired \in BOOLEAN /\ overdue \in BOOLEAN
  /\ fatal \in BOOLEAN /\ condemned \in BOOLEAN
  /\ exceptions \in Nat /\ handled \in Nat /\ nonFatal \in Nat /\ collected \in Nat
  /\ timeouts \in Nat /\ unanswered \in Nat
  /\ uncollected \in [out : Nat, in : Nat, fatal : BOOLEAN, critical : BOOLEAN]
  /\ report \in [Tester -> RunState \cup {"none"}]

\* A run whose loop was told of a content mismatch or of the death of a
\* critical thread does not end as Complete, whatever the second executor's
\* check and a late control-C do in between (device.py:1087-1116).
CondemnedNeverCompletes ==
  condemned => runState # "Complete"

\* An exception is in exception_count once: as a handler's or as a dead
\* thread's that the loop was told of, in this round or an earlier one
\* (device.py:1035, 1100-1104).
ExceptionsCountedOnce ==
  /\ mainPc \in {"loop", "wait", "watch", "counts"}
       => exceptions = handled + collected
  /\ mainPc \in {"failOut", "failIn", "add"}
       => exceptions + nonFatal = handled + collected

\* What a test thread that has started is told to write, and what the twin
\* shows, is the state of this run: a final state never shows up before main()
\* has decided on it, and once main() has, no test that starts later writes
\* another one (device.py:363-376, 800).
OnlyRunningIsStale ==
  /\ \A t \in Tester : report[t] \in {"none", "Running", runState}
  /\ mainPc \notin StartUp \cup {"exited"} => twinState \in {"Running", runState}

\* Too many exceptions or timeouts when the loop goes to sleep end the run as
\* failed, also if the planned end passes meanwhile (device.py:1082-1087).
ExceededFails ==
  (mainPc = "wait" /\ (exceptions > AllowedExceptions \/ timeouts > AllowedTimeouts))
    ~> runState \in {"Failed", "Interrupted"}
=============================================================================
