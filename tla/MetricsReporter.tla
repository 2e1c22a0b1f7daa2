---------------------------- MODULE MetricsReporter ----------------------------
(***************************************************************************)
(* What the device app tells Azure Monitor                                 *)
(* (python/common/azure_monitor_metrics.py): a metric's setter puts its    *)
(* value into one measurement map, and record() pushes all that is in the  *)
(* map.  The tests that report and the sends that measure their latency    *)
(* share the reporter under reporter_lock.                                 *)
(***************************************************************************)
EXTENDS Naturals, FiniteSets

CONSTANT Reporter  \* the calls of test_reported_properties that may overlap

VARIABLES
  step,    \* [Reporter -> where its report is]
  holder,  \* who holds reporter_lock, or "none"
  health,  \* whose system health metrics are in the measurement map
  test     \* whose test metrics are

metricsVars == <<step, holder, health, test>>

MetricsInit ==
  /\ step = [r \in Reporter |-> "complete"]
  /\ holder = "none" /\ health = "none" /\ test = "none"

StepTo(r, from, to) == step[r] = from /\ step' = [step EXCEPT ![r] = to]

-----------------------------------------------------------------------------

\* Mutant: the reporter is not locked.
Unlocked == TRUE

Free == holder = "none"

\* Mutant: the lock is taken by a call of its own, and its release forgotten.
StillHeld == holder

Released == "none"

\* send_metrics_to_azure_monitor takes the lock and sets the system health metrics.
SetHealth(r) ==
  /\ Free /\ StepTo(r, "complete", "locked")
  /\ holder' = r /\ health' = r
  /\ UNCHANGED test

\* It sets the test metrics, records what is in the map, and frees the lock.
SetTest(r) ==
  /\ StepTo(r, "locked", "recorded")
  /\ test' = r /\ holder' = Released
  /\ UNCHANGED health

\* send_message_with_metrics records its latency, and with it what else is in the map.
RecordLatency == Free /\ UNCHANGED metricsVars

Report(r) == SetHealth(r) \/ SetTest(r)
=============================================================================
