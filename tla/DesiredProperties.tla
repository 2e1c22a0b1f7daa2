--------------------------- MODULE DesiredProperties ---------------------------
(***************************************************************************)
(* The desired-property test of the Python device app: in device/device.py *)
(* test_desired_properties behind return_if_already_running, and the       *)
(* callback that queues patches; in service/service.py the command         *)
(* setDesiredProps, which an executor thread per message runs; and the     *)
(* twin in the hub between them.                                           *)
(***************************************************************************)
EXTENDS Integers, Sequences

CONSTANT NTests   \* bound: tests the operation test thread submits

ASSUME TestsAssumption == NTests \in Nat \ {0}

\* A test is named by the twin_guid it makes.
Test == 1..NTests
None == 0

VARIABLES
  pc,              \* [Test -> where the thread of the test is]
  late,            \* tests whose end_time has passed
  alreadyRunning,  \* the test that holds the semaphore already_running, or None
  commands,        \* guids on their way to update_twin in the service
  desired,         \* the guid in the twin
  patches,         \* patches on their way to the device, in order
  queue,           \* incoming_desired_property_patch_queue
  received,        \* desired_property_patch_count_received
  patchTimedOut,   \* desired_property_patch_count_timed_out
  succeeded,       \* get_twin_count_succeeded
  twinTimedOut     \* get_twin_count_timed_out

counters == <<received, patchTimedOut, succeeded, twinTimedOut>>
hub == <<commands, desired, patches>>
desiredVars == <<pc, late, alreadyRunning, hub, queue, counters>>

DesiredInit ==
  /\ pc = [t \in Test |-> "new"]
  /\ late = {} /\ alreadyRunning = None
  /\ commands = {} /\ desired = None /\ patches = <<>> /\ queue = <<>>
  /\ received = 0 /\ patchTimedOut = 0 /\ succeeded = 0 /\ twinTimedOut = 0

Go(t, from, to) == pc[t] = from /\ pc' = [pc EXCEPT ![t] = to]

-----------------------------------------------------------------------------
(***************************************************************************)
(* The test.                                                               *)
(***************************************************************************)

\* The executor runs the test, which returns at once while another one runs.
Start(t) ==
  /\ \/ alreadyRunning = None /\ alreadyRunning' = t /\ Go(t, "new", "sending")
     \/ alreadyRunning # None /\ UNCHANGED alreadyRunning /\ Go(t, "new", "skipped")
  /\ UNCHANGED <<late, hub, queue, counters>>

\* The exception leaves the test, and the finally clause releases the semaphore.
Raise(t, from) == Go(t, from, "raised") /\ alreadyRunning' = None

\* send_message returns, or it raises, and in both cases may have sent the
\* command.
SendCommand(t) ==
  /\ \/ Go(t, "sending", "checking") /\ UNCHANGED alreadyRunning
     \/ Raise(t, "sending")
  /\ commands' \in {commands \cup {t}, commands}
  /\ UNCHANGED <<late, desired, patches, queue, counters>>

\* The time of the test passes its end_time.
PassEndTime(t) ==
  /\ pc[t] \in {"checking", "polling", "blocked"} /\ t \notin late
  /\ late' = late \cup {t}
  /\ UNCHANGED <<pc, alreadyRunning, hub, queue, counters>>

\* The condition of the loop, then queue.get(max(0, end_time - now)): its only
\* argument is "block", so it waits without a timeout unless the rest is 0.
Check(t) ==
  /\ \/ t \notin late /\ Go(t, "checking", "blocked") /\ UNCHANGED <<late, patchTimedOut>>
     \/ t \notin late /\ Go(t, "checking", "polling") /\ late' = late \cup {t}
        /\ UNCHANGED patchTimedOut
     \/ t \in late /\ Go(t, "checking", "noPatch") /\ patchTimedOut' = patchTimedOut + 1
        /\ UNCHANGED late
  /\ UNCHANGED <<alreadyRunning, hub, queue, received, succeeded, twinTimedOut>>

\* Mutant: the loop ends at the first patch, whichever guid it has.
EndsAtAny == "noPatch"

\* A patch with another guid: the loop goes on.
AfterOther == "checking"

\* Mutant: the expected patch is counted but does not end the loop.
GoesOn == "checking"

\* The expected patch breaks the loop.
AfterOwn == "gotPatch"

\* queue.get returns a patch: it is the expected one, or the loop goes on.
Take(t) ==
  /\ queue # <<>> /\ queue' = Tail(queue)
  /\ pc[t] \in {"blocked", "polling"}
  /\ IF Head(queue) = t
       THEN pc' = [pc EXCEPT ![t] = AfterOwn] /\ received' = received + 1
       ELSE pc' = [pc EXCEPT ![t] = AfterOther] /\ UNCHANGED received
  /\ UNCHANGED <<late, alreadyRunning, hub, patchTimedOut, succeeded, twinTimedOut>>

\* queue.Empty.
Empty(t) ==
  /\ queue = <<>> /\ Go(t, "polling", "noPatch")
  /\ patchTimedOut' = patchTimedOut + 1
  /\ UNCHANGED <<late, alreadyRunning, hub, queue, received, succeeded, twinTimedOut>>

\* get_twin returns the property, or another, and then the name of the counter
\* is not that of any metric; or get_twin raises.
GetTwin(t) ==
  /\ \E from \in {"gotPatch", "noPatch"} :
       \/ /\ desired = t /\ Go(t, from, "done") /\ alreadyRunning' = None
          /\ succeeded' = succeeded + 1
       \/ /\ desired # t /\ Go(t, from, "mismatch") /\ alreadyRunning' = None
          /\ UNCHANGED succeeded
       \/ Raise(t, from) /\ UNCHANGED succeeded
  /\ UNCHANGED <<late, hub, queue, received, patchTimedOut, twinTimedOut>>

-----------------------------------------------------------------------------
(***************************************************************************)
(* The service, the hub and the callback.                                  *)
(***************************************************************************)

\* update_twin in one of the service's threads: it may raise, and the commands of
\* two messages run in any order.
UpdateTwin(t) ==
  /\ t \in commands
  /\ commands' = commands \ {t}
  /\ \/ desired' = t /\ patches' = Append(patches, t)
     \/ UNCHANGED <<desired, patches>>
  /\ UNCHANGED <<pc, late, alreadyRunning, queue, counters>>

\* handle_desired_property_patch_received: patches for pairing go elsewhere.
PatchReceived ==
  /\ patches # <<>>
  /\ queue' = Append(queue, Head(patches))
  /\ patches' = Tail(patches)
  /\ UNCHANGED <<pc, late, alreadyRunning, commands, desired, counters>>

-----------------------------------------------------------------------------

Step(t) == SendCommand(t) \/ Check(t) \/ Take(t) \/ Empty(t) \/ GetTwin(t)

DesiredNext ==
  \/ \E t \in Test : Start(t) \/ Step(t) \/ PassEndTime(t) \/ UpdateTwin(t)
  \/ PatchReceived

DesiredSpec == DesiredInit /\ [][DesiredNext]_desiredVars

\* The threads run, their calls return or raise, and time passes.
DesiredFairSpec ==
  /\ DesiredSpec
  /\ \A t \in Test : WF_desiredVars(Step(t)) /\ WF_desiredVars(PassEndTime(t))
  /\ WF_desiredVars(PatchReceived)

-----------------------------------------------------------------------------

Waiting == {"checking", "blocked", "polling"}
Running == Waiting \cup {"sending", "gotPatch", "noPatch"}
Ended == {"skipped", "raised", "done", "mismatch"}
InSeq(t, s) == \E i \in 1..Len(s) : s[i] = t

DesiredTypeOK ==
  /\ pc \in [Test -> {"new"} \cup Running \cup Ended]
  /\ late \in SUBSET Test
  /\ alreadyRunning \in Test \cup {None}
  /\ commands \in SUBSET Test
  /\ desired \in Test \cup {None}
  /\ patches \in Seq(Test) /\ queue \in Seq(Test)
  /\ received \in Nat /\ patchTimedOut \in Nat /\ succeeded \in Nat /\ twinTimedOut \in Nat

\* One test runs at a time, and the semaphore is free when none does, also after
\* a call that raised (device.py:156-174).
HolderIsRunning ==
  \A t \in Test : alreadyRunning = t <=> pc[t] \in Running

\* A patch that is in the queue is taken only by its own test for as long as that
\* test waits for it: no other test, and no older patch, makes it lose it
\* (device.py:858-877).
PatchReachesItsTest ==
  [][\A t \in Test :
       (InSeq(t, queue) /\ pc[t] \in Waiting /\ t \notin late)
         => ((InSeq(t, queue') /\ pc'[t] \in Waiting) \/ received' = received + 1)]_desiredVars

\* A test whose patch has come ends (device.py:857-905).
DeliveredTestEnds ==
  \A t \in Test : (InSeq(t, queue) /\ pc[t] \in Waiting) ~> pc[t] \in Ended

\* "Number of desired property patches that were not received" (device.py:336).
\* Violated: the get that waits has no timeout, so a test whose patch never comes
\* is never over, and never counted.
TestEndsInTime ==
  \A t \in Test : pc[t] \in Waiting ~> pc[t] \notin Waiting
=============================================================================
