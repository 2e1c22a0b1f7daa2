----------------------------- MODULE NodeOperations -----------------------------
(***************************************************************************)
(* The operations of the Node.js device app: OperationWaitlist in          *)
(* nodejs/device/src/waitlist.ts, and in index.ts the telemetry and the    *)
(* reported-property tests that use it, with the acknowledgements from the *)
(* service.                                                                *)
(*                                                                         *)
(* Node.js runs one callback at a time: an action is what runs between two *)
(* awaits, with the continuation of a promise it resolves.                 *)
(***************************************************************************)
EXTENDS Integers, FiniteSets

CONSTANTS
  MaxMessages,   \* bound: telemetry messages
  MaxTests,      \* bound: reported-property tests
  MaxAcks        \* bound: copies of the acknowledgement of an operation

ASSUME OperationsAssumption ==
  MaxMessages \in Nat /\ MaxTests \in Nat

\* An id is the kind of its operation and the number of its message or test.
Telemetry == {"telemetry"} \X (1..MaxMessages)
AddOp(n) == <<"add", n>>
RemoveOp(n) == <<"remove", n>>
Reported == {"add", "remove"} \X (1..MaxTests)
Operation == Telemetry \cup Reported

ASSUME AcksAssumption == MaxAcks \in [Operation -> Nat]

VARIABLES
  state,        \* [Operation -> state]; the waitlist holds the "waiting" ones
  pendingOps,   \* pendingOperations[OperationType.TELEMETRY]
  notReceived,  \* sendMessageCountNotReceivedByServiceApp
  count,        \* the other counters of the metrics
  latestTest,   \* propertyIndex - 1: the number of the latest test
  testPc,       \* where testReportedProperties is
  cancelled,    \* the cancel functions of both tests were called
  arrived,      \* operations whose message or twin change has reached the service
  acks          \* copies of each acknowledgement received

telemetryVars == <<pendingOps, notReceived>>
propertyVars == <<latestTest, testPc>>
serviceVars == <<arrived, acks>>
opsVars == <<state, telemetryVars, count, propertyVars, cancelled, serviceVars>>

\* clientLibraryCountExceptions, reportedPropertiesCountAdded, ...Removed and
\* ...TimedOut, desiredPropertyPatchCountTimedOut, and the tests that ended with
\* an exception.
Counter == {"exceptions", "added", "removed", "timedOut", "patchTimedOut", "failed"}

OpsInit ==
  /\ state = [o \in Operation |-> "new"]
  /\ pendingOps = 0 /\ notReceived = 0 /\ count = [c \in Counter |-> 0]
  /\ latestTest = 0 /\ testPc = "timer" /\ cancelled = FALSE
  /\ arrived = {} /\ acks = [o \in Operation |-> 0]

Becomes(o, from, to) == state[o] = from /\ state' = [state EXCEPT ![o] = to]

Counts(counter) == count' = [count EXCEPT ![counter] = @ + 1]

-----------------------------------------------------------------------------
(***************************************************************************)
(* startSendingTelemetry.                                                  *)
(***************************************************************************)

\* The interval fires and sendEvent starts.
SendTelemetry(o) ==
  /\ o \in Telemetry /\ ~cancelled /\ Becomes(o, "new", "sending")
  /\ UNCHANGED <<telemetryVars, count, propertyVars, cancelled, serviceVars>>

\* Mutant: the message is in the waitlist before it is sent, and stays there.
ListedBefore == pendingOps' = pendingOps + 1

NotListed == UNCHANGED pendingOps

SendFails(o) ==
  /\ o \in Telemetry /\ Becomes(o, "sending", "failed")
  /\ Counts("exceptions") /\ NotListed
  /\ UNCHANGED <<notReceived, propertyVars, cancelled, serviceVars>>

\* sendEvent has returned: addOperation, without a timeout.
TelemetrySent(o) ==
  /\ o \in Telemetry /\ Becomes(o, "sending", "waiting")
  /\ notReceived' = pendingOps /\ pendingOps' = pendingOps + 1
  /\ UNCHANGED <<count, propertyVars, cancelled, serviceVars>>

-----------------------------------------------------------------------------
(***************************************************************************)
(* startTestingReportedProperties.                                         *)
(***************************************************************************)

\* Its timer fires, or it starts: the patch that adds a property.
StartTest ==
  /\ testPc = "timer" /\ latestTest < MaxTests
  /\ latestTest' = latestTest + 1 /\ testPc' = "adding"
  /\ state' = [state EXCEPT ![AddOp(latestTest')] = "sending"]
  /\ UNCHANGED <<telemetryVars, count, cancelled, serviceVars>>

\* The patch was accepted: addOperation, with a timeout.
Patched(o) ==
  /\ o \in Reported /\ Becomes(o, "sending", "waiting")
  /\ testPc' = IF o[1] = "add" THEN "waitAdd" ELSE "waitRemove"
  /\ UNCHANGED <<telemetryVars, count, latestTest, cancelled, serviceVars>>

\* The test is over and its timer is set, even after cancel() was called.
EndTest == testPc' = "timer" /\ UNCHANGED latestTest

PatchFails(o) ==
  /\ o \in Reported /\ Becomes(o, "sending", "failed") /\ EndTest
  /\ count' = [count EXCEPT !.exceptions = @ + 1, !.failed = @ + 1]
  /\ UNCHANGED <<telemetryVars, cancelled, serviceVars>>

\* Mutant: addOperation is called without a timeout.
NoTimeout(o) == FALSE

HasTimeout(o) == o \in Reported

\* The operation leaves the waitlist and its promise is rejected.
TimeOut(o) ==
  /\ HasTimeout(o) /\ Becomes(o, "waiting", "timedOut") /\ EndTest
  /\ Counts(IF o[1] = "add" THEN "patchTimedOut" ELSE "timedOut")
  /\ UNCHANGED <<telemetryVars, cancelled, serviceVars>>

-----------------------------------------------------------------------------
(***************************************************************************)
(* The service, and handleServiceAckResponseMessage.                       *)
(***************************************************************************)

\* A message or a twin change reaches the service while the call that sends it
\* is still awaited, or later, and also if the call fails in the end.
Arrive(o) ==
  /\ state[o] # "new" /\ arrived' = arrived \cup {o}
  /\ UNCHANGED <<state, telemetryVars, count, propertyVars, cancelled, acks>>

ReceiveAck(o) ==
  /\ o \in arrived /\ acks[o] < MaxAcks[o]
  /\ acks' = [acks EXCEPT ![o] = @ + 1]
  /\ UNCHANGED <<cancelled, arrived>>

AckTelemetry(o) ==
  /\ o \in Telemetry /\ ReceiveAck(o) /\ Becomes(o, "waiting", "resolved")
  /\ pendingOps' = pendingOps - 1 /\ notReceived' = pendingOps'
  /\ UNCHANGED <<count, propertyVars>>

\* Mutant: the operation of a timer that has fired is still in the list.
ListedStill(o) == state[o] \in {"waiting", "timedOut"}

Listed(o) == state[o] = "waiting"

\* The addition is verified: the patch that removes the property.
AckAdd(o) ==
  /\ o[1] = "add" /\ ReceiveAck(o) /\ Listed(o)
  /\ testPc' = "removing" /\ Counts("added")
  /\ state' = [state EXCEPT ![o] = "resolved", ![RemoveOp(o[2])] = "sending"]
  /\ UNCHANGED <<telemetryVars, latestTest>>

AckRemove(o) ==
  /\ o[1] = "remove" /\ ReceiveAck(o) /\ Becomes(o, "waiting", "resolved") /\ EndTest
  /\ Counts("removed")
  /\ UNCHANGED telemetryVars

\* completeOperation returns false, and a warning is logged.
AckUnknown(o) ==
  /\ state[o] # "waiting" /\ ReceiveAck(o)
  /\ UNCHANGED <<state, telemetryVars, count, propertyVars>>

\* cancelSendingTelemetry and cancelTestingReportedProperties: they exist once
\* the first test has started.
Cancel ==
  /\ ~cancelled /\ latestTest > 0
  /\ cancelled' = TRUE
  /\ testPc' = IF testPc = "timer" THEN "off" ELSE testPc
  /\ UNCHANGED <<state, telemetryVars, count, latestTest, serviceVars>>

-----------------------------------------------------------------------------

Ack(o) == AckTelemetry(o) \/ AckAdd(o) \/ AckRemove(o) \/ AckUnknown(o)

Resume(o) ==
  TelemetrySent(o) \/ SendFails(o) \/ Patched(o) \/ PatchFails(o) \/ TimeOut(o)

OpsNext ==
  \/ \E o \in Operation : SendTelemetry(o) \/ Resume(o) \/ Arrive(o) \/ Ack(o)
  \/ StartTest \/ Cancel

OpsSpec == OpsInit /\ [][OpsNext]_opsVars

\* Calls of the SDK return or raise, and timers fire.
OpsFairSpec == OpsSpec /\ \A o \in Operation : WF_opsVars(Resume(o))

-----------------------------------------------------------------------------

OpState == {"new", "sending", "failed", "waiting", "timedOut", "resolved"}

OpsTypeOK ==
  /\ state \in [Operation -> OpState]
  /\ pendingOps \in Nat /\ notReceived \in Nat
  /\ count \in [Counter -> Nat]
  /\ latestTest \in 0..MaxTests
  /\ testPc \in {"timer", "adding", "waitAdd", "removing", "waitRemove", "off"}
  /\ cancelled \in BOOLEAN
  /\ arrived \subseteq Operation
  /\ acks \in [Operation -> Nat]

\* What the metrics loop takes for timeouts of telemetry are the messages that
\* wait for their acknowledgement, however often one arrives (waitlist.ts:43-65,
\* index.ts:614).
PendingIsWaiting ==
  pendingOps = Cardinality({o \in Telemetry : state[o] = "waiting"})

\* Every test that is over has one outcome, and a property is removed only after
\* it was added, however late or often acknowledgements come (index.ts:450-533).
OneOutcomeEach ==
  LET over == count.removed + count.timedOut + count.patchTimedOut + count.failed
  IN  /\ over = (IF testPc \in {"timer", "off"} THEN latestTest ELSE latestTest - 1)
      /\ count.removed <= count.added

\* A test ends even if no acknowledgement ever comes (index.ts:482-524).
TestsEnd ==
  testPc \notin {"timer", "off"} ~> testPc \in {"timer", "off"}
=============================================================================
