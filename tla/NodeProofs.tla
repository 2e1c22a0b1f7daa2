------------------------------- MODULE NodeProofs -------------------------------
(***************************************************************************)
(* Proofs about the Node.js device app: the cloud-to-device test of        *)
(* NodeC2d, the operations of NodeOperations, and the run of NodeRun, also *)
(* as it is in NodeApp.  Each has an inductive invariant of its own, named *)
(* before its proof.                                                       *)
(***************************************************************************)
EXTENDS NodeApp, NodeOperations, FiniteSetTheorems, SequenceTheorems, TLAPS

-----------------------------------------------------------------------------
(***************************************************************************)
(* NodeC2d, for any number of messages and copies.  The inductive          *)
(* invariant adds two facts to the counts: the first index is set with the *)
(* highest and is not above it, and no index above the highest was         *)
(* delivered, so that a higher one is new.                                 *)
(***************************************************************************)

FirstIsSet ==
  IF Known THEN firstIndex \in Index /\ firstIndex <= maxReceivedIndex
           ELSE firstIndex = Undefined

DeliveredUpToMax == \A i \in Delivered : i <= maxReceivedIndex

C2dInv == C2dTypeOK /\ FirstIsSet /\ EachIndexCountedOnce /\ DeliveredUpToMax
          /\ ReceivedWereDelivered

LEMMA IndexFacts == Index \subseteq Nat /\ Undefined \notin Index /\ IsFiniteSet(Index)
<1>. Index = 0..(NMessages - 1) /\ NMessages - 1 \in Int
  BY C2dAssumption DEF Index
<1>. QED
  BY FS_Interval DEF Undefined

LEMMA DeliveredFinite == IsFiniteSet(Delivered) /\ Cardinality(Delivered) \in Nat
<1>1. Delivered \subseteq Index
  BY DEF Delivered
<1>2. IsFiniteSet(Delivered)
  BY <1>1, IndexFacts, FS_Subset
<1>. QED
  BY <1>2, FS_CardinalityType

\* A delivery adds its index to what was delivered, and nothing else.
LEMMA DeliverAdds ==
  ASSUME C2dTypeOK, NEW i \in Index, Deliver(i)
  PROVE  Delivered' = Delivered \cup {i}
BY DEF C2dTypeOK, Deliver, Delivered

LEMMA C2dInitInv == C2dInit => C2dInv
<1>. SUFFICES ASSUME C2dInit PROVE C2dInv
  OBVIOUS
<1>1. Delivered = {}
  BY DEF C2dInit, Delivered
<1>2. Cardinality(Delivered) = 0
  BY <1>1, FS_EmptySet
<1>. QED
  BY <1>1, <1>2, C2dAssumption
  DEF C2dInit, C2dInv, C2dTypeOK, FirstIsSet, EachIndexCountedOnce, DeliveredUpToMax,
      ReceivedWereDelivered, Known, Undefined

LEMMA DeliverType ==
  ASSUME C2dTypeOK, NEW i \in Index, Deliver(i)
  PROVE  sent' \in 0..NMessages /\ copies' \in [Index -> 0..MaxCopies]
BY C2dAssumption DEF C2dTypeOK, Deliver

\* A delivery above the highest index counts one more delivered message.
LEMMA FreshCounts ==
  ASSUME C2dInv, NEW i \in Index, Deliver(i), i > maxReceivedIndex,
         received' = received + 1
  PROVE  ReceivedWereDelivered'
<1>1. i \notin Delivered
  BY IndexFacts DEF C2dInv, C2dTypeOK, DeliveredUpToMax, Undefined
<1>2. Cardinality(Delivered') = Cardinality(Delivered) + 1
  BY <1>1, DeliveredFinite, DeliverAdds, FS_AddElement DEF C2dInv
<1>. QED
  BY <1>2, DeliveredFinite DEF C2dInv, C2dTypeOK, ReceivedWereDelivered

LEMMA InitialInv == ASSUME C2dInv, NEW i \in Index, ReceiveInitial(i) PROVE C2dInv'
<1>. Deliver(i) /\ i \in Nat /\ maxReceivedIndex = -1 /\ i \in Int
  BY C2dAssumption DEF ReceiveInitial, Known, Undefined, Index
<1>1. ReceivedWereDelivered'
  BY FreshCounts DEF ReceiveInitial
<1>2. DeliveredUpToMax'
  BY DeliverAdds, IndexFacts DEF C2dInv, ReceiveInitial, DeliveredUpToMax, Delivered, C2dTypeOK
<1>3. C2dTypeOK'
  BY DeliverType DEF C2dInv, C2dTypeOK, ReceiveInitial
<1>. QED
  BY <1>1, <1>2, <1>3
  DEF C2dInv, ReceiveInitial, FirstIsSet, EachIndexCountedOnce, Known, Undefined

LEMMA NextInv == ASSUME C2dInv, NEW i \in Index, ReceiveNext(i) PROVE C2dInv'
<1>. Deliver(i) /\ i \in Nat /\ maxReceivedIndex \in Index /\ maxReceivedIndex \in Int
  BY C2dAssumption DEF C2dInv, C2dTypeOK, ReceiveNext, Known, Index
<1>1. ReceivedWereDelivered'
  BY FreshCounts DEF ReceiveNext
<1>2. DeliveredUpToMax'
  BY DeliverAdds, IndexFacts DEF C2dInv, ReceiveNext, DeliveredUpToMax, Delivered, C2dTypeOK
<1>3. C2dTypeOK'
  BY DeliverType DEF C2dInv, C2dTypeOK, ReceiveNext
<1>. QED
  BY <1>1, <1>2, <1>3, IndexFacts
  DEF C2dInv, C2dTypeOK, ReceiveNext, FirstIsSet, EachIndexCountedOnce, Known, Undefined

LEMMA SkippingInv == ASSUME C2dInv, NEW i \in Index, ReceiveSkipping(i) PROVE C2dInv'
<1>. Deliver(i) /\ i \in Nat /\ maxReceivedIndex \in Index /\ maxReceivedIndex \in Int
  BY C2dAssumption DEF C2dInv, C2dTypeOK, ReceiveSkipping, Gap, Known, Index
<1>1. ReceivedWereDelivered'
  BY FreshCounts DEF ReceiveSkipping
<1>2. DeliveredUpToMax'
  BY DeliverAdds, IndexFacts DEF C2dInv, ReceiveSkipping, DeliveredUpToMax, Delivered, C2dTypeOK
<1>3. C2dTypeOK'
  BY DeliverType DEF C2dInv, C2dTypeOK, ReceiveSkipping, Gap
<1>. QED
  BY <1>1, <1>2, <1>3, IndexFacts
  DEF C2dInv, C2dTypeOK, ReceiveSkipping, Gap, FirstIsSet, EachIndexCountedOnce, Known, Undefined

\* An old index is counted in the span already, and a message that comes again or
\* late can only add to what was delivered.
LEMMA OldInv == ASSUME C2dInv, NEW i \in Index, ReceiveOld(i) PROVE C2dInv'
<1>. Deliver(i)
  BY DEF ReceiveOld
<1>1. Cardinality(Delivered) <= Cardinality(Delivered')
  <2>1. Delivered' = Delivered \cup {i}
    BY DeliverAdds DEF C2dInv
  <2>2. IsFiniteSet(Delivered')
    BY <2>1, DeliveredFinite, FS_AddElement
  <2>. QED
    BY <2>1, <2>2, FS_Subset
<1>2. Cardinality(Delivered') \in Nat
  BY DeliveredFinite, DeliverAdds, FS_AddElement, FS_CardinalityType DEF C2dInv
<1>3. ReceivedWereDelivered'
  BY <1>1, <1>2, DeliveredFinite DEF C2dInv, C2dTypeOK, ReceiveOld, ReceivedWereDelivered
<1>4. DeliveredUpToMax'
  BY DeliverAdds DEF C2dInv, ReceiveOld, DeliveredUpToMax
<1>5. C2dTypeOK'
  BY DeliverType DEF C2dInv, C2dTypeOK, ReceiveOld
<1>. QED
  BY <1>3, <1>4, <1>5
  DEF C2dInv, ReceiveOld, FirstIsSet, EachIndexCountedOnce, Known

\* The other steps touch nothing the invariant is about.
LEMMA C2dStepInv == C2dInv /\ [C2dNext]_c2dVars => C2dInv'
<1>. SUFFICES ASSUME C2dInv, [C2dNext]_c2dVars PROVE C2dInv'
  OBVIOUS
<1>1. ASSUME UNCHANGED <<copies, maxReceivedIndex, firstIndex, received, missing>>, C2dTypeOK'
      PROVE  C2dInv'
  BY <1>1 DEF C2dInv, FirstIsSet, EachIndexCountedOnce, DeliveredUpToMax,
              ReceivedWereDelivered, Known, Delivered
<1>2. CASE Send
  BY <1>1, <1>2, C2dAssumption DEF C2dInv, C2dTypeOK, Send
<1>3. CASE UNCHANGED c2dVars
  BY <1>1, <1>3 DEF C2dInv, C2dTypeOK, c2dVars
<1>4. ASSUME NEW i \in Index, Receive(i) PROVE C2dInv'
  BY <1>4, InitialInv, NextInv, SkippingInv, OldInv DEF Receive
<1>. QED
  BY <1>2, <1>3, <1>4 DEF C2dNext, C2dMessage

LEMMA C2dInvariance == C2dSpec => []C2dInv
BY C2dInitInv, C2dStepInv, PTL DEF C2dSpec

\* The type invariant; no counter goes below 0.
THEOREM C2dTypeCorrect == C2dSpec => []C2dTypeOK
<1>1. C2dInv => C2dTypeOK
  BY DEF C2dInv
<1>. QED
  BY C2dInvariance, <1>1, PTL

\* The received and missing messages add up to the span of the indices.
THEOREM IndexesAreCountedOnce == C2dSpec => []EachIndexCountedOnce
<1>1. C2dInv => EachIndexCountedOnce
  BY DEF C2dInv
<1>. QED
  BY C2dInvariance, <1>1, PTL

\* No more messages are counted as received than were delivered.
THEOREM CountedWereDelivered == C2dSpec => []ReceivedWereDelivered
<1>1. C2dInv => ReceivedWereDelivered
  BY DEF C2dInv
<1>. QED
  BY C2dInvariance, <1>1, PTL

\* In the app the listener is called only while the run lets it, and what the
\* run does leaves the counts alone: the app implements the listener by itself.
LEMMA AppImplementsC2d == AppSpec => C2dSpec
<1>1. AppInit => C2dInit
  BY DEF AppInit
<1>2. [AppNext]_appVars => [C2dNext]_c2dVars
  BY DEF AppNext, RunStep, SenderStep, ListenerStep, appVars, C2dNext
<1>. QED
  BY <1>1, <1>2, PTL DEF AppSpec, C2dSpec

\* The counts of the running app, whatever ends its run: received and missing
\* add up to the span of the indices, and nothing that did not come is counted.
THEOREM AppCountsAreRight ==
  AppSpec => [](EachIndexCountedOnce /\ ReceivedWereDelivered)
BY AppImplementsC2d, IndexesAreCountedOnce, CountedWereDelivered, PTL

-----------------------------------------------------------------------------
(***************************************************************************)
(* NodeOperations, for any number of messages, tests and acknowledgements. *)
(* The inductive invariant says that the operations of a test are where    *)
(* the test is, which the code does not store: only the latest test has an *)
(* operation under way, so that whatever ends an operation ends that test. *)
(***************************************************************************)

\* Test n is the latest, and it is at a place.
TestAt(n, pc) == latestTest = n /\ testPc = pc

TestOpsAgree ==
  \A n \in 1..MaxTests :
    /\ (state[AddOp(n)] = "sending")    <=> TestAt(n, "adding")
    /\ (state[AddOp(n)] = "waiting")    <=> TestAt(n, "waitAdd")
    /\ (state[RemoveOp(n)] = "sending") <=> TestAt(n, "removing")
    /\ (state[RemoveOp(n)] = "waiting") <=> TestAt(n, "waitRemove")

\* A property that is being removed was added and not removed before.
RemovalsFollow ==
  count.removed + (IF testPc \in {"removing", "waitRemove"} THEN 1 ELSE 0) <= count.added

OpsInv == OpsTypeOK /\ TestOpsAgree /\ PendingIsWaiting /\ OneOutcomeEach /\ RemovalsFollow

WaitingTelemetry == {o \in Telemetry : state[o] = "waiting"}

LEMMA OperationFacts ==
  /\ Telemetry \subseteq Operation /\ Reported \subseteq Operation
  /\ \A o \in Telemetry : o[1] \notin {"add", "remove"} /\ o \notin Reported
  /\ \A o \in Reported : \E n \in 1..MaxTests : o \in {AddOp(n), RemoveOp(n)}
  /\ \A n \in 1..MaxTests : /\ AddOp(n) \in Reported /\ RemoveOp(n) \in Reported
                            /\ AddOp(n)[1] = "add" /\ AddOp(n)[2] = n
                            /\ RemoveOp(n)[1] = "remove" /\ RemoveOp(n)[2] = n
<1>1. Telemetry \subseteq Operation /\ Reported \subseteq Operation
  BY DEF Operation
<1>2. ASSUME NEW o \in Telemetry PROVE o[1] \notin {"add", "remove"} /\ o \notin Reported
  BY <1>2 DEF Telemetry, Reported
<1>3. ASSUME NEW o \in Reported PROVE \E n \in 1..MaxTests : o \in {AddOp(n), RemoveOp(n)}
  BY <1>3 DEF Reported, AddOp, RemoveOp
<1>4. ASSUME NEW n \in 1..MaxTests
      PROVE  /\ AddOp(n) \in Reported /\ RemoveOp(n) \in Reported
             /\ AddOp(n)[1] = "add" /\ AddOp(n)[2] = n
             /\ RemoveOp(n)[1] = "remove" /\ RemoveOp(n)[2] = n
  BY <1>4 DEF Reported, AddOp, RemoveOp
<1>. QED
  BY <1>1, <1>2, <1>3, <1>4

LEMMA WaitingFinite ==
  IsFiniteSet(WaitingTelemetry) /\ Cardinality(WaitingTelemetry) \in Nat
<1>1. IsFiniteSet(Telemetry)
  <2>1. IsFiniteSet(1..MaxMessages)
    BY OperationsAssumption, FS_Interval
  <2>2. IsFiniteSet({"telemetry"})
    BY FS_Singleton
  <2>. QED
    BY <2>1, <2>2, FS_Product DEF Telemetry
<1>2. IsFiniteSet(WaitingTelemetry)
  BY <1>1, FS_Subset DEF WaitingTelemetry
<1>. QED
  BY <1>2, FS_CardinalityType

\* A step that changes no telemetry message keeps the count of the waiting ones.
LEMMA SameWaiting ==
  ASSUME PendingIsWaiting, UNCHANGED pendingOps,
         \A o \in Telemetry : (state'[o] = "waiting") <=> (state[o] = "waiting")
  PROVE  PendingIsWaiting'
BY DEF PendingIsWaiting
LEMMA OpsInitInv == OpsInit => OpsInv
<1>. SUFFICES ASSUME OpsInit PROVE OpsInv
  OBVIOUS
<1>. USE DEF OpsInit
<1>1. OpsTypeOK
  <2>1. state \in [Operation -> OpState] /\ acks \in [Operation -> Nat]
    BY DEF OpState
  <2>2. count \in [Counter -> Nat]
    OBVIOUS
  <2>3. cancelled \in BOOLEAN
    OBVIOUS
  <2>4. latestTest \in 0..MaxTests /\ pendingOps \in Nat /\ notReceived \in Nat
    BY OperationsAssumption
  <2>5. testPc \in {"timer", "adding", "waitAdd", "removing", "waitRemove", "off"}
    OBVIOUS
  <2>6. arrived \subseteq Operation
    OBVIOUS
  <2>. QED
    BY <2>1, <2>2, <2>3, <2>4, <2>5, <2>6 DEF OpsTypeOK
<1>2. PendingIsWaiting
  <2>1. {o \in Telemetry : state[o] = "waiting"} = {}
    BY OperationFacts
  <2>. QED
    BY <2>1, FS_EmptySet DEF PendingIsWaiting
<1>3. TestOpsAgree
  BY OperationFacts DEF TestOpsAgree, TestAt
<1>. QED
  BY <1>1, <1>2, <1>3 DEF OpsInv, OneOutcomeEach, RemovalsFollow, Counter

\* A step of a telemetry message leaves every test where it is.
LEMMA TelemetryStep ==
  ASSUME OpsInv, NEW o \in Telemetry, NEW to \in OpState,
         state' = [state EXCEPT ![o] = to], UNCHANGED propertyVars
  PROVE  TestOpsAgree' /\ state' \in [Operation -> OpState]
<1>1. state' \in [Operation -> OpState]
  BY DEF OpsInv, OpsTypeOK
<1>2. \A p \in Reported : state'[p] = state[p]
  BY OperationFacts DEF OpsInv, OpsTypeOK
<1>. QED
  BY <1>1, <1>2, OperationFacts DEF OpsInv, TestOpsAgree, TestAt, propertyVars

\* A message that starts or stops waiting changes the number of those that do by one.
LEMMA TelemetryWaits ==
  ASSUME OpsInv, NEW o \in Telemetry, Becomes(o, "sending", "waiting"),
         pendingOps' = pendingOps + 1
  PROVE  PendingIsWaiting'
<1>1. WaitingTelemetry' = WaitingTelemetry \cup {o} /\ o \notin WaitingTelemetry
  BY OperationFacts DEF OpsInv, OpsTypeOK, Becomes, WaitingTelemetry
<1>2. Cardinality(WaitingTelemetry') = Cardinality(WaitingTelemetry) + 1
  BY <1>1, WaitingFinite, FS_AddElement
<1>. QED
  BY <1>2 DEF OpsInv, PendingIsWaiting, WaitingTelemetry

LEMMA TelemetryAnswered ==
  ASSUME OpsInv, NEW o \in Telemetry, Becomes(o, "waiting", "resolved"),
         pendingOps' = pendingOps - 1
  PROVE  PendingIsWaiting' /\ pendingOps' \in Nat
<1>1. WaitingTelemetry' = WaitingTelemetry \ {o} /\ o \in WaitingTelemetry
  BY OperationFacts DEF OpsInv, OpsTypeOK, Becomes, WaitingTelemetry
<1>2. Cardinality(WaitingTelemetry') = Cardinality(WaitingTelemetry) - 1
  BY <1>1, WaitingFinite, FS_RemoveElement
<1>3. Cardinality(WaitingTelemetry') \in Nat
  BY <1>1, WaitingFinite, FS_RemoveElement, FS_CardinalityType
<1>. QED
  BY <1>2, <1>3 DEF OpsInv, PendingIsWaiting, WaitingTelemetry

\* The tests and their counts, while messages are sent and acknowledged.
LEMMA TelemetryInv ==
  ASSUME OpsInv, NEW o \in Operation,
         SendTelemetry(o) \/ SendFails(o) \/ TelemetrySent(o) \/ AckTelemetry(o)
  PROVE  OpsInv'
<1>1. CASE SendTelemetry(o)
  <2>. USE <1>1 DEF SendTelemetry, telemetryVars, propertyVars, serviceVars
  <2>1. state' = [state EXCEPT ![o] = "sending"] /\ state[o] = "new" /\ o \in Telemetry
    BY DEF Becomes
  <2>2. TestOpsAgree' /\ state' \in [Operation -> OpState]
    BY <2>1, TelemetryStep DEF OpState
  <2>3. PendingIsWaiting'
    BY <2>1, SameWaiting, OperationFacts DEF OpsInv, OpsTypeOK
  <2>. QED
    BY <2>2, <2>3 DEF OpsInv, OpsTypeOK, OneOutcomeEach, RemovalsFollow
<1>2. CASE SendFails(o)
  <2>. USE <1>2 DEF SendFails, NotListed, propertyVars, serviceVars
  <2>1. state' = [state EXCEPT ![o] = "failed"] /\ state[o] = "sending" /\ o \in Telemetry
    BY DEF Becomes
  <2>2. TestOpsAgree' /\ state' \in [Operation -> OpState]
    BY <2>1, TelemetryStep DEF OpState
  <2>3. PendingIsWaiting'
    BY <2>1, SameWaiting, OperationFacts DEF OpsInv, OpsTypeOK
  <2>4. count' \in [Counter -> Nat] /\ \A c \in Counter \ {"exceptions"} : count'[c] = count[c]
    BY DEF OpsInv, OpsTypeOK, Counts, Counter
  <2>. QED
    BY <2>2, <2>3, <2>4 DEF OpsInv, OpsTypeOK, OneOutcomeEach, RemovalsFollow, Counter
<1>3. CASE TelemetrySent(o)
  <2>. USE <1>3 DEF TelemetrySent, propertyVars, serviceVars
  <2>1. TestOpsAgree' /\ state' \in [Operation -> OpState]
    BY TelemetryStep DEF Becomes, OpState
  <2>2. PendingIsWaiting'
    BY TelemetryWaits
  <2>. QED
    BY <2>1, <2>2 DEF OpsInv, OpsTypeOK, OneOutcomeEach, RemovalsFollow
<1>4. CASE AckTelemetry(o)
  <2>. USE <1>4 DEF AckTelemetry, ReceiveAck, propertyVars
  <2>1. TestOpsAgree' /\ state' \in [Operation -> OpState]
    BY TelemetryStep DEF Becomes, OpState
  <2>2. PendingIsWaiting' /\ pendingOps' \in Nat
    BY TelemetryAnswered
  <2>3. acks' \in [Operation -> Nat]
    BY DEF OpsInv, OpsTypeOK
  <2>. QED
    BY <2>1, <2>2, <2>3 DEF OpsInv, OpsTypeOK, OneOutcomeEach, RemovalsFollow
<1>. QED
  BY <1>1, <1>2, <1>3, <1>4
\* A step of test n, alone or the first after the timer, that leaves the
\* operations of the others and all messages alone.
LEMMA TestStep ==
  ASSUME OpsInv, NEW n \in 1..MaxTests, state' \in [Operation -> OpState],
         latestTest' = n, testPc \in {"timer", "off"} \/ latestTest = n,
         \A o \in Operation \ {AddOp(n), RemoveOp(n)} : state'[o] = state[o],
         (state'[AddOp(n)] = "sending")    <=> (testPc' = "adding"),
         (state'[AddOp(n)] = "waiting")    <=> (testPc' = "waitAdd"),
         (state'[RemoveOp(n)] = "sending") <=> (testPc' = "removing"),
         (state'[RemoveOp(n)] = "waiting") <=> (testPc' = "waitRemove"),
         UNCHANGED pendingOps
  PROVE  TestOpsAgree' /\ PendingIsWaiting'
<1>1. \A o \in Telemetry : state'[o] = state[o]
  BY OperationFacts
<1>2. PendingIsWaiting'
  BY <1>1, SameWaiting DEF OpsInv
<1>3. ASSUME NEW m \in 1..MaxTests, m # n
      PROVE  /\ state'[AddOp(m)] = state[AddOp(m)] /\ state'[RemoveOp(m)] = state[RemoveOp(m)]
             /\ \A pc \in {"adding", "waitAdd", "removing", "waitRemove"} : ~TestAt(m, pc) /\ ~TestAt(m, pc)'
  <2>1. AddOp(m) \in Operation \ {AddOp(n), RemoveOp(n)}
    BY <1>3, OperationFacts
  <2>2. RemoveOp(m) \in Operation \ {AddOp(n), RemoveOp(n)}
    BY <1>3, OperationFacts
  <2>. QED
    BY <1>3, <2>1, <2>2 DEF TestAt
<1>4. \A m \in 1..MaxTests \ {n} :
        /\ (state'[AddOp(m)] = "sending")    <=> TestAt(m, "adding")'
        /\ (state'[AddOp(m)] = "waiting")    <=> TestAt(m, "waitAdd")'
        /\ (state'[RemoveOp(m)] = "sending") <=> TestAt(m, "removing")'
        /\ (state'[RemoveOp(m)] = "waiting") <=> TestAt(m, "waitRemove")'
  BY <1>3 DEF OpsInv, TestOpsAgree
<1>5. /\ (state'[AddOp(n)] = "sending")    <=> TestAt(n, "adding")'
      /\ (state'[AddOp(n)] = "waiting")    <=> TestAt(n, "waitAdd")'
      /\ (state'[RemoveOp(n)] = "sending") <=> TestAt(n, "removing")'
      /\ (state'[RemoveOp(n)] = "waiting") <=> TestAt(n, "waitRemove")'
  BY DEF TestAt
<1>. QED
  BY <1>2, <1>4, <1>5 DEF TestOpsAgree

\* The operation of a test that is under way is one of the latest test, and says
\* where that test is.
LEMMA UnderWay ==
  ASSUME OpsInv, NEW o \in Reported, state[o] \in {"sending", "waiting"}
  PROVE  /\ latestTest \in 1..MaxTests /\ latestTest \in Nat
         /\ o \in {AddOp(latestTest), RemoveOp(latestTest)}
         /\ o = AddOp(latestTest) => testPc = IF state[o] = "sending" THEN "adding" ELSE "waitAdd"
         /\ o = RemoveOp(latestTest) => testPc = IF state[o] = "sending" THEN "removing" ELSE "waitRemove"
<1>1. PICK n \in 1..MaxTests : o \in {AddOp(n), RemoveOp(n)}
  BY OperationFacts
<1>2. latestTest = n
  BY <1>1 DEF OpsInv, TestOpsAgree, TestAt
<1>. QED
  BY <1>1, <1>2, OperationsAssumption DEF OpsInv, TestOpsAgree, TestAt

LEMMA StartTestInv == ASSUME OpsInv, StartTest PROVE OpsInv'
<1>. DEFINE n == latestTest + 1
<1>. USE DEF StartTest, telemetryVars, serviceVars
<1>1. n \in 1..MaxTests /\ latestTest' = n /\ latestTest \in Nat
  BY OperationsAssumption DEF OpsInv, OpsTypeOK
<1>2. state' = [state EXCEPT ![AddOp(n)] = "sending"]
  OBVIOUS
<1>3. state' \in [Operation -> OpState]
  BY <1>1, <1>2 DEF OpsInv, OpsTypeOK, OpState
<1>4. \A o \in Operation \ {AddOp(n)} : state'[o] = state[o]
  BY <1>2 DEF OpsInv, OpsTypeOK
<1>5. state'[AddOp(n)] = "sending" /\ state'[RemoveOp(n)] = state[RemoveOp(n)]
  BY <1>1, <1>2, <1>4, OperationFacts DEF OpsInv, OpsTypeOK
<1>6. state[RemoveOp(n)] \notin {"sending", "waiting"}
  BY <1>1 DEF OpsInv, TestOpsAgree, TestAt
<1>7. TestOpsAgree' /\ PendingIsWaiting'
  BY <1>1, <1>3, <1>4, <1>5, <1>6, TestStep
<1>. QED
  BY <1>1, <1>3, <1>7 DEF OpsInv, OpsTypeOK, OneOutcomeEach, RemovalsFollow

\* An operation of the latest test that is sent, answered, or ends the test.
LEMMA PatchedInv == ASSUME OpsInv, NEW o \in Operation, Patched(o) PROVE OpsInv'
<1>. DEFINE n == latestTest
<1>. USE DEF Patched, telemetryVars, serviceVars
<1>1. o \in Reported /\ state[o] = "sending" /\ state' = [state EXCEPT ![o] = "waiting"]
  BY DEF Becomes
<1>2. /\ n \in 1..MaxTests /\ n \in Nat /\ o \in {AddOp(n), RemoveOp(n)}
      /\ o = AddOp(n) => testPc = "adding"
      /\ o = RemoveOp(n) => testPc = "removing"
  BY <1>1, UnderWay
<1>3. state' \in [Operation -> OpState] /\ state'[o] = "waiting"
      /\ \A p \in Operation \ {o} : state'[p] = state[p]
  BY <1>1 DEF OpsInv, OpsTypeOK, OpState
<1>4. AddOp(n) \in Operation /\ RemoveOp(n) \in Operation /\ AddOp(n) # RemoveOp(n)
  BY <1>2, OperationFacts
<1>5. /\ o = AddOp(n) => testPc' = "waitAdd" /\ state'[RemoveOp(n)] = state[RemoveOp(n)]
      /\ o = RemoveOp(n) => testPc' = "waitRemove" /\ state'[AddOp(n)] = state[AddOp(n)]
  BY <1>2, <1>3, <1>4, OperationFacts
<1>6. /\ o = AddOp(n) => state[RemoveOp(n)] \notin {"sending", "waiting"}
      /\ o = RemoveOp(n) => state[AddOp(n)] \notin {"sending", "waiting"}
  BY <1>2 DEF OpsInv, TestOpsAgree, TestAt
<1>7. TestOpsAgree' /\ PendingIsWaiting'
  BY <1>2, <1>3, <1>5, <1>6, TestStep
<1>8. testPc' \in {"waitAdd", "waitRemove"}
  BY <1>2, <1>5
<1>9. testPc \notin {"timer", "off"}
  BY <1>2
<1>10. RemovalsFollow'
  BY <1>2, <1>5 DEF OpsInv, RemovalsFollow
<1>11. OneOutcomeEach'
  BY <1>8, <1>9 DEF OpsInv, OneOutcomeEach
<1>. QED
  BY <1>3, <1>7, <1>8, <1>10, <1>11 DEF OpsInv, OpsTypeOK

\* Whatever ends an operation of a test that is under way, the test is over: the
\* other operation of that test is not under way.
LEMMA EndStep ==
  ASSUME OpsInv, NEW o \in Reported, state[o] \in {"sending", "waiting"},
         NEW to \in OpState \ {"sending", "waiting"},
         state' = [state EXCEPT ![o] = to], EndTest, UNCHANGED pendingOps
  PROVE  /\ TestOpsAgree' /\ PendingIsWaiting' /\ state' \in [Operation -> OpState]
         /\ testPc \notin {"timer", "off"} /\ testPc' = "timer" /\ UNCHANGED latestTest
         /\ latestTest \in Nat
         /\ o[1] = "remove" => testPc \in {"removing", "waitRemove"}
         /\ o[1] = "add" => testPc \in {"adding", "waitAdd"}
<1>. DEFINE n == latestTest
<1>1. /\ n \in 1..MaxTests /\ n \in Nat /\ o \in {AddOp(n), RemoveOp(n)}
      /\ o = AddOp(n) => testPc \in {"adding", "waitAdd"}
      /\ o = RemoveOp(n) => testPc \in {"removing", "waitRemove"}
  BY UnderWay
<1>2. /\ state' \in [Operation -> OpState] /\ state'[o] = to
      /\ \A p \in Operation \ {o} : state'[p] = state[p]
  BY OperationFacts DEF OpsInv, OpsTypeOK
<1>3. AddOp(n) \in Operation /\ RemoveOp(n) \in Operation /\ AddOp(n) # RemoveOp(n)
  BY <1>1, OperationFacts
<1>4. /\ o = AddOp(n) => state[RemoveOp(n)] \notin {"sending", "waiting"}
      /\ o = RemoveOp(n) => state[AddOp(n)] \notin {"sending", "waiting"}
  BY <1>1 DEF OpsInv, TestOpsAgree, TestAt
<1>5. state'[AddOp(n)] \notin {"sending", "waiting"} /\ state'[RemoveOp(n)] \notin {"sending", "waiting"}
  BY <1>1, <1>2, <1>3, <1>4
<1>6. TestOpsAgree' /\ PendingIsWaiting'
  BY <1>1, <1>2, <1>5, TestStep DEF EndTest
<1>7. /\ o[1] = "remove" => testPc \in {"removing", "waitRemove"}
      /\ o[1] = "add" => testPc \in {"adding", "waitAdd"}
  BY <1>1, OperationFacts
<1>. QED
  BY <1>1, <1>2, <1>6, <1>7 DEF EndTest

LEMMA CountFacts ==
  ASSUME OpsTypeOK
  PROVE  /\ count.removed \in Nat /\ count.added \in Nat /\ count.timedOut \in Nat
         /\ count.patchTimedOut \in Nat /\ count.failed \in Nat /\ count.exceptions \in Nat
BY DEF OpsTypeOK, Counter

LEMMA PatchFailsInv == ASSUME OpsInv, NEW o \in Operation, PatchFails(o) PROVE OpsInv'
<1>. USE DEF PatchFails, telemetryVars, serviceVars
<1>1. o \in Reported /\ state[o] = "sending" /\ state' = [state EXCEPT ![o] = "failed"]
  BY DEF Becomes
<1>2. /\ TestOpsAgree' /\ PendingIsWaiting' /\ state' \in [Operation -> OpState]
      /\ testPc \notin {"timer", "off"} /\ testPc' = "timer" /\ UNCHANGED latestTest
      /\ latestTest \in Nat
  BY <1>1, EndStep DEF OpState
<1>3. /\ count' \in [Counter -> Nat] /\ count'.failed = count.failed + 1
      /\ \A c \in Counter \ {"exceptions", "failed"} : count'[c] = count[c]
  <2>. DEFINE once == [count EXCEPT !.exceptions = @ + 1]
  <2>1. once \in [Counter -> Nat] /\ \A c \in Counter \ {"exceptions"} : once[c] = count[c]
    BY DEF OpsInv, OpsTypeOK, Counter
  <2>2. count' = [once EXCEPT !.failed = @ + 1]
    OBVIOUS
  <2>. HIDE DEF once
  <2>3. once.failed \in Nat
    BY <2>1 DEF Counter
  <2>. QED
    BY <2>1, <2>2, <2>3 DEF Counter
<1>4. OneOutcomeEach' /\ RemovalsFollow'
  BY <1>2, <1>3, CountFacts DEF OpsInv, OneOutcomeEach, RemovalsFollow, Counter
<1>. QED
  BY <1>2, <1>3, <1>4 DEF OpsInv, OpsTypeOK

LEMMA TimeOutInv == ASSUME OpsInv, NEW o \in Operation, TimeOut(o) PROVE OpsInv'
<1>. DEFINE c == IF o[1] = "add" THEN "patchTimedOut" ELSE "timedOut"
<1>. USE DEF TimeOut, HasTimeout, telemetryVars, serviceVars
<1>1. o \in Reported /\ state[o] = "waiting" /\ state' = [state EXCEPT ![o] = "timedOut"]
  BY DEF Becomes
<1>2. /\ TestOpsAgree' /\ PendingIsWaiting' /\ state' \in [Operation -> OpState]
      /\ testPc \notin {"timer", "off"} /\ testPc' = "timer" /\ UNCHANGED latestTest
      /\ latestTest \in Nat
  BY <1>1, EndStep DEF OpState
<1>3. /\ count' \in [Counter -> Nat] /\ count'[c] = count[c] + 1
      /\ \A d \in Counter \ {c} : count'[d] = count[d]
  BY DEF OpsInv, OpsTypeOK, Counter, Counts
<1>4. c \in {"patchTimedOut", "timedOut"}
  OBVIOUS
<1>. HIDE DEF c
<1>5. OneOutcomeEach' /\ RemovalsFollow'
  BY <1>2, <1>3, <1>4, CountFacts DEF OpsInv, OneOutcomeEach, RemovalsFollow, Counter
<1>. QED
  BY <1>2, <1>3, <1>5 DEF OpsInv, OpsTypeOK

LEMMA AckRemoveInv == ASSUME OpsInv, NEW o \in Operation, AckRemove(o) PROVE OpsInv'
<1>. USE DEF AckRemove, ReceiveAck, telemetryVars
<1>1. o \in Reported /\ state[o] = "waiting" /\ state' = [state EXCEPT ![o] = "resolved"]
  BY OperationFacts DEF Becomes, Operation
<1>2. /\ TestOpsAgree' /\ PendingIsWaiting' /\ state' \in [Operation -> OpState]
      /\ testPc \in {"removing", "waitRemove"} /\ testPc' = "timer" /\ UNCHANGED latestTest
      /\ latestTest \in Nat
  BY <1>1, EndStep DEF OpState
<1>3. /\ count' \in [Counter -> Nat] /\ count'.removed = count.removed + 1
      /\ \A d \in Counter \ {"removed"} : count'[d] = count[d]
  BY DEF OpsInv, OpsTypeOK, Counter, Counts
<1>4. OneOutcomeEach' /\ RemovalsFollow'
  BY <1>2, <1>3, CountFacts DEF OpsInv, OneOutcomeEach, RemovalsFollow, Counter
<1>5. acks' \in [Operation -> Nat]
  BY DEF OpsInv, OpsTypeOK
<1>. QED
  BY <1>2, <1>3, <1>4, <1>5 DEF OpsInv, OpsTypeOK

LEMMA AckAddInv == ASSUME OpsInv, NEW o \in Operation, AckAdd(o) PROVE OpsInv'
<1>. DEFINE n == latestTest
<1>. USE DEF AckAdd, ReceiveAck, Listed, telemetryVars
<1>1. o \in Reported /\ state[o] = "waiting"
  BY OperationFacts DEF Operation
<1>2. n \in 1..MaxTests /\ n \in Nat /\ o = AddOp(n) /\ testPc = "waitAdd"
  BY <1>1, UnderWay, OperationFacts
<1>3. RemoveOp(n) \in Operation /\ o # RemoveOp(n) /\ o[2] = n
  BY <1>2, OperationFacts
<1>4. /\ state' \in [Operation -> OpState]
      /\ state'[o] = "resolved" /\ state'[RemoveOp(n)] = "sending"
      /\ \A p \in Operation \ {AddOp(n), RemoveOp(n)} : state'[p] = state[p]
  BY <1>2, <1>3 DEF OpsInv, OpsTypeOK, OpState
<1>5. TestOpsAgree' /\ PendingIsWaiting'
  BY <1>2, <1>4, TestStep
<1>6. /\ count' \in [Counter -> Nat] /\ count'.added = count.added + 1
      /\ \A d \in Counter \ {"added"} : count'[d] = count[d]
  BY DEF OpsInv, OpsTypeOK, Counter, Counts
<1>7. OneOutcomeEach' /\ RemovalsFollow'
  BY <1>2, <1>6, CountFacts DEF OpsInv, OneOutcomeEach, RemovalsFollow, Counter
<1>8. acks' \in [Operation -> Nat]
  BY DEF OpsInv, OpsTypeOK
<1>. QED
  BY <1>4, <1>5, <1>6, <1>7, <1>8 DEF OpsInv, OpsTypeOK

\* Arrivals, acknowledgements of what is not listed, and cancellations leave the
\* operations alone; a cancelled timer ends no test.
LEMMA OtherOpsInv ==
  ASSUME OpsInv,
         \/ \E o \in Operation : Arrive(o) \/ AckUnknown(o)
         \/ Cancel \/ UNCHANGED opsVars
  PROVE  OpsInv'
<1>1. /\ UNCHANGED <<state, pendingOps, notReceived, count, latestTest>>
      /\ testPc' = testPc \/ (testPc = "timer" /\ testPc' = "off")
  BY DEF Arrive, AckUnknown, Cancel, ReceiveAck, opsVars, telemetryVars, propertyVars, serviceVars
<1>2. TestOpsAgree'
  BY <1>1 DEF OpsInv, TestOpsAgree, TestAt
<1>3. PendingIsWaiting' /\ OneOutcomeEach' /\ RemovalsFollow'
  BY <1>1 DEF OpsInv, PendingIsWaiting, OneOutcomeEach, RemovalsFollow
<1>4. cancelled' \in BOOLEAN
  BY DEF OpsInv, OpsTypeOK, Arrive, AckUnknown, Cancel, ReceiveAck, opsVars, serviceVars
<1>5. arrived' \subseteq Operation
  BY DEF OpsInv, OpsTypeOK, Arrive, AckUnknown, Cancel, ReceiveAck, opsVars, serviceVars
<1>6. acks' \in [Operation -> Nat]
  BY DEF OpsInv, OpsTypeOK, Arrive, AckUnknown, Cancel, ReceiveAck, opsVars, serviceVars
<1>. QED
  BY <1>1, <1>2, <1>3, <1>4, <1>5, <1>6 DEF OpsInv, OpsTypeOK

LEMMA OpsStepInv == OpsInv /\ [OpsNext]_opsVars => OpsInv'
<1>. SUFFICES ASSUME OpsInv, [OpsNext]_opsVars PROVE OpsInv'
  OBVIOUS
<1>1. ASSUME NEW o \in Operation, Ack(o) \/ Resume(o) \/ SendTelemetry(o) \/ Arrive(o)
      PROVE  OpsInv'
  BY <1>1, TelemetryInv, PatchedInv, PatchFailsInv, TimeOutInv, AckAddInv, AckRemoveInv, OtherOpsInv
  DEF Ack, Resume
<1>. QED
  BY <1>1, StartTestInv, OtherOpsInv DEF OpsNext

LEMMA OpsInvariance == OpsSpec => []OpsInv
BY OpsInitInv, OpsStepInv, PTL DEF OpsSpec

\* The type invariant: pendingOperations never goes below 0, though it is
\* decremented on messages that may come late or twice.
THEOREM OpsTypeCorrect == OpsSpec => []OpsTypeOK
<1>1. OpsInv => OpsTypeOK
  BY DEF OpsInv
<1>. QED
  BY OpsInvariance, <1>1, PTL

\* What the metrics loop takes for timeouts of telemetry are the messages that
\* wait, for any number of messages and acknowledgements.
THEOREM PendingAreWaiting == OpsSpec => []PendingIsWaiting
<1>1. OpsInv => PendingIsWaiting
  BY DEF OpsInv
<1>. QED
  BY OpsInvariance, <1>1, PTL

\* Every test that is over has one outcome, for any number of tests.
THEOREM TestsHaveOneOutcome == OpsSpec => []OneOutcomeEach
<1>1. OpsInv => OneOutcomeEach
  BY DEF OpsInv
<1>. QED
  BY OpsInvariance, <1>1, PTL

-----------------------------------------------------------------------------
(***************************************************************************)
(* NodeRun and NodeApp, for any number of signals and exceeded limits.     *)
(* The twin gets its updates in order, and each holds the state of the run *)
(* as it was when it began: once one of them says that the run has stopped *)
(* all later ones do, and so does the run.                                 *)
(***************************************************************************)

NoAttemptYet == start \in {"creating", "gettingTwin"} => attempt = "none"

IsStopped(i) == reports[i].state \in Stopped

StopsInOrder ==
  /\ reported \in Stopped => \A i \in DOMAIN reports : IsStopped(i)
  /\ \A i, j \in DOMAIN reports : IsStopped(i) /\ i <= j => IsStopped(j)
  /\ (reported \in Stopped) \/ (\E i \in DOMAIN reports : IsStopped(i)) => runState \in Stopped

RunInv == TypeOK /\ NoAttemptYet /\ ListenersAreRemoved /\ StopsInOrder

Update == [by : Nat, state : RunState]
Stop == [code : {ErrorCode, SignalCode}, pc : {"reporting", "closing"}]

\* What an update that began after the others does to the order.
LEMMA UpdatesAdded ==
  ASSUME RunInv, NEW new \in Seq(Update), reports' = reports \o new, UNCHANGED reported,
         \A i \in DOMAIN new : (new[i].state \in Stopped) <=> (runState' \in Stopped),
         runState \in Stopped => runState' \in Stopped
  PROVE  StopsInOrder' /\ reports' \in Seq(Update)
<1>1. reports \in Seq(Update) /\ reports' \in Seq(Update)
  BY DEF RunInv, TypeOK, Update
<1>2. /\ Len(reports') = Len(reports) + Len(new)
      /\ Len(reports) \in Nat /\ Len(new) \in Nat
      /\ DOMAIN reports = 1..Len(reports) /\ DOMAIN new = 1..Len(new)
      /\ DOMAIN reports' = 1..Len(reports')
  BY <1>1
<1>3. \A i \in DOMAIN reports : reports'[i] = reports[i] /\ i \in DOMAIN reports'
  BY <1>1, <1>2
<1>4. ASSUME NEW i \in DOMAIN reports', i \notin DOMAIN reports
      PROVE  ((reports'[i].state \in Stopped) <=> (runState' \in Stopped)) /\ i > Len(reports)
  <2>1. i - Len(reports) \in DOMAIN new
    BY <1>2, <1>4
  <2>2. reports'[i] = new[i - Len(reports)]
    BY <1>1, <1>2, <1>4
  <2>. QED
    BY <1>2, <1>4, <2>1, <2>2
<1>5. ASSUME reported \in Stopped PROVE \A i \in DOMAIN reports' : IsStopped(i)'
  <2>1. runState' \in Stopped /\ \A i \in DOMAIN reports : IsStopped(i)
    BY <1>5 DEF RunInv, StopsInOrder
  <2>. QED
    BY <2>1, <1>3, <1>4 DEF IsStopped
<1>6. ASSUME NEW i \in DOMAIN reports', IsStopped(i)' PROVE runState' \in Stopped
  <2>1. CASE i \in DOMAIN reports
    BY <1>3, <1>6, <2>1 DEF RunInv, StopsInOrder, IsStopped
  <2>2. CASE i \notin DOMAIN reports
    BY <1>4, <1>6, <2>2 DEF IsStopped
  <2>. QED
    BY <2>1, <2>2
<1>7. ASSUME NEW i \in DOMAIN reports', NEW j \in DOMAIN reports', IsStopped(i)', i <= j
      PROVE  IsStopped(j)'
  <2>1. CASE j \notin DOMAIN reports
    BY <1>4, <1>6, <1>7, <2>1 DEF IsStopped
  <2>2. CASE j \in DOMAIN reports
    <3>1. i \in DOMAIN reports
      BY <1>2, <1>7, <2>2
    <3>. QED
      BY <1>3, <1>7, <2>2, <3>1 DEF RunInv, StopsInOrder, IsStopped
  <2>. QED
    BY <2>1, <2>2
<1>. QED
  BY <1>1, <1>5, <1>6, <1>7 DEF StopsInOrder, RunInv

\* A call of stopDeviceApp, whoever makes it and wherever the run is.
LEMMA StopDeviceAppInv ==
  ASSUME RunInv, NEW codes \in Seq({ErrorCode, SignalCode}), codes # <<>>,
         StopDeviceApp(codes)
  PROVE  /\ ListenersAreRemoved' /\ listeners' \in Nat
         /\ attempt' = (IF attempt = "pending" THEN "canceled" ELSE attempt)
         /\ StopsInOrder' /\ reports' \in Seq(Update) /\ stops' \in Seq(Stop)
         /\ runState' \in Stopped
         /\ exit' \in {NoExit, ErrorCode, SignalCode}
         /\ metrics' = FALSE /\ test' \in {test, "off"} /\ UNCHANGED <<made, reported>>
<1>. DEFINE Call(i) == [code |-> codes[i],
                        pc   |-> IF made = "twin" THEN "reporting" ELSE "closing"]
            Report(i) == [by |-> Len(stops) + i, state |-> StateOf(codes[i])]
            each == 1..Len(codes)
<1>1. /\ Len(codes) \in Nat \ {0} /\ \A i \in each : codes[i] \in {ErrorCode, SignalCode}
      /\ stops \in Seq(Stop) /\ Len(stops) \in Nat
  BY DEF RunInv, TypeOK, Stop
<1>2. [i \in each |-> Call(i)] \in Seq(Stop)
  <2>1. \A i \in each : Call(i) \in Stop
    BY <1>1 DEF Stop
  <2>. QED
    BY <1>1, <2>1
<1>3. stops' = stops \o [i \in each |-> Call(i)]
  BY DEF StopDeviceApp
<1>4. stops' \in Seq(Stop)
  BY <1>1, <1>2, <1>3
<1>5. runState' = StateOf(codes[Len(codes)]) /\ runState' \in Stopped /\ runState' \in RunState
  BY DEF StopDeviceApp, StateOf, Stopped, RunState
<1>6. ListenersAreRemoved' /\ listeners' \in Nat
      /\ attempt' = (IF attempt = "pending" THEN "canceled" ELSE attempt)
  BY DEF StopDeviceApp, CleanUp, pairVars, RunInv, ListenersAreRemoved
<1>7. StopsInOrder' /\ reports' \in Seq(Update)
  <2>1. CASE made = "twin"
    <3>. DEFINE new == [i \in each |-> Report(i)]
    <3>1. \A i \in each : Report(i) \in Update /\ Report(i).state \in Stopped
      BY <1>1 DEF Update, StateOf, RunState, Stopped
    <3>2. reports' = reports \o new /\ UNCHANGED reported
      BY <2>1 DEF StopDeviceApp
    <3>. HIDE DEF Report
    <3>3. new \in Seq(Update) /\ DOMAIN new = each
      BY <1>1, <3>1
    <3>4. \A i \in DOMAIN new : new[i].state \in Stopped
      BY <3>1, <3>3
    <3>. HIDE DEF new
    <3>. QED
      BY <3>2, <3>3, <3>4, <1>5, UpdatesAdded
  <2>2. CASE made # "twin"
    <3>1. UNCHANGED <<reports, reported>>
      BY <2>2 DEF StopDeviceApp
    <3>. QED
      BY <3>1, <1>5 DEF RunInv, TypeOK, Update, StopsInOrder, IsStopped
  <2>. QED
    BY <2>1, <2>2
<1>8. exit' \in {NoExit, ErrorCode, SignalCode}
  BY <1>1 DEF StopDeviceApp, Unhandled
<1>. QED
  BY <1>4, <1>5, <1>6, <1>7, <1>8 DEF StopDeviceApp

LEMMA StopInv ==
  ASSUME RunInv, NEW codes \in Seq({ErrorCode, SignalCode}), codes # <<>>,
         StopDeviceApp(codes), start' \in {start, "caught"}, signals' \in 0..MaxSignals
  PROVE  RunInv'
<1>1. /\ ListenersAreRemoved' /\ listeners' \in Nat
      /\ attempt' = (IF attempt = "pending" THEN "canceled" ELSE attempt)
      /\ StopsInOrder' /\ reports' \in Seq(Update) /\ stops' \in Seq(Stop)
      /\ runState' \in Stopped
      /\ exit' \in {NoExit, ErrorCode, SignalCode}
      /\ metrics' = FALSE /\ test' \in {test, "off"} /\ UNCHANGED <<made, reported>>
  BY StopDeviceAppInv
<1>2. NoAttemptYet'
  BY <1>1 DEF RunInv, NoAttemptYet
<1>3. metrics' \in BOOLEAN
  BY <1>1
<1>. QED
  BY <1>1, <1>2, <1>3 DEF RunInv, TypeOK, RunState, Update, Stop

LEMMA ThrowInv == ASSUME RunInv, Throw PROVE RunInv'
<1>1. <<ErrorCode>> \in Seq({ErrorCode, SignalCode}) /\ <<ErrorCode>> # <<>>
  OBVIOUS
<1>2. signals' \in 0..MaxSignals
  BY DEF Throw, RunInv, TypeOK
<1>. QED
  BY <1>1, <1>2, StopInv DEF Throw

LEMMA SignalInv == ASSUME RunInv, Signal PROVE RunInv'
<1>1. /\ <<SignalCode>> \in Seq({ErrorCode, SignalCode}) /\ <<SignalCode>> # <<>>
      /\ <<SignalCode, ErrorCode>> \in Seq({ErrorCode, SignalCode})
      /\ <<SignalCode, ErrorCode>> # <<>>
  OBVIOUS
<1>2. signals' \in 0..MaxSignals
  BY RunAssumption DEF Signal, RunInv, TypeOK
<1>. QED
  BY <1>1, <1>2, StopInv DEF Signal

LEMMA LimitsInv == ASSUME RunInv, LimitsExceeded PROVE RunInv'
<1>1. PICK n \in 1..3 : StopDeviceApp([i \in 1..n |-> ErrorCode])
  BY DEF LimitsExceeded
<1>2. [i \in 1..n |-> ErrorCode] \in Seq({ErrorCode, SignalCode}) /\ [i \in 1..n |-> ErrorCode] # <<>>
  OBVIOUS
<1>3. signals' \in 0..MaxSignals /\ start' = start
  BY DEF LimitsExceeded, RunInv, TypeOK
<1>. QED
  BY <1>1, <1>2, <1>3, StopInv

\* The first update leaves the queue; what it says is at most what the next says.
LEMMA UpdateReturnsInv == ASSUME RunInv, UpdateReturns PROVE RunInv'
<1>. DEFINE r == Head(reports)
<1>0. reports \in Seq(Update) /\ reports # <<>> /\ reports' = Tail(reports) /\ stops \in Seq(Stop)
  BY DEF RunInv, TypeOK, UpdateReturns, Update, Stop
<1>1. /\ reports \in Seq(Update) /\ reports' = Tail(reports) /\ reports' \in Seq(Update)
      /\ r = reports[1] /\ r \in Update /\ 1 \in DOMAIN reports
  BY <1>0
<1>2. /\ \A i \in DOMAIN reports' : i + 1 \in DOMAIN reports /\ reports'[i] = reports[i + 1]
      /\ DOMAIN reports' \subseteq Nat
  BY <1>1
<1>3. reported' \in {r.state, reported} /\ UNCHANGED runState
  BY DEF UpdateReturns
<1>4. StopsInOrder'
  <2>1. ASSUME reported' \in Stopped, NEW i \in DOMAIN reports' PROVE IsStopped(i)'
    <3>1. IsStopped(1) => IsStopped(i + 1)
      BY <1>1, <1>2 DEF RunInv, StopsInOrder
    <3>2. reported \in Stopped => IsStopped(i + 1)
      BY <1>2 DEF RunInv, StopsInOrder
    <3>. QED
      BY <1>1, <1>2, <1>3, <2>1, <3>1, <3>2 DEF IsStopped
  <2>2. \A i, j \in DOMAIN reports' : IsStopped(i)' /\ i <= j => IsStopped(j)'
    BY <1>2 DEF RunInv, StopsInOrder, IsStopped
  <2>3. (reported' \in Stopped) \/ (\E i \in DOMAIN reports' : IsStopped(i)') => runState' \in Stopped
    BY <1>1, <1>2, <1>3 DEF RunInv, StopsInOrder, IsStopped
  <2>. QED
    BY <2>1, <2>2, <2>3 DEF StopsInOrder
<1>5. stops' \in Seq(Stop)
  <2>. DEFINE after(i) == IF i = r.by /\ GoesOn(r) THEN [stops[i] EXCEPT !.pc = "closing"] ELSE stops[i]
  <2>1. \A i \in DOMAIN stops : after(i) \in Stop
    <3>1. \A i \in DOMAIN stops : stops[i] \in Stop
      BY <1>0
    <3>2. \A s \in Stop : [s EXCEPT !.pc = "closing"] \in Stop
      BY DEF Stop
    <3>. QED
      BY <3>1, <3>2
  <2>2. stops' = [i \in DOMAIN stops |-> after(i)]
    BY DEF UpdateReturns
  <2>3. DOMAIN stops = 1..Len(stops) /\ Len(stops) \in Nat
    BY <1>0
  <2>. HIDE DEF after
  <2>. QED
    BY <2>1, <2>2, <2>3
<1>6. reported' \in RunState \cup {"none"}
  BY <1>1, <1>3 DEF RunInv, TypeOK, Update
<1>7. UNCHANGED <<start, made, pairVars, testVars, runState, exit, signals>>
  BY DEF UpdateReturns
<1>. QED
  BY <1>1, <1>4, <1>5, <1>6, <1>7
  DEF RunInv, TypeOK, NoAttemptYet, ListenersAreRemoved, pairVars, testVars, Update, Stop

\* An update that begins with the state of the run as it is then.
LEMMA UpdateBegins ==
  ASSUME RunInv, NEW by \in Nat, runState' \in RunState,
         reports' = Append(reports, [by |-> by, state |-> runState']),
         UNCHANGED reported, runState \in Stopped => runState' \in Stopped
  PROVE  StopsInOrder' /\ reports' \in Seq(Update)
<1>. DEFINE u == [by |-> by, state |-> runState']
<1>1. u \in Update /\ u.state = runState'
  BY DEF Update
<1>. HIDE DEF u
<1>2. reports \in Seq(Update) /\ <<u>> \in Seq(Update) /\ DOMAIN <<u>> = {1} /\ <<u>>[1] = u
  BY <1>1 DEF RunInv, TypeOK, Update
<1>3. reports' = reports \o <<u>>
  BY <1>2 DEF u
<1>. QED
  BY <1>1, <1>2, <1>3, UpdatesAdded

LEMMA SameOrder ==
  ASSUME RunInv, UNCHANGED <<reports, reported, runState>>
  PROVE  StopsInOrder'
BY DEF RunInv, StopsInOrder, IsStopped

LEMMA AskInv ==
  ASSUME RunInv, Ask, attempt # "pending", made' \in {made, "twin"}
  PROVE  RunInv'
<1>. USE DEF Ask, testVars, twinVars, stopVars
<1>1. StopsInOrder'
  BY SameOrder
<1>2. ListenersAreRemoved' /\ NoAttemptYet' /\ listeners' \in Nat
  BY DEF RunInv, ListenersAreRemoved, NoAttemptYet
<1>. QED
  BY <1>1, <1>2 DEF RunInv, TypeOK

\* The steps of startDeviceApp that may throw.
LEMMA StartInv ==
  ASSUME RunInv, CreateReturns \/ GetTwinReturns \/ AskReturns \/ StartC2dFails
  PROVE  RunInv'
<1>. USE DEF pairVars, testVars, twinVars, stopVars
<1>1. CASE Throw
  BY <1>1, ThrowInv
<1>2. ASSUME UNCHANGED <<pairVars, testVars, twinVars, stopVars, signals>>,
             made' \in {made, "client"}, NoAttemptYet', start' \in {"gettingTwin", "attempt", "accepting"}
      PROVE  RunInv'
  BY <1>2, SameOrder DEF RunInv, TypeOK, ListenersAreRemoved
<1>3. CASE CreateReturns
  BY <1>1, <1>2, <1>3 DEF CreateReturns, RunInv, NoAttemptYet
<1>4. CASE GetTwinReturns
  BY <1>1, <1>4, AskInv DEF GetTwinReturns, RunInv, NoAttemptYet
<1>5. CASE AskReturns
  BY <1>1, <1>2, <1>5, AskInv DEF AskReturns, Accept, AskAgain, NoAttemptYet
<1>. QED
  BY <1>1, <1>3, <1>4, <1>5 DEF StartC2dFails

LEMMA AttemptEndsInv ==
  ASSUME RunInv, Claim \/ AttemptTimesOut \/ UnawaitedTimesOut
  PROVE  RunInv'
<1>. USE DEF pairVars, testVars, twinVars, stopVars, CleanUp
<1>1. CASE Claim
  <2>1. StopsInOrder'
    BY <1>1, SameOrder DEF Claim
  <2>2. ListenersAreRemoved' /\ NoAttemptYet' /\ listeners' \in Nat
    BY <1>1 DEF Claim, RunInv, ListenersAreRemoved, NoAttemptYet
  <2>. QED
    BY <1>1, <2>1, <2>2 DEF Claim, RunInv, TypeOK
<1>2. CASE UnawaitedTimesOut
  <2>1. StopsInOrder'
    BY <1>2, SameOrder DEF UnawaitedTimesOut
  <2>2. ListenersAreRemoved' /\ NoAttemptYet' /\ listeners' \in Nat
    BY <1>2 DEF UnawaitedTimesOut, RunInv, ListenersAreRemoved, NoAttemptYet
  <2>3. exit' \in {NoExit, ErrorCode, SignalCode}
    BY <1>2 DEF UnawaitedTimesOut, Unhandled
  <2>. QED
    BY <1>2, <2>1, <2>2, <2>3 DEF UnawaitedTimesOut, RunInv, TypeOK
<1>3. CASE AttemptTimesOut
  <2>. USE <1>3 DEF AttemptTimesOut
  <2>1. CASE start' = "asking"
    <3>1. UNCHANGED <<pairVars, testVars, twinVars, stopVars, made, signals>>
      BY <2>1
    <3>. QED
      BY <2>1, <3>1, SameOrder DEF RunInv, TypeOK, ListenersAreRemoved, NoAttemptYet
  <2>2. CASE start' = "caught"
    <3>1. /\ attempt' = "timedOut" /\ listeners' = listeners - 1 /\ attempt = "pending"
          /\ runState' = StateOf(ErrorCode)
          /\ stops' = Append(stops, [code |-> ErrorCode, pc |-> "reporting"])
          /\ reports' = Append(reports, [by |-> Len(stops'), state |-> runState'])
          /\ UNCHANGED <<test, metrics, reported, exit, made, signals>>
      BY <2>2
    <3>2. stops' \in Seq(Stop) /\ Len(stops') \in Nat
      <4>1. stops \in Seq(Stop) /\ [code |-> ErrorCode, pc |-> "reporting"] \in Stop
        BY DEF RunInv, TypeOK, Stop
      <4>. QED
        BY <3>1, <4>1
    <3>3. runState' \in Stopped /\ runState' \in RunState
      BY <3>1 DEF StateOf, Stopped, RunState
    <3>4. StopsInOrder' /\ reports' \in Seq(Update)
      BY <3>1, <3>2, <3>3, UpdateBegins
    <3>. QED
      BY <2>2, <3>1, <3>2, <3>3, <3>4
      DEF RunInv, TypeOK, ListenersAreRemoved, NoAttemptYet, Update, Stop
  <2>. QED
    BY <2>1, <2>2
<1>. QED
  BY <1>1, <1>2, <1>3

LEMMA TestsInv ==
  ASSUME RunInv, AcceptReturns \/ TestReports \/ TestEnds
  PROVE  RunInv'
<1>. USE DEF pairVars, testVars, twinVars, stopVars
<1>1. ASSUME TestReport, metrics' \in BOOLEAN, start' \in {start, "testing"} PROVE RunInv'
  <2>1. /\ runState' = runState /\ runState' \in RunState
        /\ reports' = Append(reports, [by |-> 0, state |-> runState'])
        /\ UNCHANGED <<made, attempt, listeners, reported, stops, exit, signals>>
    BY <1>1 DEF TestReport, StateNow, RunInv, TypeOK
  <2>2. StopsInOrder' /\ reports' \in Seq(Update)
    BY <2>1, UpdateBegins
  <2>. QED
    BY <1>1, <2>1, <2>2
    DEF RunInv, TypeOK, ListenersAreRemoved, NoAttemptYet, Update, TestReport
<1>2. CASE AcceptReturns
  BY <1>1, <1>2, ThrowInv DEF AcceptReturns
<1>3. CASE TestReports
  BY <1>1, <1>3 DEF TestReports, RunInv, TypeOK
<1>4. CASE TestEnds
  BY <1>4, SameOrder DEF TestEnds, RunInv, TypeOK, ListenersAreRemoved, NoAttemptYet
<1>. QED
  BY <1>2, <1>3, <1>4

LEMMA ClosedInv == ASSUME RunInv, NEW i \in DOMAIN stops, Closed(i) PROVE RunInv'
<1>. USE DEF Closed, pairVars, testVars, twinVars
<1>1. stops[i].code \in {ErrorCode, SignalCode}
  <2>1. stops \in Seq(Stop)
    BY DEF RunInv, TypeOK, Stop
  <2>2. stops[i] \in Stop
    BY <2>1
  <2>. QED
    BY <2>2 DEF Stop
<1>. QED
  BY <1>1, SameOrder DEF RunInv, TypeOK, ListenersAreRemoved, NoAttemptYet

LEMMA RunInitInv == Init => RunInv
<1>. SUFFICES ASSUME Init PROVE RunInv
  OBVIOUS
<1>. USE DEF Init
<1>1. metrics \in BOOLEAN
  OBVIOUS
<1>2. NoAttemptYet /\ ListenersAreRemoved
  BY DEF NoAttemptYet, ListenersAreRemoved
<1>3. StopsInOrder
  BY DEF StopsInOrder, Stopped
<1>4. /\ reports \in Seq([by : Nat, state : RunState])
      /\ stops \in Seq([code : {ErrorCode, SignalCode}, pc : {"reporting", "closing"}])
  OBVIOUS
<1>. QED
  BY <1>1, <1>2, <1>3, <1>4, RunAssumption DEF RunInv, TypeOK, NoExit, RunState, Stopped

LEMMA RunStepInv == RunInv /\ [Next]_vars => RunInv'
<1>. SUFFICES ASSUME RunInv, [Next]_vars PROVE RunInv'
  OBVIOUS
<1>1. CASE UNCHANGED vars
  BY <1>1, SameOrder
  DEF vars, pairVars, testVars, twinVars, stopVars, RunInv, TypeOK, ListenersAreRemoved, NoAttemptYet
<1>. QED
  BY <1>1, SignalInv, LimitsInv, UpdateReturnsInv, StartInv, AttemptEndsInv, TestsInv, ClosedInv
  DEF Next

LEMMA RunInvariance == Spec => []RunInv
BY RunInitInv, RunStepInv, PTL DEF Spec

\* A step that takes the first update to the twin takes the state it says.
LEMMA StoppedStep ==
  RunInv /\ [Next]_vars => ((reported \in Stopped) => (reported' # "Running"))
<1>. SUFFICES ASSUME RunInv, [Next]_vars, reported \in Stopped PROVE reported' # "Running"
  OBVIOUS
<1>1. reported # "Running"
  BY DEF Stopped
<1>2. CASE UpdateReturns
  <2>1. reports \in Seq(Update) /\ reports # <<>>
    BY <1>2 DEF RunInv, TypeOK, Update, UpdateReturns
  <2>2. Head(reports) = reports[1] /\ 1 \in DOMAIN reports
    BY <2>1
  <2>3. Head(reports).state \in Stopped
    BY <2>2 DEF RunInv, StopsInOrder, IsStopped
  <2>. QED
    BY <1>1, <1>2, <2>3 DEF UpdateReturns, Stopped
<1>3. CASE ~UpdateReturns
  <2>1. UNCHANGED reported
    BY <1>3
    DEF Next, vars, twinVars, Signal, LimitsExceeded, Closed, CreateReturns, GetTwinReturns,
        AskReturns, AskAgain, Accept, Ask, Claim, AttemptTimesOut, UnawaitedTimesOut,
        AcceptReturns, StartC2dFails, TestReports, TestReport, TestEnds, Throw, StopDeviceApp
  <2>. QED
    BY <1>1, <2>1
<1>. QED
  BY <1>2, <1>3

\* A step of the app is one of the run, or leaves the run alone.
LEMMA AppImplementsRun == AppSpec => Spec
<1>1. AppInit => Init
  BY DEF AppInit
<1>2. [AppNext]_appVars => [Next]_vars
  BY DEF AppNext, RunStep, SenderStep, ListenerStep, appVars
<1>. QED
  BY <1>1, <1>2, PTL DEF AppSpec, Spec

\* The type invariant of a run.
THEOREM RunTypeCorrect == Spec => []TypeOK
<1>1. RunInv => TypeOK
  BY DEF RunInv
<1>. QED
  BY RunInvariance, <1>1, PTL

\* Pairing leaves no listener behind, for any number of attempts and whatever
\* ends each of them, in a run by itself and in the app.
THEOREM NoListenerIsLeft ==
  /\ Spec => []ListenersAreRemoved
  /\ AppSpec => []ListenersAreRemoved
<1>1. RunInv => ListenersAreRemoved
  BY DEF RunInv
<1>. QED
  BY RunInvariance, AppImplementsRun, <1>1, PTL

\* Once the twin says that the run has stopped it never says Running again, for
\* any number of signals, exceeded limits and test updates under way.
THEOREM StoppedStaysStopped ==
  /\ Spec => StoppedIsNotRunning
  /\ AppSpec => StoppedIsNotRunning
<1>1. RunInv /\ [Next]_vars => [(reported \in Stopped) => (reported' # "Running")]_vars
  BY StoppedStep
<1>2. Spec => StoppedIsNotRunning
  BY RunInvariance, <1>1, PTL DEF Spec, StoppedIsNotRunning
<1>. QED
  BY AppImplementsRun, <1>2, PTL
=============================================================================
