------------------------------ MODULE DeviceProofs ------------------------------
(***************************************************************************)
(* Proofs about the Python device app: the run of DeviceRun, the desired-  *)
(* property test of DesiredProperties, and the floods of MessageFlood with *)
(* the reporter of MetricsReporter.  Each has an inductive invariant of    *)
(* its own, named before its proof.                                        *)
(***************************************************************************)
EXTENDS DeviceRun, DesiredProperties, MessageFlood, FiniteSetTheorems,
        NaturalsInduction, TLAPS

-----------------------------------------------------------------------------
(***************************************************************************)
(* DesiredProperties, for any number of tests.  The inductive invariant is *)
(* the type invariant with HolderIsRunning: that the one test which runs   *)
(* is the one that holds the semaphore is what makes it the only reader of *)
(* the queue.                                                              *)
(***************************************************************************)

DesiredInv == DesiredTypeOK /\ HolderIsRunning

LEMMA NoneIsNoTest == None \notin Test
BY DEF None, Test

\* A test that waits is the only one that does, when HolderIsRunning holds.
LEMMA OneWaits ==
  ASSUME HolderIsRunning, NEW t \in Test, NEW u \in Test,
         pc[t] \in Running, pc[u] \in Running
  PROVE  t = u
BY DEF HolderIsRunning

\* The head of a non-empty queue and its tail hold all that is in it.
LEMMA HeadOrTail ==
  ASSUME NEW s \in Seq(Test), s # <<>>, NEW t \in Test, InSeq(t, s)
  PROVE  t = Head(s) \/ InSeq(t, Tail(s))
<1>1. PICK i \in 1..Len(s) : s[i] = t
  BY DEF InSeq
<1>2. CASE i = 1
  BY <1>1, <1>2
<1>3. CASE i > 1
  <2>1. Len(Tail(s)) = Len(s) - 1 /\ i - 1 \in 1..Len(Tail(s))
    BY <1>3
  <2>2. Tail(s)[i - 1] = t
    BY <1>1, <1>3, <2>1
  <2>. QED
    BY <2>1, <2>2 DEF InSeq
<1>. QED
  BY <1>2, <1>3

\* What is in a queue is in it when one more is put at its end.
LEMMA InAppend ==
  ASSUME NEW s \in Seq(Test), NEW u \in Test, NEW t \in Test, InSeq(t, s)
  PROVE  InSeq(t, Append(s, u))
<1>1. PICK i \in 1..Len(s) : s[i] = t
  BY DEF InSeq
<1>2. i \in 1..Len(Append(s, u)) /\ Append(s, u)[i] = t
  BY <1>1
<1>. QED
  BY <1>2 DEF InSeq

LEMMA DesiredInitInv == DesiredInit => DesiredInv
BY TestsAssumption DEF DesiredInit, DesiredInv, DesiredTypeOK, HolderIsRunning, Test, None, Running, Waiting, Ended

LEMMA DesiredNextType == DesiredInv /\ [DesiredNext]_desiredVars => DesiredTypeOK'
<1>. SUFFICES ASSUME DesiredTypeOK, [DesiredNext]_desiredVars PROVE DesiredTypeOK'
  BY DEF DesiredInv
<1>. USE DEF Running, Waiting, Ended
<1>1. ASSUME NEW t \in Test, Start(t) PROVE DesiredTypeOK'
  BY <1>1 DEF DesiredTypeOK, Start, Go, hub, counters
<1>2. ASSUME NEW t \in Test, SendCommand(t) PROVE DesiredTypeOK'
  BY <1>2 DEF DesiredTypeOK, SendCommand, Raise, Go, counters
<1>3. ASSUME NEW t \in Test, Check(t) PROVE DesiredTypeOK'
  BY <1>3 DEF DesiredTypeOK, Check, Go, hub
<1>4. ASSUME NEW t \in Test, Take(t) PROVE DesiredTypeOK'
  BY <1>4 DEF DesiredTypeOK, Take, AfterOwn, AfterOther, hub
<1>5. ASSUME NEW t \in Test, Empty(t) PROVE DesiredTypeOK'
  BY <1>5 DEF DesiredTypeOK, Empty, Go, hub
<1>6. ASSUME NEW t \in Test, GetTwin(t) PROVE DesiredTypeOK'
  BY <1>6 DEF DesiredTypeOK, GetTwin, Raise, Go, hub
<1>7. ASSUME NEW t \in Test, PassEndTime(t) PROVE DesiredTypeOK'
  BY <1>7 DEF DesiredTypeOK, PassEndTime, hub, counters
<1>8. ASSUME NEW t \in Test, UpdateTwin(t) PROVE DesiredTypeOK'
  BY <1>8 DEF DesiredTypeOK, UpdateTwin, counters
<1>9. ASSUME PatchReceived PROVE DesiredTypeOK'
  BY <1>9 DEF DesiredTypeOK, PatchReceived, counters
<1>10. ASSUME UNCHANGED desiredVars PROVE DesiredTypeOK'
  BY <1>10 DEF DesiredTypeOK, desiredVars, hub, counters
<1>. QED
  BY <1>1, <1>2, <1>3, <1>4, <1>5, <1>6, <1>7, <1>8, <1>9, <1>10 DEF DesiredNext, Step

LEMMA DesiredNextHolder == DesiredInv /\ [DesiredNext]_desiredVars => HolderIsRunning'
<1>. SUFFICES ASSUME DesiredTypeOK, HolderIsRunning, [DesiredNext]_desiredVars PROVE HolderIsRunning'
  BY DEF DesiredInv
<1>. USE NoneIsNoTest DEF Running, Waiting
<1>1. ASSUME NEW t \in Test, Start(t) PROVE HolderIsRunning'
  BY <1>1 DEF DesiredTypeOK, HolderIsRunning, Start, Go
<1>2. ASSUME NEW t \in Test, SendCommand(t) PROVE HolderIsRunning'
  BY <1>2 DEF DesiredTypeOK, HolderIsRunning, SendCommand, Raise, Go
<1>3. ASSUME NEW t \in Test, Check(t) PROVE HolderIsRunning'
  BY <1>3 DEF DesiredTypeOK, HolderIsRunning, Check, Go
<1>4. ASSUME NEW t \in Test, Take(t) PROVE HolderIsRunning'
  BY <1>4 DEF DesiredTypeOK, HolderIsRunning, Take, AfterOwn, AfterOther
<1>5. ASSUME NEW t \in Test, Empty(t) PROVE HolderIsRunning'
  BY <1>5 DEF DesiredTypeOK, HolderIsRunning, Empty, Go
<1>6. ASSUME NEW t \in Test, GetTwin(t) PROVE HolderIsRunning'
  BY <1>6 DEF DesiredTypeOK, HolderIsRunning, GetTwin, Raise, Go
<1>7. CASE UNCHANGED <<pc, alreadyRunning>>
  BY <1>7 DEF HolderIsRunning
<1>. QED
  BY <1>1, <1>2, <1>3, <1>4, <1>5, <1>6, <1>7
  DEF DesiredNext, Step, PassEndTime, UpdateTwin, PatchReceived, desiredVars

\* The type invariant.
THEOREM DesiredTypeCorrect == DesiredSpec => []DesiredTypeOK
<1>1. DesiredInv /\ [DesiredNext]_desiredVars => DesiredInv'
  BY DesiredNextType, DesiredNextHolder DEF DesiredInv
<1>2. DesiredInv => DesiredTypeOK
  BY DEF DesiredInv
<1>. QED
  BY DesiredInitInv, <1>1, <1>2, PTL DEF DesiredSpec

\* At most one test runs, and the semaphore is free when none does: no path out
\* of a test keeps it.
THEOREM SemaphoreIsHeldByTheRunningTest == DesiredSpec => []HolderIsRunning
<1>1. DesiredInv /\ [DesiredNext]_desiredVars => DesiredInv'
  BY DesiredNextType, DesiredNextHolder DEF DesiredInv
<1>2. DesiredInv => HolderIsRunning
  BY DEF DesiredInv
<1>. QED
  BY DesiredInitInv, <1>1, <1>2, PTL DEF DesiredSpec

\* A test that waits in time does not lose its patch once it is in the queue.
THEOREM NoPatchIsLostToItsTest == DesiredSpec => PatchReachesItsTest
<1>. DEFINE Kept(t) == \/ InSeq(t, queue') /\ pc'[t] \in Waiting
                       \/ received' = received + 1
<1>1. ASSUME DesiredInv, [DesiredNext]_desiredVars, NEW t \in Test, InSeq(t, queue), pc[t] \in Waiting,
             t \notin late
      PROVE  Kept(t)
  <2>. pc[t] \in Running /\ queue \in Seq(Test) /\ queue # <<>>
    BY <1>1 DEF DesiredInv, DesiredTypeOK, Running, InSeq
  <2>1. ASSUME NEW u \in Test, Start(u) PROVE Kept(t)
    BY <1>1, <2>1 DEF DesiredInv, DesiredTypeOK, Start, Go, Waiting
  <2>2. ASSUME NEW u \in Test, SendCommand(u) PROVE Kept(t)
    BY <1>1, <2>2 DEF DesiredInv, DesiredTypeOK, SendCommand, Raise, Go, Waiting
  <2>3. ASSUME NEW u \in Test, Check(u) PROVE Kept(t)
    BY <1>1, <2>3 DEF DesiredInv, DesiredTypeOK, Check, Go, Waiting, hub
  <2>4. ASSUME NEW u \in Test, Take(u) PROVE Kept(t)
    <3>1. u = t
      BY <1>1, <2>4, OneWaits DEF DesiredInv, Take, AfterOwn, AfterOther, Running, Waiting
    <3>2. CASE Head(queue) = t
      BY <2>4, <3>1, <3>2 DEF Take, AfterOwn, AfterOther
    <3>3. CASE Head(queue) # t
      <4>1. InSeq(t, queue')
        BY <1>1, <2>4, <3>3, HeadOrTail DEF Take, AfterOwn, AfterOther
      <4>. QED
        BY <1>1, <2>4, <3>1, <3>3, <4>1 DEF DesiredInv, DesiredTypeOK, Take, AfterOwn, AfterOther, Waiting
    <3>. QED
      BY <3>2, <3>3
  <2>5. ASSUME NEW u \in Test, Empty(u) PROVE Kept(t)
    BY <1>1, <2>5 DEF Empty
  <2>6. ASSUME NEW u \in Test, GetTwin(u) PROVE Kept(t)
    BY <1>1, <2>6 DEF DesiredInv, DesiredTypeOK, GetTwin, Raise, Go, Waiting, hub
  <2>7. ASSUME PatchReceived PROVE Kept(t)
    <3>1. queue' = Append(queue, Head(patches)) /\ Head(patches) \in Test
      BY <1>1, <2>7 DEF DesiredInv, DesiredTypeOK, PatchReceived
    <3>. QED
      BY <1>1, <2>7, <3>1, InAppend DEF PatchReceived
  <2>8. CASE UNCHANGED <<pc, queue>>
    BY <1>1, <2>8
  <2>. QED
    BY <1>1, <2>1, <2>2, <2>3, <2>4, <2>5, <2>6, <2>7, <2>8
    DEF DesiredNext, Step, PassEndTime, UpdateTwin, desiredVars
<1>2. DesiredInv /\ [DesiredNext]_desiredVars =>
        [\A t \in Test :
           (InSeq(t, queue) /\ pc[t] \in Waiting /\ t \notin late)
             => ((InSeq(t, queue') /\ pc'[t] \in Waiting) \/ received' = received + 1)]_desiredVars
  BY <1>1
<1>3. DesiredInv /\ [DesiredNext]_desiredVars => DesiredInv'
  BY DesiredNextType, DesiredNextHolder DEF DesiredInv
<1>. QED
  BY DesiredInitInv, <1>2, <1>3, PTL DEF DesiredSpec, PatchReachesItsTest

-----------------------------------------------------------------------------
(***************************************************************************)
(* DeviceRun, for any number of threads, exceptions and timeouts and any   *)
(* limits on them.  main() decides on the run state once, when it leaves   *)
(* its try: what the tests read before is that the run goes on.  Between   *)
(* the moment the loop is told of a fatal exception and that decision only *)
(* the local variable fatal_error remembers it.                            *)
(***************************************************************************)

RunningUntilLeft == mainPc \in StartUp \cup InTry => runState = "Running"

CondemnedRemembered ==
  condemned => \/ runState \in {"Failed", "Interrupted"}
               \/ fatal /\ mainPc \in {"failIn", "add"}

CountsAgree ==
  /\ mainPc \in StartUp => exceptions = handled + collected
  /\ ExceptionsCountedOnce

TwinFollows ==
  /\ mainPc \in {"pair", "threads"} => twinState = "Running"
  /\ mainPc \in StartUp => \A t \in Tester : report[t] = "none"

DeviceInv ==
  /\ TypeOK /\ RunningUntilLeft /\ CondemnedRemembered /\ CountsAgree
  /\ TwinFollows /\ OnlyRunningIsStale

LEMMA DeviceInitInv == Init => DeviceInv
<1>. SUFFICES ASSUME Init PROVE DeviceInv
  OBVIOUS
<1>. USE DEF Init, NoException, StartUp, InTry, Ending
<1>1. expired \in BOOLEAN /\ overdue \in BOOLEAN /\ fatal \in BOOLEAN /\ condemned \in BOOLEAN
  OBVIOUS
<1>2. uncollected \in [out : Nat, in : Nat, fatal : BOOLEAN, critical : BOOLEAN]
  OBVIOUS
<1>3. report \in [Tester -> RunState \cup {"none"}]
  OBVIOUS
<1>4. TypeOK
  BY <1>1, <1>2, <1>3 DEF TypeOK, RunState
<1>5. RunningUntilLeft /\ CondemnedRemembered /\ TwinFollows
  BY DEF RunningUntilLeft, CondemnedRemembered, TwinFollows
<1>6. CountsAgree
  BY DEF CountsAgree, ExceptionsCountedOnce
<1>. QED
  BY <1>4, <1>5, <1>6 DEF DeviceInv, OnlyRunningIsStale

\* What an action of main() leaves alone, when it only goes on.
QuietMain ==
  \/ Connect \/ ClearTwin \/ PushInitial \/ Pair \/ StartThreads
  \/ LoopTest \/ Wake \/ CheckWatchdogs \/ Join \/ FinalPatch \/ Disconnect \/ Fails \/ Interrupt

Collecting ==
  CheckFailureCounts \/ CollectOutgoing \/ CollectIncoming \/ AddFailures \/ CollectAsserts

Others ==
  \/ Expire \/ HandlerRaises
  \/ \E executor \in {"out", "in"} : ThreadRaises(executor)
  \/ MismatchRaises \/ CriticalRaises \/ CriticalHangs
  \/ OperationTimesOut \/ MethodTimesOut
  \/ \E t \in Tester : TestReads(t) \/ TestPatches(t)

LEMMA NextSplit == Next => QuietMain \/ Collecting \/ Others
BY DEF Next, Main, QuietMain, Collecting, Others

LEMMA QuietMainInv == ASSUME DeviceInv, QuietMain PROVE DeviceInv'
<1>. USE DEF QuietMain, Connect, ClearTwin, PushInitial, Pair, StartThreads, LoopTest, Wake,
             CheckWatchdogs, Join, FinalPatch, Disconnect, Fails, Interrupt, Patch, Proceed, Goto,
             Leave, Caught, StartUp, InTry, Ending
<1>1. UNCHANGED <<report, countVars, threadVars>>
  BY DEF twinVars
<1>2. /\ mainPc' \in StartUp \cup InTry \cup Ending \cup {"exited"}
      /\ runState' \in RunState /\ twinState' \in RunState \cup {"none"}
  BY DEF DeviceInv, TypeOK, RunState, runVars, twinVars
<1>3. expired' \in BOOLEAN
  BY DEF DeviceInv, TypeOK, runVars
<1>4. TypeOK'
  BY <1>1, <1>2, <1>3 DEF DeviceInv, TypeOK, countVars, excVars, timeoutVars, roundVars, threadVars
<1>5. RunningUntilLeft'
  BY DEF DeviceInv, RunningUntilLeft, runVars
<1>6. CondemnedRemembered'
  BY <1>1 DEF DeviceInv, CondemnedRemembered, RunningUntilLeft, runVars, countVars, roundVars
<1>7. CountsAgree'
  BY <1>1 DEF DeviceInv, CountsAgree, ExceptionsCountedOnce, countVars, excVars, roundVars
<1>8. TwinFollows' /\ OnlyRunningIsStale'
  BY <1>1 DEF DeviceInv, TypeOK, TwinFollows, OnlyRunningIsStale, RunningUntilLeft, runVars, twinVars
<1>. QED
  BY <1>4, <1>5, <1>6, <1>7, <1>8 DEF DeviceInv

\* A round of the loop: it counts what the executors have for it, and a fatal or
\* critical exception among that leaves the try before the next round.
LEMMA CollectingInv == ASSUME DeviceInv, Collecting PROVE DeviceInv'
<1>. USE DEF Proceed, Goto, Leave, runVars
<1>1. /\ UNCHANGED <<twinVars, timeoutVars, handled, overdue>>
      /\ mainPc' \in InTry \cup {"join"} /\ mainPc \in InTry
      /\ runState' = (IF mainPc' = "join" THEN "Failed" ELSE runState)
      /\ UNCHANGED expired
  BY DEF Collecting, CheckFailureCounts, CollectOutgoing, CollectIncoming, AddFailures,
         CollectAsserts, countVars, excVars, roundVars, threadVars, InTry
<1>2. runState = "Running"
  BY <1>1 DEF DeviceInv, RunningUntilLeft
<1>3. RunningUntilLeft'
  BY <1>1, <1>2 DEF RunningUntilLeft, StartUp, InTry
<1>4. TwinFollows' /\ OnlyRunningIsStale'
  BY <1>1, <1>2 DEF DeviceInv, TypeOK, TwinFollows, OnlyRunningIsStale, StartUp, InTry, twinVars
<1>5. uncollected' \in [out : Nat, in : Nat, fatal : BOOLEAN, critical : BOOLEAN]
  <2>1. \A n \in Nat : [NoException EXCEPT !.in = n] \in [out : Nat, in : Nat, fatal : BOOLEAN, critical : BOOLEAN]
    BY DEF NoException
  <2>2. uncollected.in \in Nat
    BY DEF DeviceInv, TypeOK
  <2>3. [uncollected EXCEPT !.in = 0] \in [out : Nat, in : Nat, fatal : BOOLEAN, critical : BOOLEAN]
    BY DEF DeviceInv, TypeOK
  <2>4. uncollected' \in {uncollected, [NoException EXCEPT !.in = uncollected.in],
                         [uncollected EXCEPT !.in = 0]}
    BY DEF Collecting, CheckFailureCounts, CollectOutgoing, CollectIncoming, AddFailures,
           CollectAsserts, threadVars
  <2>. QED
    BY <2>1, <2>2, <2>3, <2>4 DEF DeviceInv, TypeOK
<1>6. fatal' \in BOOLEAN /\ condemned' \in BOOLEAN
  BY DEF DeviceInv, TypeOK, Collecting, CheckFailureCounts, CollectOutgoing, CollectIncoming,
         AddFailures, CollectAsserts, countVars, roundVars, StillFatal
<1>7. exceptions' \in Nat /\ nonFatal' \in Nat /\ collected' \in Nat
  BY DEF DeviceInv, TypeOK, Collecting, CheckFailureCounts, CollectOutgoing, CollectIncoming,
         AddFailures, CollectAsserts, countVars, excVars, roundVars, NewRound
<1>8. TypeOK'
  BY <1>1, <1>2, <1>5, <1>6, <1>7 DEF DeviceInv, TypeOK, RunState, InTry, Ending, twinVars, timeoutVars
<1>9. CondemnedRemembered'
  BY <1>2 DEF DeviceInv, TypeOK, CondemnedRemembered, Collecting, CheckFailureCounts, CollectOutgoing,
         CollectIncoming, AddFailures, CollectAsserts, countVars, roundVars, StillFatal
<1>10. CountsAgree'
  BY <1>1, <1>7 DEF DeviceInv, TypeOK, CountsAgree, ExceptionsCountedOnce, Collecting, CheckFailureCounts,
         CollectOutgoing, CollectIncoming, AddFailures, CollectAsserts, countVars, excVars,
         roundVars, NewRound, StartUp, InTry
<1>. QED
  BY <1>3, <1>4, <1>8, <1>9, <1>10 DEF DeviceInv

\* The clock, the handlers and the tests, at any moment of the run.
LEMMA OthersInv == ASSUME DeviceInv, Others PROVE DeviceInv'
<1>1. CASE Expire
  BY <1>1 DEF DeviceInv, TypeOK, RunningUntilLeft, CondemnedRemembered, CountsAgree, TwinFollows,
     OnlyRunningIsStale, ExceptionsCountedOnce, Expire, twinVars, countVars, excVars, timeoutVars,
     roundVars, threadVars
<1>2. CASE HandlerRaises
  <2>1. TypeOK'
    BY <1>2 DEF DeviceInv, TypeOK, HandlerRaises, runVars, twinVars, timeoutVars, roundVars, threadVars
  <2>. QED
    BY <1>2, <2>1 DEF DeviceInv, TypeOK, RunningUntilLeft, CondemnedRemembered, CountsAgree, TwinFollows,
       OnlyRunningIsStale, ExceptionsCountedOnce, HandlerRaises, runVars, twinVars, roundVars
<1>3. ASSUME UNCHANGED <<mainPc, runVars, twinVars, countVars>>,
             uncollected' \in [out : Nat, in : Nat, fatal : BOOLEAN, critical : BOOLEAN],
             overdue' \in BOOLEAN
      PROVE  DeviceInv'
  BY <1>3 DEF DeviceInv, TypeOK, RunningUntilLeft, CondemnedRemembered, CountsAgree, TwinFollows,
     OnlyRunningIsStale, ExceptionsCountedOnce, runVars, twinVars, countVars, excVars, timeoutVars,
     roundVars
<1>4. ASSUME NEW executor \in {"out", "in"}, ThreadRaises(executor) PROVE DeviceInv'
  <2>1. uncollected' \in [out : Nat, in : Nat, fatal : BOOLEAN, critical : BOOLEAN]
    BY <1>4 DEF ThreadRaises, DeviceInv, TypeOK
  <2>. QED
    BY <1>3, <1>4, <2>1 DEF ThreadRaises, DeviceInv, TypeOK
<1>5. CASE MismatchRaises \/ CriticalRaises \/ CriticalHangs
  <2>1. uncollected' \in [out : Nat, in : Nat, fatal : BOOLEAN, critical : BOOLEAN]
    BY <1>5 DEF MismatchRaises, CriticalRaises, CriticalHangs, DeviceInv, TypeOK
  <2>2. overdue' \in BOOLEAN
    BY <1>5 DEF MismatchRaises, CriticalRaises, CriticalHangs, DeviceInv, TypeOK
  <2>. QED
    BY <1>3, <1>5, <2>1, <2>2 DEF MismatchRaises, CriticalRaises, CriticalHangs
<1>6. CASE OperationTimesOut \/ MethodTimesOut
  <2>1. UNCHANGED <<mainPc, runVars, twinVars, excVars, roundVars, threadVars>>
        /\ timeouts' \in Nat /\ unanswered' \in Nat
    BY <1>6 DEF OperationTimesOut, MethodTimesOut, TimesOut, DeviceInv, TypeOK
  <2>. QED
    BY <2>1 DEF DeviceInv, TypeOK, RunningUntilLeft, CondemnedRemembered, CountsAgree, TwinFollows,
       OnlyRunningIsStale, ExceptionsCountedOnce, runVars, twinVars, excVars, roundVars, threadVars
<1>7. ASSUME NEW t \in Tester, TestReads(t) \/ TestPatches(t) PROVE DeviceInv'
  <2>1. /\ UNCHANGED <<mainPc, runVars, countVars, threadVars>>
        /\ report' \in [Tester -> RunState \cup {"none"}]
        /\ twinState' \in RunState \cup {"none"}
    BY <1>7 DEF TestReads, TestPatches, DeviceInv, TypeOK
  <2>2. TypeOK' /\ RunningUntilLeft' /\ CondemnedRemembered' /\ CountsAgree'
    BY <2>1 DEF DeviceInv, TypeOK, RunningUntilLeft, CondemnedRemembered, CountsAgree,
       ExceptionsCountedOnce, runVars, countVars, excVars, timeoutVars, roundVars, threadVars
  <2>3. mainPc \notin StartUp
    BY <1>7 DEF TestReads, TestPatches, Started, DeviceInv, TwinFollows, StartUp, InTry, Ending
  <2>4. TwinFollows' /\ OnlyRunningIsStale'
    BY <1>7, <2>1, <2>3 DEF TestReads, TestPatches, DeviceInv, TypeOK, TwinFollows,
       OnlyRunningIsStale, StartUp, runVars, RunState
  <2>. QED
    BY <2>2, <2>4 DEF DeviceInv
<1>. QED
  BY <1>1, <1>2, <1>4, <1>5, <1>6, <1>7 DEF Others

LEMMA DeviceStepInv == DeviceInv /\ [Next]_vars => DeviceInv'
<1>. SUFFICES ASSUME DeviceInv, [Next]_vars PROVE DeviceInv'
  OBVIOUS
<1>1. CASE UNCHANGED vars
  BY <1>1 DEF vars, runVars, twinVars, countVars, excVars, timeoutVars, roundVars, threadVars,
     DeviceInv, TypeOK, RunningUntilLeft, CondemnedRemembered, CountsAgree, TwinFollows,
     OnlyRunningIsStale, ExceptionsCountedOnce
<1>. QED
  BY <1>1, NextSplit, QuietMainInv, CollectingInv, OthersInv

LEMMA DeviceInvariance == Spec => []DeviceInv
BY DeviceInitInv, DeviceStepInv, PTL DEF Spec

\* The type invariant of the run.
THEOREM DeviceTypeCorrect == Spec => []TypeOK
<1>1. DeviceInv => TypeOK
  BY DEF DeviceInv
<1>. QED
  BY DeviceInvariance, <1>1, PTL

\* A run that was told of a fatal or critical exception does not end as Complete,
\* for any number of threads that raise and at whatever point of the loop.
THEOREM CondemnedFails == Spec => []CondemnedNeverCompletes
<1>1. DeviceInv => CondemnedNeverCompletes
  BY DEF DeviceInv, CondemnedRemembered, CondemnedNeverCompletes, RunningUntilLeft, StartUp, InTry
<1>. QED
  BY DeviceInvariance, <1>1, PTL

\* exception_count holds each exception once, for any number of handlers and
\* threads that raise.
THEOREM ExceptionsAreCountedOnce == Spec => []ExceptionsCountedOnce
<1>1. DeviceInv => ExceptionsCountedOnce
  BY DEF DeviceInv, CountsAgree
<1>. QED
  BY DeviceInvariance, <1>1, PTL

\* Of the run states that a test has read, only "Running" can be out of date.
THEOREM NothingElseIsStale == Spec => []OnlyRunningIsStale
<1>1. DeviceInv => OnlyRunningIsStale
  BY DEF DeviceInv
<1>. QED
  BY DeviceInvariance, <1>1, PTL

\* main() decides on the run state once: what its except clauses and the ends of
\* its loop set is not set again (device.py:1079-1114).  The end of the loop and
\* what it sets are one step, with no control-C between them.
THEOREM RunStateIsDecidedOnce == Spec => [][runState = "Running"]_runState
<1>1. DeviceInv /\ [Next]_vars => [runState = "Running"]_runState
  <2>. SUFFICES ASSUME DeviceInv, [Next]_vars, runState' # runState PROVE runState = "Running"
    OBVIOUS
  <2>1. mainPc \in InTry
    BY DEF Next, Main, vars, runVars, Connect, ClearTwin, PushInitial, Pair, StartThreads, LoopTest,
       Wake, CheckWatchdogs, CheckFailureCounts, CollectOutgoing, CollectIncoming, CollectAsserts,
       AddFailures, Join, FinalPatch, Disconnect, Fails, Interrupt, Patch, Proceed, Goto, Leave,
       Caught, Expire, HandlerRaises, ThreadRaises, MismatchRaises, CriticalRaises, CriticalHangs,
       OperationTimesOut, MethodTimesOut, TimesOut, TestReads, TestPatches, InTry
  <2>. QED
    BY <2>1 DEF DeviceInv, RunningUntilLeft
<1>. QED
  BY DeviceInvariance, <1>1, PTL DEF Spec

-----------------------------------------------------------------------------
(***************************************************************************)
(* MessageFlood and MetricsReporter, for any number of floods, messages,   *)
(* threads and reports.  What a flood counts as verified are the tickets   *)
(* that its scan leaves out, never what the events say when it counts:     *)
(* the messages that no flood has counted are those in its lists.          *)
(***************************************************************************)

\* The messages of a flood that has made them are numbered from 1 to its size,
\* and its lists are parts of the list of those that are not counted.  None is left
\* to submit when it scans.
LocalOK(f, v) ==
  /\ v.allOps \subseteq {f} \X (1..v.size) /\ v.size <= MaxOps[f]
  /\ v.pc \in {"new", "making"} => v.size = 0
  /\ v.pc # "submitting" => v.toSubmit = {}
  /\ v.remaining \subseteq v.allOps /\ v.toScan \subseteq v.allOps /\ v.toSubmit \subseteq v.allOps

LocalsAgree == \A f \in Flood : LocalOK(f, flood[f])

\* Who holds reporter_lock is between the halves of its report, and the first half
\* is in the map.
LockAgrees ==
  \A r \in Reporter : /\ step[r] = "locked" <=> holder = r
                      /\ step[r] = "locked" => health = r

ReporterInv ==
  /\ step \in [Reporter -> {"complete", "locked", "recorded"}]
  /\ {holder, health, test} \subseteq Reporter \cup {"none"}
  /\ LockAgrees /\ RecordsOneReport

FloodInv == FloodTypeOK /\ LocalsAgree /\ EachMessageCountedOnce /\ ReporterInv

\* The first message of a list is one of it.
LEMMA FirstIsOne ==
  ASSUME NEW ops, ops # {}, NEW f, ops \subseteq {f} \X Nat
  PROVE  First(ops) \in ops
<1>. DEFINE numbers == {o[2] : o \in ops}
<1>1. numbers \subseteq Nat /\ numbers # {}
  OBVIOUS
<1>2. PICK n \in numbers : \A m \in numbers : ~ (<<m, n>> \in OpToRel(<, Nat))
  BY <1>1, NatLessThanWellFounded, WFMin
<1>3. \A m \in numbers : n <= m
  <2>1. ASSUME NEW m \in Nat, NEW k \in Nat, m < k PROVE <<m, k>> \in OpToRel(<, Nat)
    BY <2>1 DEF OpToRel
  <2>2. \A m \in numbers : m \in Nat /\ n \in Nat /\ ~ (m < n)
    BY <1>1, <1>2, <2>1
  <2>. HIDE DEF numbers
  <2>. QED
    BY <2>2
<1>4. PICK o \in ops : o[2] = n
  OBVIOUS
<1>5. \A p \in ops : o[2] <= p[2]
  BY <1>3, <1>4
<1>. QED
  BY <1>4, <1>5 DEF First

LEMMA OpFacts ==
  /\ \A o \in Op : o[1] \in Flood /\ o[2] \in 1..MaxOps[o[1]] /\ o[2] \in Nat /\ o = <<o[1], o[2]>>
  /\ \A f \in Flood : MaxOps[f] \in Nat /\ \A n \in 1..MaxOps[f] : <<f, n>> \in Op
  /\ \A f \in Flood : DoFlood(f) \notin Op /\ DoFlood(f)[1] = f
<1>1. \A f \in Flood : MaxOps[f] \in Nat
  BY FloodAssumption DEF Flood
<1>2. \A o \in Op : \E f \in Flood : o \in {f} \X (1..MaxOps[f])
  BY DEF Op
<1>3. \A f \in Flood : \A n \in 1..MaxOps[f] : <<f, n>> \in Op
  BY DEF Op
<1>4. \A o \in Op : o[1] \in Flood /\ o[2] \in 1..MaxOps[o[1]] /\ o[2] \in Nat /\ o = <<o[1], o[2]>>
  BY <1>1, <1>2
<1>5. \A f \in Flood : DoFlood(f) \notin Op /\ DoFlood(f)[1] = f
  BY <1>4 DEF DoFlood
<1>. QED
  BY <1>1, <1>3, <1>4, <1>5

LEMMA OpFinite == IsFiniteSet(Op)
<1>. DEFINE of == [f \in Flood |-> {f} \X (1..MaxOps[f])]
            parts == {{f} \X (1..MaxOps[f]) : f \in Flood}
<1>1. IsFiniteSet(Flood)
  <2>1. Flood = 1..Len(MaxOps) /\ Len(MaxOps) \in Nat
    BY FloodAssumption DEF Flood
  <2>. QED
    BY <2>1, FS_Interval
<1>2. of \in Surjection(Flood, parts)
  BY DEF Surjection
<1>3. IsFiniteSet(parts)
  BY <1>1, <1>2, FS_Surjection
<1>4. ASSUME NEW f \in Flood PROVE IsFiniteSet({f} \X (1..MaxOps[f]))
  <2>1. IsFiniteSet(1..MaxOps[f])
    BY OpFacts, FS_Interval
  <2>2. IsFiniteSet({f})
    BY FS_Singleton
  <2>. QED
    BY <2>1, <2>2, FS_Product
<1>5. \A p \in parts : IsFiniteSet(p)
  BY <1>4
<1>6. Op = UNION parts
  BY DEF Op
<1>. QED
  BY <1>3, <1>5, <1>6, FS_UNION

\* Reports: one that has the lock put its own health metrics into the map.
LEMMA ReportInv ==
  ASSUME ReporterInv, (\E r \in Reporter : Report(r)) \/ UNCHANGED metricsVars
  PROVE  ReporterInv'
<1>. USE FloodAssumption DEF ReporterInv, LockAgrees, RecordsOneReport
<1>1. ASSUME NEW r \in Reporter, SetHealth(r) PROVE ReporterInv'
  <2>1. /\ holder = "none" /\ holder' = r /\ health' = r /\ test' = test
        /\ step' = [step EXCEPT ![r] = "locked"]
    BY <1>1 DEF SetHealth, Free, StepTo
  <2>2. \A q \in Reporter : step[q] # "locked"
    BY <2>1
  <2>. QED
    BY <2>1, <2>2
<1>2. ASSUME NEW r \in Reporter, SetTest(r) PROVE ReporterInv'
  <2>1. step' = [step EXCEPT ![r] = "recorded"]
    BY <1>2 DEF SetTest, StepTo
  <2>2. step[r] = "locked" /\ test' = r /\ holder' = "none" /\ health' = health
    BY <1>2 DEF SetTest, StepTo, Released
  <2>3. health = r /\ \A q \in Reporter \ {r} : step[q] # "locked"
    BY <2>2
  <2>. QED
    BY <2>1, <2>2, <2>3
<1>3. CASE UNCHANGED metricsVars
  BY <1>3 DEF metricsVars
<1>. QED
  BY <1>1, <1>2, <1>3 DEF Report

LEMMA OpenFinite ==
  /\ IsFiniteSet(Open) /\ Cardinality(Open) \in Nat
  /\ IsFiniteSet(Made) /\ Cardinality(Made) \in Nat
BY OpFinite, FS_Subset, FS_CardinalityType DEF Open, Made

LEMMA DisjointCardinality ==
  ASSUME NEW S, IsFiniteSet(S), NEW T, IsFiniteSet(T), S \cap T = {}
  PROVE  Cardinality(S \cup T) = Cardinality(S) + Cardinality(T)
<1>1. Cardinality(S \cup T) = Cardinality(S) + Cardinality(T) - 0
  BY FS_Union, FS_EmptySet
<1>. QED
  BY <1>1, FS_CardinalityType

\* What new values of the variables of do_flood do to the messages made and to
\* those that are not counted.
LEMMA Recount ==
  ASSUME FloodInv, NEW f \in Flood, NEW v \in FloodState, LocalOK(f, v),
         flood' = [flood EXCEPT ![f] = v]
  PROVE  /\ flood' \in [Flood -> FloodState] /\ LocalsAgree'
         /\ Open' = (Open \ flood[f].allOps) \cup (IF v.pc = "done" THEN {} ELSE v.allOps)
         /\ Made' = (Made \ ({f} \X (1..flood[f].size))) \cup ({f} \X (1..v.size))
<1>1. flood \in [Flood -> FloodState] /\ LocalOK(f, flood[f]) /\ flood'[f] = v
      /\ \A g \in Flood \ {f} : flood'[g] = flood[g]
  BY DEF FloodInv, FloodTypeOK, LocalsAgree
<1>2. flood' \in [Flood -> FloodState] /\ LocalsAgree'
  BY <1>1 DEF FloodInv, LocalsAgree
<1>3. /\ v.size \in Nat /\ v.size <= MaxOps[f] /\ MaxOps[f] \in Nat
      /\ v.allOps \subseteq {f} \X (1..v.size)
      /\ flood[f].size \in Nat /\ flood[f].allOps \subseteq {f} \X (1..flood[f].size)
  BY <1>1, OpFacts DEF FloodState, LocalOK
<1>4. {f} \X (1..v.size) \subseteq Op /\ v.allOps \subseteq Op
  BY <1>3, OpFacts
<1>5. Open' = (Open \ flood[f].allOps) \cup (IF v.pc = "done" THEN {} ELSE v.allOps)
  <2>1. ASSUME NEW o \in Op, o[1] = f
        PROVE  o \in Open' <=> o \in (Open \ flood[f].allOps) \cup (IF v.pc = "done" THEN {} ELSE v.allOps)
    BY <1>1, <2>1 DEF Open
  <2>2. ASSUME NEW o \in Op, o[1] # f
        PROVE  o \in Open' <=> o \in (Open \ flood[f].allOps) \cup (IF v.pc = "done" THEN {} ELSE v.allOps)
    <3>1. o[1] \in Flood \ {f} /\ o \notin flood[f].allOps /\ o \notin v.allOps
      BY <1>3, <2>2, OpFacts
    <3>. QED
      BY <1>1, <3>1 DEF Open
  <2>. QED
    BY <1>4, <2>1, <2>2 DEF Open
<1>6. Made' = (Made \ ({f} \X (1..flood[f].size))) \cup ({f} \X (1..v.size))
  <2>1. ASSUME NEW o \in Op, o[1] = f
        PROVE  o \in Made' <=> o \in (Made \ ({f} \X (1..flood[f].size))) \cup ({f} \X (1..v.size))
    <3>1. o[2] \in Nat /\ o[2] >= 1 /\ o = <<f, o[2]>>
      BY <2>1, OpFacts, <1>3
    <3>2. (o \in {f} \X (1..v.size)) <=> o[2] <= v.size
      BY <3>1, <1>3
    <3>3. (o \in {f} \X (1..flood[f].size)) <=> o[2] <= flood[f].size
      BY <3>1, <1>3
    <3>. QED
      BY <1>1, <2>1, <3>2, <3>3 DEF Made
  <2>2. ASSUME NEW o \in Op, o[1] # f
        PROVE  o \in Made' <=> o \in (Made \ ({f} \X (1..flood[f].size))) \cup ({f} \X (1..v.size))
    <3>1. o[1] \in Flood \ {f}
      BY <2>2, OpFacts
    <3>2. o \notin {f} \X (1..v.size) /\ o \notin {f} \X (1..flood[f].size)
      BY <2>2
    <3>. QED
      BY <1>1, <3>1, <3>2 DEF Made
  <2>. QED
    BY <1>4, <2>1, <2>2 DEF Made
<1>. QED
  BY <1>2, <1>5, <1>6

\* A step of a flood that neither makes nor counts messages.
LEMMA NoRecount ==
  ASSUME FloodInv, NEW f \in Flood, NEW v \in FloodState, LocalOK(f, v),
         flood' = [flood EXCEPT ![f] = v],
         v.size = flood[f].size, v.allOps = flood[f].allOps,
         v.pc # "done", flood[f].pc # "done", UNCHANGED counterVars
  PROVE  flood' \in [Flood -> FloodState] /\ LocalsAgree' /\ EachMessageCountedOnce'
<1>1. /\ flood' \in [Flood -> FloodState] /\ LocalsAgree'
      /\ Open' = (Open \ flood[f].allOps) \cup flood[f].allOps
      /\ Made' = (Made \ ({f} \X (1..flood[f].size))) \cup ({f} \X (1..flood[f].size))
  <2>1. /\ flood' \in [Flood -> FloodState] /\ LocalsAgree'
        /\ Open' = (Open \ flood[f].allOps) \cup (IF v.pc = "done" THEN {} ELSE v.allOps)
        /\ Made' = (Made \ ({f} \X (1..flood[f].size))) \cup ({f} \X (1..v.size))
    BY Recount
  <2>. QED
    BY <2>1
<1>2. flood[f].allOps \subseteq Open
  <2>1. flood[f] \in FloodState /\ LocalOK(f, flood[f])
    BY DEF FloodInv, FloodTypeOK, LocalsAgree
  <2>2. flood[f].allOps \subseteq Op /\ \A o \in flood[f].allOps : o[1] = f
    BY <2>1 DEF FloodState, LocalOK
  <2>. QED
    BY <2>2 DEF Open
<1>3. {f} \X (1..flood[f].size) \subseteq Made
  <2>1. LocalOK(f, flood[f]) /\ flood[f].size \in Nat
    BY DEF FloodInv, FloodTypeOK, LocalsAgree, FloodState
  <2>2. \A n \in 1..flood[f].size : <<f, n>> \in Op /\ <<f, n>>[1] = f /\ <<f, n>>[2] <= flood[f].size
    BY <2>1, OpFacts DEF LocalOK
  <2>. QED
    BY <2>2 DEF Made
<1>4. Open' = Open /\ Made' = Made
  BY <1>1, <1>2, <1>3
<1>. QED
  BY <1>1, <1>4 DEF FloodInv, EachMessageCountedOnce, counterVars

\* The messages that a flood makes are new.
LEMMA MakeCounts ==
  ASSUME FloodInv, NEW f \in Flood, Make(f)
  PROVE  flood' \in [Flood -> FloodState] /\ LocalsAgree' /\ EachMessageCountedOnce'
<1>1. PICK n \in 1..MaxOps[f] :
        Becomes(f, "making", [flood[f] EXCEPT !.pc = "submitting", !.size = n,
                                !.allOps = {f} \X (1..n), !.toSubmit = {f} \X (1..n)])
  BY DEF Make
<1>. DEFINE ops == {f} \X (1..n)
            v == [flood[f] EXCEPT !.pc = "submitting", !.size = n, !.allOps = ops, !.toSubmit = ops]
<1>2. /\ flood' = [flood EXCEPT ![f] = v] /\ flood[f].pc = "making"
      /\ flood[f] \in FloodState /\ LocalOK(f, flood[f])
  BY <1>1 DEF Becomes, FloodInv, FloodTypeOK, LocalsAgree
<1>3. n \in Nat /\ n >= 1 /\ n <= MaxOps[f] /\ ops \subseteq Op
  BY OpFacts
<1>4. flood[f].size = 0 /\ flood[f].allOps = {}
  BY <1>2 DEF LocalOK
<1>5. v \in FloodState /\ v.allOps = ops /\ v.size = n /\ v.pc = "submitting"
  BY <1>2, <1>3 DEF FloodState
<1>6. LocalOK(f, v)
  BY <1>2, <1>3, <1>4 DEF LocalOK, FloodState
<1>7. /\ flood' \in [Flood -> FloodState] /\ LocalsAgree'
      /\ Open' = (Open \ flood[f].allOps) \cup ops
      /\ Made' = (Made \ ({f} \X (1..flood[f].size))) \cup ops
  <2>. HIDE DEF v
  <2>. QED
    BY <1>2, <1>5, <1>6, Recount
<1>8. Open' = Open \cup ops /\ Made' = Made \cup ops
  BY <1>4, <1>7
<1>9. Open \cap ops = {} /\ Made \cap ops = {}
  BY <1>4 DEF Open, Made
<1>10. IsFiniteSet(ops) /\ Cardinality(ops) \in Nat
  BY <1>3, OpFinite, FS_Subset, FS_CardinalityType
<1>. HIDE DEF ops
<1>11. Cardinality(Open') = Cardinality(Open) + Cardinality(ops)
  BY <1>8, <1>9, <1>10, OpenFinite, DisjointCardinality
<1>12. Cardinality(Made') = Cardinality(Made) + Cardinality(ops)
  BY <1>8, <1>9, <1>10, OpenFinite, DisjointCardinality
<1>13. UNCHANGED counterVars
  BY DEF Make
<1>. QED
  BY <1>7, <1>10, <1>11, <1>12, <1>13, OpenFinite
  DEF FloodInv, FloodTypeOK, EachMessageCountedOnce, counterVars

\* A list becomes shorter and the rest of it is counted.
LEMMA Counted ==
  ASSUME FloodInv, NEW f \in Flood, NEW v \in FloodState, LocalOK(f, v),
         flood' = [flood EXCEPT ![f] = v], v.size = flood[f].size, flood[f].pc # "done",
         NEW left, left = IF v.pc = "done" THEN {} ELSE v.allOps, left \subseteq flood[f].allOps
  PROVE  /\ flood' \in [Flood -> FloodState] /\ LocalsAgree'
         /\ Cardinality(flood[f].allOps) - Cardinality(left) \in Nat
         /\ Cardinality(Open') = Cardinality(Open) - (Cardinality(flood[f].allOps) - Cardinality(left))
         /\ Made' = Made
<1>. DEFINE all == flood[f].allOps
<1>1. /\ flood' \in [Flood -> FloodState] /\ LocalsAgree'
      /\ Open' = (Open \ all) \cup left
      /\ Made' = (Made \ ({f} \X (1..flood[f].size))) \cup ({f} \X (1..flood[f].size))
  <2>1. /\ flood' \in [Flood -> FloodState] /\ LocalsAgree'
        /\ Open' = (Open \ flood[f].allOps) \cup (IF v.pc = "done" THEN {} ELSE v.allOps)
        /\ Made' = (Made \ ({f} \X (1..flood[f].size))) \cup ({f} \X (1..v.size))
    BY Recount
  <2>. QED
    BY <2>1
<1>2. flood[f] \in FloodState /\ LocalOK(f, flood[f])
  BY DEF FloodInv, FloodTypeOK, LocalsAgree
<1>3. all \subseteq Op /\ all \subseteq Open
  BY <1>2 DEF FloodState, LocalOK, Open
<1>4. {f} \X (1..flood[f].size) \subseteq Made
  <2>1. \A n \in 1..flood[f].size : <<f, n>> \in Op /\ <<f, n>>[1] = f /\ <<f, n>>[2] <= flood[f].size
    BY <1>2, OpFacts DEF LocalOK, FloodState
  <2>. QED
    BY <2>1 DEF Made
<1>5. IsFiniteSet(all) /\ Cardinality(all) \in Nat /\ Cardinality(left) \in Nat
      /\ Cardinality(left) <= Cardinality(all)
  <2>1. IsFiniteSet(all)
    BY <1>3, OpFinite, FS_Subset
  <2>2. IsFiniteSet(left) /\ Cardinality(left) <= Cardinality(all)
    BY <2>1, FS_Subset
  <2>. QED
    BY <2>1, <2>2, FS_CardinalityType
<1>6. Open' = Open \ (all \ left) /\ Open \cap (all \ left) = all \ left /\ all \cap left = left
  BY <1>1, <1>3
<1>7. Cardinality(all \ left) = Cardinality(all) - Cardinality(left)
  BY <1>5, <1>6, FS_Difference
<1>8. Cardinality(Open') = Cardinality(Open) - Cardinality(all \ left)
  <2>1. Cardinality(Open \ (all \ left)) = Cardinality(Open) - Cardinality(Open \cap (all \ left))
    BY OpenFinite, FS_Difference
  <2>. QED
    BY <1>6, <2>1
<1>9. Made' = Made
  BY <1>1, <1>4
<1>. QED
  BY <1>1, <1>5, <1>7, <1>8, <1>9

PoolOK ==
  /\ submitted \in 0..Len(MaxOps) /\ tasks \in Seq(Task) /\ running \subseteq Task
  /\ recording \subseteq Op /\ answered \subseteq Op

\* The invariant part by part.
LEMMA FloodInvParts ==
  FloodInv <=> /\ PoolOK /\ flood \in [Flood -> FloodState] /\ LocalsAgree
               /\ EachMessageCountedOnce /\ verified \in Nat /\ timedOut \in Nat /\ ReporterInv
BY DEF FloodInv, FloodTypeOK, PoolOK, ReporterInv

LEMMA FloodInitInv == FloodInit => FloodInv
<1>. SUFFICES ASSUME FloodInit PROVE FloodInv
  OBVIOUS
<1>. USE DEF FloodInit
<1>1. PoolOK
  BY FloodAssumption DEF PoolOK
<1>2. flood \in [Flood -> FloodState]
  BY DEF FloodState
<1>3. \A f \in Flood : flood[f].allOps = {} /\ flood[f].size = 0
  OBVIOUS
<1>4. LocalsAgree
  BY OpFacts DEF LocalsAgree, LocalOK
<1>5. Open = {} /\ Made = {}
  BY <1>3, OpFacts DEF Open, Made
<1>6. EachMessageCountedOnce
  BY <1>5, FS_EmptySet DEF EachMessageCountedOnce
<1>7. ReporterInv
  BY FloodAssumption DEF MetricsInit, ReporterInv, LockAgrees, RecordsOneReport
<1>. QED
  BY <1>1, <1>2, <1>4, <1>6, <1>7, FloodInvParts

\* The same floods and counts, the same count.
LEMMA SameFloods ==
  ASSUME FloodInv, UNCHANGED <<flood, counterVars>>, PoolOK', ReporterInv'
  PROVE  FloodInv'
<1>1. LocalsAgree' /\ EachMessageCountedOnce'
  BY DEF FloodInv, LocalsAgree, EachMessageCountedOnce, Open, Made, counterVars
<1>2. flood' \in [Flood -> FloodState] /\ verified' \in Nat /\ timedOut' \in Nat
  BY FloodInvParts DEF counterVars
<1>. QED
  BY <1>1, <1>2, FloodInvParts DEF FloodInv, FloodTypeOK, PoolOK, ReporterInv

LEMMA PoolInv ==
  ASSUME FloodInv,
         \/ SubmitFlood
         \/ \E o \in Op : Send(o) \/ Answer(o)
         \/ \E r \in Reporter : SendMetrics(r)
         \/ UNCHANGED floodVars
  PROVE  FloodInv'
<1>. PoolOK /\ ReporterInv
  BY FloodInvParts
<1>1. CASE SubmitFlood
  <2>1. DoFlood(submitted') \in Task
    <3>1. submitted' \in 1..Len(MaxOps) /\ Len(MaxOps) \in Nat
      BY <1>1, FloodAssumption DEF SubmitFlood, PoolOK
    <3>. QED
      BY <3>1, FloodAssumption DEF Task, Flood
  <2>2. PoolOK'
    BY <1>1, <2>1, FloodAssumption DEF SubmitFlood, SubmitTask, PoolOK
  <2>. QED
    BY <1>1, <2>2, ReportInv, SameFloods DEF SubmitFlood, SubmitTask
<1>2. ASSUME NEW o \in Op, Send(o) \/ Answer(o) PROVE FloodInv'
  <2>1. PoolOK' /\ UNCHANGED <<flood, counterVars>>
    BY <1>2 DEF Send, SendReturns, SendRaises, SendRecords, Answer, PoolOK, poolVars
  <2>2. UNCHANGED metricsVars
    BY <1>2 DEF Send, SendReturns, SendRaises, SendRecords, Answer, RecordLatency
  <2>. QED
    BY <2>1, <2>2, ReportInv, SameFloods
<1>3. ASSUME NEW r \in Reporter, SendMetrics(r) PROVE FloodInv'
  BY <1>3, ReportInv, SameFloods DEF SendMetrics, PoolOK, poolVars
<1>4. CASE UNCHANGED floodVars
  BY <1>4, ReportInv, SameFloods DEF floodVars, PoolOK, poolVars
<1>. QED
  BY <1>1, <1>2, <1>3, <1>4

\* A step of do_flood that neither makes nor counts.
LEMMA QuietFloodInv ==
  ASSUME FloodInv, NEW f \in Flood, NEW v \in FloodState, LocalOK(f, v),
         flood' = [flood EXCEPT ![f] = v],
         v.size = flood[f].size, v.allOps = flood[f].allOps,
         v.pc # "done", flood[f].pc # "done", UNCHANGED counterVars,
         UNCHANGED metricsVars, PoolOK'
  PROVE  FloodInv'
<1>1. flood' \in [Flood -> FloodState] /\ LocalsAgree' /\ EachMessageCountedOnce'
  BY NoRecount
<1>2. ReporterInv'
  BY ReportInv, FloodInvParts
<1>3. verified' \in Nat /\ timedOut' \in Nat
  BY FloodInvParts DEF counterVars
<1>. QED
  BY <1>1, <1>2, <1>3 DEF FloodInv, FloodTypeOK, PoolOK, ReporterInv

LEMMA TakeTaskInv == ASSUME FloodInv, TakeTask PROVE FloodInv'
<1>. DEFINE t == Head(tasks)
            f == t[1]
<1>1. t \in Task /\ tasks' \in Seq(Task)
  BY FloodInvParts DEF TakeTask, PoolOK
<1>2. PoolOK'
  BY <1>1, FloodInvParts DEF TakeTask, PoolOK
<1>3. CASE t = DoFlood(f)
  <2>1. f \in Flood
    BY <1>1, <1>3, OpFacts DEF Task
  <2>. DEFINE v == [flood[f] EXCEPT !.pc = "making"]
  <2>2. flood' = [flood EXCEPT ![f] = v] /\ flood[f].pc = "new"
    BY <1>3 DEF TakeTask, Becomes
  <2>3. flood[f] \in FloodState /\ LocalOK(f, flood[f])
    BY <2>1 DEF FloodInv, FloodTypeOK, LocalsAgree
  <2>4. v \in FloodState /\ v.pc = "making" /\ v.size = flood[f].size /\ v.allOps = flood[f].allOps
    BY <2>3 DEF FloodState
  <2>5. LocalOK(f, v)
    BY <2>2, <2>3, <2>4 DEF LocalOK, FloodState
  <2>6. UNCHANGED counterVars /\ UNCHANGED metricsVars
    BY DEF TakeTask
  <2>. HIDE DEF v
  <2>. QED
    BY <1>2, <2>1, <2>2, <2>4, <2>5, <2>6, QuietFloodInv
<1>4. CASE t # DoFlood(f)
  BY <1>2, <1>4, ReportInv, SameFloods, FloodInvParts DEF TakeTask
<1>. QED
  BY <1>3, <1>4

\* The steps of do_flood between making the tickets and counting them.
LEMMA WaitingFloodInv ==
  ASSUME FloodInv, NEW f \in Flood,
         \/ Submit(f) \/ SubmitRaises(f) \/ Submitted(f) \/ PassDeadline(f)
         \/ Loop(f) \/ Wait(f) \/ Scan(f)
  PROVE  FloodInv'
<1>. DEFINE l == flood[f]
<1>1. l \in FloodState /\ LocalOK(f, l) /\ PoolOK /\ l.allOps \subseteq {f} \X Nat
  BY FloodInvParts DEF LocalsAgree, LocalOK
<1>2. ASSUME NEW v \in FloodState, v.size = l.size, v.allOps = l.allOps, v.toSubmit \subseteq l.allOps,
             v.toScan \subseteq l.allOps, v.remaining \subseteq l.allOps,
             v.pc \notin {"new", "making", "done"}, l.pc # "done",
             v.pc # "submitting" => v.toSubmit = {},
             flood' = [flood EXCEPT ![f] = v], UNCHANGED <<counterVars, metricsVars>>, PoolOK'
      PROVE  FloodInv'
  <2>1. LocalOK(f, v)
    BY <1>1, <1>2 DEF LocalOK
  <2>. QED
    BY <1>2, <2>1, QuietFloodInv
<1>3. CASE Submit(f)
  <2>. DEFINE o == First(l.toSubmit)
              v == [l EXCEPT !.toSubmit = @ \ {o}]
  <2>1. o \in l.toSubmit /\ o \in Op
    BY <1>1, <1>3, FirstIsOne DEF Submit, LocalOK, FloodState
  <2>2. PoolOK'
    BY <1>1, <1>3, <2>1 DEF Submit, SubmitTask, PoolOK, Task
  <2>3. flood' = [flood EXCEPT ![f] = v] /\ l.pc = "submitting" /\ UNCHANGED <<counterVars, metricsVars>>
    BY <1>3 DEF Submit, SubmitTask, Becomes
  <2>4. /\ v \in FloodState /\ v.size = l.size /\ v.allOps = l.allOps /\ v.toSubmit \subseteq l.allOps
        /\ v.toScan = l.toScan /\ v.remaining = l.remaining /\ v.pc = l.pc
    BY <1>1 DEF FloodState, LocalOK
  <2>. HIDE DEF v
  <2>5. v.toScan \subseteq l.allOps /\ v.remaining \subseteq l.allOps
    BY <1>1, <2>4 DEF LocalOK
  <2>6. v.pc = "submitting" /\ l.pc # "done"
    BY <2>3, <2>4
  <2>. QED
    BY <1>2, <2>2, <2>3, <2>4, <2>5, <2>6
<1>4. CASE Submitted(f)
  <2>. DEFINE v == [l EXCEPT !.pc = "checking"]
  <2>1. /\ flood' = [flood EXCEPT ![f] = v] /\ l.pc = "submitting"
        /\ UNCHANGED <<counterVars, metricsVars>> /\ PoolOK'
    BY <1>1, <1>4 DEF Submitted, Becomes, others, poolVars, PoolOK
  <2>2. /\ v \in FloodState /\ v.size = l.size /\ v.allOps = l.allOps /\ v.toSubmit = l.toSubmit
        /\ v.toScan = l.toScan /\ v.remaining = l.remaining /\ v.pc = "checking"
    BY <1>1 DEF FloodState
  <2>. HIDE DEF v
  <2>3. v.toSubmit = {} /\ v.toScan \subseteq l.allOps /\ v.remaining \subseteq l.allOps
    BY <1>1, <1>4, <2>2 DEF LocalOK, Submitted
  <2>. QED
    BY <1>2, <2>1, <2>2, <2>3
<1>5. CASE PassDeadline(f)
  <2>. DEFINE v == [l EXCEPT !.late = TRUE]
  <2>1. flood' = [flood EXCEPT ![f] = v]
    <3>1. flood' = [flood EXCEPT ![f].late = TRUE] /\ flood \in [Flood -> FloodState]
      BY <1>5, FloodInvParts DEF PassDeadline
    <3>. QED
      BY <3>1
  <2>2. l.pc \in {"checking", "waiting"} /\ UNCHANGED <<counterVars, metricsVars>> /\ PoolOK'
    BY <1>1, <1>5 DEF PassDeadline, others, poolVars, PoolOK
  <2>3. /\ v \in FloodState /\ v.size = l.size /\ v.allOps = l.allOps /\ v.toSubmit = l.toSubmit
        /\ v.toScan = l.toScan /\ v.remaining = l.remaining /\ v.pc = l.pc
    BY <1>1 DEF FloodState
  <2>. HIDE DEF v
  <2>. QED
    BY <1>1, <1>2, <2>1, <2>2, <2>3 DEF LocalOK
<1>6. CASE Loop(f)
  <2>. DEFINE v == [l EXCEPT !.pc = "waiting"]
  <2>1. /\ flood' = [flood EXCEPT ![f] = v] /\ l.pc = "checking"
        /\ UNCHANGED <<counterVars, metricsVars>> /\ PoolOK'
    BY <1>1, <1>6 DEF Loop, Becomes, others, poolVars, PoolOK
  <2>2. /\ v \in FloodState /\ v.size = l.size /\ v.allOps = l.allOps /\ v.toSubmit = l.toSubmit
        /\ v.toScan = l.toScan /\ v.remaining = l.remaining /\ v.pc = "waiting"
    BY <1>1 DEF FloodState
  <2>. HIDE DEF v
  <2>. QED
    BY <1>1, <1>2, <2>1, <2>2 DEF LocalOK
<1>7. CASE Wait(f)
  <2>. DEFINE v == [l EXCEPT !.pc = "scanning", !.toScan = l.allOps, !.remaining = {}]
  <2>1. /\ flood' = [flood EXCEPT ![f] = v] /\ l.pc = "waiting"
        /\ UNCHANGED <<counterVars, metricsVars>> /\ PoolOK'
    BY <1>1, <1>7 DEF Wait, Becomes, others, poolVars, PoolOK
  <2>2. /\ v \in FloodState /\ v.size = l.size /\ v.allOps = l.allOps /\ v.toSubmit = l.toSubmit
        /\ v.toScan = l.allOps /\ v.remaining = {} /\ v.pc = "scanning"
    BY <1>1 DEF FloodState
  <2>. HIDE DEF v
  <2>. QED
    BY <1>1, <1>2, <2>1, <2>2 DEF LocalOK
<1>8. CASE Scan(f)
  <2>. DEFINE o == First(l.toScan)
              v == [l EXCEPT !.toScan = @ \ {o}, !.remaining = @ \cup ({o} \ answered)]
  <2>1. o \in l.toScan /\ o \in Op
    BY <1>1, <1>8, FirstIsOne DEF Scan, LocalOK, FloodState
  <2>2. /\ flood' = [flood EXCEPT ![f] = v] /\ l.pc = "scanning"
        /\ UNCHANGED <<counterVars, metricsVars>> /\ PoolOK'
    BY <1>1, <1>8 DEF Scan, Becomes, others, poolVars, PoolOK
  <2>3. /\ v \in FloodState /\ v.size = l.size /\ v.allOps = l.allOps /\ v.toSubmit = l.toSubmit
        /\ v.toScan \subseteq l.toScan /\ v.remaining = l.remaining \cup ({o} \ answered)
        /\ v.pc = "scanning"
    BY <1>1, <2>1, <2>2 DEF FloodState
  <2>. HIDE DEF v
  <2>. QED
    BY <1>1, <1>2, <2>1, <2>2, <2>3 DEF LocalOK
<1>9. CASE SubmitRaises(f)
  <2>. DEFINE v == [l EXCEPT !.pc = "raised", !.toSubmit = {}]
  <2>1. /\ flood' = [flood EXCEPT ![f] = v] /\ l.pc = "submitting"
        /\ UNCHANGED <<counterVars, metricsVars>> /\ PoolOK'
    BY <1>1, <1>9 DEF SubmitRaises, Becomes, others, PoolOK
  <2>2. /\ v \in FloodState /\ v.size = l.size /\ v.allOps = l.allOps /\ v.toSubmit = {}
        /\ v.toScan = l.toScan /\ v.remaining = l.remaining /\ v.pc = "raised"
    BY <1>1 DEF FloodState
  <2>. HIDE DEF v
  <2>. QED
    BY <1>1, <1>2, <2>1, <2>2 DEF LocalOK
<1>. QED
  BY <1>3, <1>4, <1>5, <1>6, <1>7, <1>8, <1>9

LEMMA CountingFloodInv ==
  ASSUME FloodInv, NEW f \in Flood, Make(f) \/ Finish(f) \/ Count(f)
  PROVE  FloodInv'
<1>. DEFINE l == flood[f]
<1>1. l \in FloodState /\ LocalOK(f, l) /\ PoolOK /\ verified \in Nat /\ timedOut \in Nat
  BY FloodInvParts DEF LocalsAgree
<1>2. ReporterInv' /\ PoolOK'
  <2>1. UNCHANGED metricsVars /\ ReporterInv
    BY FloodInvParts DEF Make, Finish, Count, others
  <2>2. PoolOK'
    BY <1>1 DEF Make, Finish, Count, others, poolVars, PoolOK
  <2>. QED
    BY <2>1, <2>2, ReportInv
<1>3. CASE Make(f)
  <2>1. verified' \in Nat /\ timedOut' \in Nat
    BY <1>1, <1>3 DEF Make, counterVars
  <2>. QED
    BY <1>2, <1>3, <2>1, MakeCounts DEF FloodInv, FloodTypeOK, PoolOK, ReporterInv
<1>4. CASE Finish(f)
  <2>. DEFINE v == [l EXCEPT !.pc = "done"]
  <2>1. /\ flood' = [flood EXCEPT ![f] = v] /\ l.pc = "checking"
        /\ timedOut' = timedOut + Cardinality(l.allOps) /\ verified' = verified
    BY <1>4 DEF Finish, Becomes
  <2>2. /\ v \in FloodState /\ v.size = l.size /\ v.allOps = l.allOps /\ v.toSubmit = l.toSubmit
        /\ v.toScan = l.toScan /\ v.remaining = l.remaining /\ v.pc = "done"
    BY <1>1 DEF FloodState
  <2>. HIDE DEF v
  <2>3. LocalOK(f, v)
    BY <1>1, <2>1, <2>2 DEF LocalOK
  <2>4. /\ flood' \in [Flood -> FloodState] /\ LocalsAgree'
        /\ Cardinality(l.allOps) - Cardinality({}) \in Nat
        /\ Cardinality(Open') = Cardinality(Open) - (Cardinality(l.allOps) - Cardinality({}))
        /\ Made' = Made
    <3>. DEFINE left == IF v.pc = "done" THEN {} ELSE v.allOps
    <3>1. left = {} /\ left \subseteq l.allOps /\ l.pc # "done"
      BY <2>1, <2>2
    <3>2. /\ flood' \in [Flood -> FloodState] /\ LocalsAgree'
          /\ Cardinality(l.allOps) - Cardinality(left) \in Nat
          /\ Cardinality(Open') = Cardinality(Open) - (Cardinality(l.allOps) - Cardinality(left))
          /\ Made' = Made
      BY <2>1, <2>2, <2>3, <3>1, Counted
    <3>. QED
      BY <3>1, <3>2
  <2>5. Cardinality({}) = 0
    BY FS_EmptySet
  <2>6. IsFiniteSet(l.allOps) /\ Cardinality(l.allOps) \in Nat
    BY <1>1, OpFinite, FS_Subset, FS_CardinalityType DEF FloodState
  <2>7. EachMessageCountedOnce' /\ timedOut' \in Nat
    BY <1>1, <2>1, <2>4, <2>5, <2>6, OpenFinite DEF FloodInv, EachMessageCountedOnce
  <2>. QED
    BY <1>1, <1>2, <2>1, <2>4, <2>7 DEF FloodInv, FloodTypeOK, PoolOK, ReporterInv
<1>5. CASE Count(f)
  <2>. DEFINE v == [l EXCEPT !.pc = "checking", !.allOps = l.remaining]
  <2>1. /\ flood' = [flood EXCEPT ![f] = v] /\ l.pc = "scanning" /\ l.toScan = {}
        /\ verified' = verified + (Cardinality(l.allOps) - Cardinality(l.remaining))
        /\ timedOut' = timedOut
    BY <1>5 DEF Count, CountVerified, Becomes
  <2>2. /\ v \in FloodState /\ v.size = l.size /\ v.allOps = l.remaining /\ v.toSubmit = l.toSubmit
        /\ v.toScan = l.toScan /\ v.remaining = l.remaining /\ v.pc = "checking"
    BY <1>1 DEF FloodState
  <2>. HIDE DEF v
  <2>3. LocalOK(f, v)
    BY <1>1, <2>1, <2>2 DEF LocalOK
  <2>4. /\ flood' \in [Flood -> FloodState] /\ LocalsAgree'
        /\ Cardinality(l.allOps) - Cardinality(l.remaining) \in Nat
        /\ Cardinality(Open') = Cardinality(Open) - (Cardinality(l.allOps) - Cardinality(l.remaining))
        /\ Made' = Made
    <3>. DEFINE left == IF v.pc = "done" THEN {} ELSE v.allOps
    <3>1. left = l.remaining /\ left \subseteq l.allOps /\ l.pc # "done"
      BY <1>1, <2>1, <2>2 DEF LocalOK
    <3>2. /\ flood' \in [Flood -> FloodState] /\ LocalsAgree'
          /\ Cardinality(l.allOps) - Cardinality(left) \in Nat
          /\ Cardinality(Open') = Cardinality(Open) - (Cardinality(l.allOps) - Cardinality(left))
          /\ Made' = Made
      BY <2>1, <2>2, <2>3, <3>1, Counted
    <3>. QED
      BY <3>1, <3>2
  <2>5. EachMessageCountedOnce' /\ verified' \in Nat
    <3>. DEFINE n == Cardinality(l.allOps) - Cardinality(l.remaining)
    <3>1. n \in Nat /\ verified' = verified + n /\ Cardinality(Open') = Cardinality(Open) - n
      BY <2>1, <2>4
    <3>. HIDE DEF n
    <3>. QED
      BY <1>1, <2>1, <2>4, <3>1, OpenFinite DEF FloodInv, EachMessageCountedOnce
  <2>. QED
    BY <1>1, <1>2, <2>1, <2>4, <2>5 DEF FloodInv, FloodTypeOK, PoolOK, ReporterInv
<1>. QED
  BY <1>3, <1>4, <1>5

LEMMA FloodStepInv == FloodInv /\ [FloodNext]_floodVars => FloodInv'
BY PoolInv, TakeTaskInv, WaitingFloodInv, CountingFloodInv DEF FloodNext, FloodStep

LEMMA FloodInvariance == FloodSpec => []FloodInv
BY FloodInitInv, FloodStepInv, PTL DEF FloodSpec

\* The type invariant of the floods and of the reporter.
THEOREM FloodTypeCorrect == FloodSpec => []FloodTypeOK
<1>1. FloodInv => FloodTypeOK
  BY DEF FloodInv
<1>. QED
  BY FloodInvariance, <1>1, PTL

\* Each message of a flood is counted once, for any number of floods that overlap, of
\* messages and of threads that answer and send; those of a flood whose submit raised
\* are among the ones that stay uncounted.
THEOREM MessagesAreCountedOnce == FloodSpec => []EachMessageCountedOnce
<1>1. FloodInv => EachMessageCountedOnce
  BY DEF FloodInv
<1>. QED
  BY FloodInvariance, <1>1, PTL

\* No push mixes the metrics of two reports, for any number of reports that
\* overlap and of sends that record their latency between them.
THEOREM PushesAreOfOneReport == FloodSpec => []RecordsOneReport
<1>1. FloodInv => RecordsOneReport
  BY DEF FloodInv, ReporterInv
<1>. QED
  BY FloodInvariance, <1>1, PTL
=============================================================================
