-------------------------------- MODULE NodeRun --------------------------------
(***************************************************************************)
(* A run of the Node.js device app, nodejs/device/src/index.ts:            *)
(* startDeviceApp with pairWithService and startTestOperations, and        *)
(* stopDeviceApp, which signals, the metrics loop and startDeviceApp       *)
(* itself may call while the others are awaiting something.                *)
(*                                                                         *)
(* Node.js runs one callback at a time, with the continuations of the      *)
(* promises it settles: that is an action.                                 *)
(***************************************************************************)
EXTENDS Integers, Sequences

CONSTANT MaxSignals   \* bound: signals the process gets

ASSUME RunAssumption == MaxSignals \in Nat

NoExit == 0
ErrorCode == 1
SignalCode == 130

VARIABLES
  start,      \* where startDeviceApp is
  made,       \* what it has assigned: "nothing", this.client, this.twin
  attempt,    \* the promise of the latest pairingAttempt
  listeners,  \* listeners for properties.desired.thief.pairing
  runState,   \* sessionMetrics.runState
  test,       \* testReportedProperties: off, its timer set, or running
  metrics,    \* the interval of startUpdatingMetics is set
  stops,      \* the calls of stopDeviceApp: [code, pc]
  reports,    \* twin updates with sessionMetrics under way: [by, state]
  reported,   \* the runState in the twin
  signals,    \* signals so far
  exit        \* the exit code of the process, or NoExit

pairVars == <<attempt, listeners>>
testVars == <<test, metrics>>
twinVars == <<reports, reported>>
stopVars == <<runState, stops, exit>>
vars == <<start, made, pairVars, testVars, twinVars, stopVars, signals>>

Init ==
  /\ start = "creating" /\ made = "nothing"
  /\ attempt = "none" /\ listeners = 0
  /\ test = "off" /\ metrics = FALSE
  /\ reports = <<>> /\ reported = "none"
  /\ runState = "Running" /\ stops = <<>> /\ exit = NoExit
  /\ signals = 0

Alive == exit = NoExit

\* package.json asks for Node.js 10 or later: up to 14 an unhandled rejection is
\* a warning, from 15 on it ends the process.
Unhandled == {NoExit, ErrorCode}

-----------------------------------------------------------------------------
(***************************************************************************)
(* stopDeviceApp.                                                          *)
(***************************************************************************)

StateOf(code) == IF code = ErrorCode THEN "Failed" ELSE "Interrupted"

\* Mutant: the listener of the attempt stays.
ListenerStays == UNCHANGED listeners

CleanUp == listeners' = listeners - 1

\* The calls of stopDeviceApp that one callback makes, up to their first await.
\* They cancel the pairing attempt: when nothing awaits it, that is an unhandled
\* rejection.
StopDeviceApp(codes) ==
  LET pending == attempt = "pending"
      Call(i) == [code |-> codes[i],
                  pc   |-> IF made = "twin" THEN "reporting" ELSE "closing"]
      Report(i) == [by |-> Len(stops) + i, state |-> StateOf(codes[i])]
      each == 1..Len(codes)
  IN  /\ runState' = StateOf(codes[Len(codes)])
      /\ metrics' = FALSE
      /\ test' = IF test = "timer" THEN "off" ELSE test
      /\ IF pending THEN attempt' = "canceled" /\ CleanUp ELSE UNCHANGED pairVars
      /\ stops' = stops \o [i \in each |-> Call(i)]
      /\ reports' = IF made = "twin" THEN reports \o [i \in each |-> Report(i)]
                                     ELSE reports
      /\ exit' \in IF made = "nothing" THEN {codes[1]}
                   ELSE IF pending /\ start # "attempt" THEN Unhandled ELSE {NoExit}
      /\ UNCHANGED <<made, reported>>

\* The rejection reaches pairWithService, which throws it to startDeviceApp.
Signal ==
  /\ Alive /\ signals < MaxSignals
  /\ signals' = signals + 1
  /\ IF start = "attempt"
       THEN start' = "caught" /\ StopDeviceApp(<<SignalCode, ErrorCode>>)
       ELSE start' = start    /\ StopDeviceApp(<<SignalCode>>)

\* A call of startDeviceApp's try block throws.
Throw ==
  /\ start' = "caught" /\ StopDeviceApp(<<ErrorCode>>)
  /\ UNCHANGED signals

\* updateMetrics finds one or more of its three limits exceeded.
LimitsExceeded ==
  /\ Alive /\ metrics
  /\ \E n \in 1..3 : StopDeviceApp([i \in 1..n |-> ErrorCode])
  /\ UNCHANGED <<start, signals>>

\* Mutant: nothing catches an update that raises.
UncaughtGoesOn(r) == reported' = r.state

\* What follows the update r: an error is caught.
GoesOn(r) == TRUE

\* Twin updates are done in order, and each returns or raises; an update that
\* raises may have been done.  What is under way may be done after the process
\* has ended.
UpdateReturns ==
  /\ reports # <<>> /\ reports' = Tail(reports)
  /\ LET r == Head(reports)
     IN  /\ reported' \in {r.state, reported}
         /\ stops' = [i \in DOMAIN stops |->
               IF i = r.by /\ GoesOn(r) THEN [stops[i] EXCEPT !.pc = "closing"]
                                        ELSE stops[i]]
  /\ UNCHANGED <<start, made, pairVars, testVars, runState, exit, signals>>

\* client.close() settles.
Closed(i) ==
  /\ Alive /\ stops[i].pc = "closing"
  /\ exit' = stops[i].code
  /\ UNCHANGED <<start, made, pairVars, testVars, twinVars, runState, stops, signals>>

-----------------------------------------------------------------------------
(***************************************************************************)
(* startDeviceApp and pairWithService.                                     *)
(***************************************************************************)

\* A new attempt: its listener, its timer, and the twin update that requests it.
Ask ==
  /\ start' = "asking" /\ attempt' = "pending" /\ listeners' = listeners + 1
  /\ UNCHANGED <<testVars, twinVars, stopVars, signals>>

CreateReturns ==
  /\ Alive /\ start = "creating"
  /\ \/ /\ start' = "gettingTwin" /\ made' = "client"
        /\ UNCHANGED <<pairVars, testVars, twinVars, stopVars, signals>>
     \/ Throw

GetTwinReturns ==
  /\ Alive /\ start = "gettingTwin"
  /\ (made' = "twin" /\ Ask) \/ Throw

\* The attempt is over: the loop asks again, or its time is up.
AskAgain == (UNCHANGED made /\ Ask) \/ Throw

Accept ==
  /\ start' = "accepting"
  /\ UNCHANGED <<made, testVars, twinVars, stopVars, signals>>

\* The update has returned, and the attempt may be over already; or it raises.
AskReturns ==
  /\ Alive /\ start = "asking"
  /\ \/ /\ attempt = "pending" /\ start' = "attempt"
        /\ UNCHANGED <<made, pairVars, testVars, twinVars, stopVars, signals>>
     \/ attempt = "claimed" /\ Accept /\ UNCHANGED pairVars
     \/ attempt = "timedOut" /\ AskAgain
     \/ Throw

\* A service app claims this device instance.
Claim ==
  /\ Alive /\ attempt = "pending"
  /\ attempt' = "claimed" /\ CleanUp
  /\ start' = IF start = "attempt" THEN "accepting" ELSE start
  /\ UNCHANGED <<made, testVars, twinVars, stopVars, signals>>

\* on_timeout while pairWithService awaits the attempt: it asks again, with a new
\* listener for the old one, or its time is up.
AttemptTimesOut ==
  /\ Alive /\ attempt = "pending" /\ start = "attempt"
  /\ \/ start' = "asking" /\ UNCHANGED <<pairVars, testVars, twinVars, stopVars>>
     \/ /\ start' = "caught" /\ attempt' = "timedOut" /\ CleanUp
        /\ runState' = StateOf(ErrorCode)
        /\ stops' = Append(stops, [code |-> ErrorCode, pc |-> "reporting"])
        /\ reports' = Append(reports, [by |-> Len(stops'), state |-> runState'])
        /\ UNCHANGED <<testVars, reported, exit>>
  /\ UNCHANGED <<made, signals>>

\* on_timeout while nothing awaits the attempt.
UnawaitedTimesOut ==
  /\ Alive /\ attempt = "pending" /\ start # "attempt"
  /\ attempt' = "timedOut" /\ CleanUp
  /\ exit' \in Unhandled
  /\ UNCHANGED <<start, made, testVars, twinVars, runState, stops, signals>>

\* Mutant: the sessionMetrics of an update are a copy made when the run began.
StateThen == "Running"

StateNow == runState

\* A test update has begun.
TestReport ==
  /\ test' = "running"
  /\ reports' = Append(reports, [by |-> 0, state |-> StateNow])
  /\ UNCHANGED <<made, pairVars, reported, stopVars, signals>>

\* The update that accepts the pairing returns, and the tests start, even after
\* stopDeviceApp was called; or it raises.
AcceptReturns ==
  /\ Alive /\ start = "accepting"
  /\ (start' = "testing" /\ metrics' = TRUE /\ TestReport) \/ Throw

\* startC2dMessageSending raises.
StartC2dFails == Alive /\ start = "testing" /\ Throw

-----------------------------------------------------------------------------
(***************************************************************************)
(* testReportedProperties: it awaits its own updates, and its timer is set *)
(* again after a cancellation it was running through.                      *)
(***************************************************************************)

Awaiting == \E i \in DOMAIN reports : reports[i].by = 0

\* The timer fires, or the addition was verified: the next update, with
\* sessionMetrics as they are then.
TestReports ==
  /\ Alive
  /\ test = "timer" \/ (test = "running" /\ ~Awaiting)
  /\ TestReport
  /\ UNCHANGED <<start, metrics>>

TestEnds ==
  /\ Alive /\ test = "running" /\ ~Awaiting
  /\ test' = "timer"
  /\ UNCHANGED <<start, made, pairVars, metrics, twinVars, stopVars, signals>>

-----------------------------------------------------------------------------

Next ==
  \/ Signal \/ LimitsExceeded \/ UpdateReturns
  \/ \E i \in DOMAIN stops : Closed(i)
  \/ CreateReturns \/ GetTwinReturns \/ AskReturns \/ Claim
  \/ AttemptTimesOut \/ UnawaitedTimesOut
  \/ AcceptReturns \/ StartC2dFails
  \/ TestReports \/ TestEnds

Spec == Init /\ [][Next]_vars

\* Calls of the SDK return or raise.
CallsReturn ==
  WF_vars(UpdateReturns) /\ WF_vars(\E i \in DOMAIN stops : Closed(i))

-----------------------------------------------------------------------------

Stopped == {"Failed", "Interrupted"}
RunState == Stopped \cup {"Running"}

TypeOK ==
  /\ start \in {"creating", "gettingTwin", "asking", "attempt", "accepting", "testing", "caught"}
  /\ made \in {"nothing", "client", "twin"}
  /\ attempt \in {"none", "pending", "claimed", "timedOut", "canceled"}
  /\ listeners \in Nat
  /\ test \in {"off", "timer", "running"} /\ metrics \in BOOLEAN
  /\ reports \in Seq([by : Nat, state : RunState])
  /\ reported \in RunState \cup {"none"}
  /\ runState \in RunState
  /\ stops \in Seq([code : {ErrorCode, SignalCode}, pc : {"reporting", "closing"}])
  /\ exit \in {NoExit, ErrorCode, SignalCode}
  /\ signals \in 0..MaxSignals

\* A pairing attempt that is over has left no listener, whichever of the claim,
\* the timeout, the cancellation and a failed request ended it
\* (index.ts:123-162).
ListenersAreRemoved == listeners = (IF attempt = "pending" THEN 1 ELSE 0)

\* Once the twin says that the run has stopped it never says Running again,
\* though a test goes on after its cancellation, and an old patch object is sent
\* again (index.ts:450-472, 500-505).
StoppedIsNotRunning ==
  [][(reported \in Stopped) => (reported' # "Running")]_vars

\* A run that is being stopped ends, whatever the service and the SDK do
\* (index.ts:688-746).
StopEnds == stops # <<>> ~> exit # NoExit
=============================================================================
