# Verification of the long-haul test framework

This directory holds TLA+ models of the apps in `src/`, the TLC runs that check
them, and theorems about them that TLAPS checks.  The repository is a test rig
for the Azure IoT SDKs: a *device app* (Python, Node.js or .NET) runs for days
and exercises one SDK against a *service app* (Python), both verify each
other's behaviour, and a run is failed when the counts of failures exceed
limits.  The rig is right when its verdicts are: what it reports as verified
was verified, nothing it should count is lost or counted twice, and it neither
hangs nor goes on after a failure that should end it.  That is what the
properties here are about.

Contents: 1 the system and its parts, 2 hazards, 3 the modules, 4 the runs,
5 fairness, 6 the proofs, 7 disagreements between code and documentation,
8 what is not modelled, 9 plan, 10 how to run the tools.

## 1. The system and its parts

```
  device app                        IoT Hub                    service app
  ----------                        -------                    -----------
  main(), test threads  --telemetry-->  EventHub  -->  receiver, dispatch threads
  outgoing executor     --reported-->   twin change events        |
  operation tickets                                               | device_list
        ^                                                         v
        |               <--C2D--  response batches  <--  outgoing queues, 2 threads
  incoming executor     <--methods, desired properties-- registry manager calls
```

An *operation* is a message from the device with an id (a *ticket* in Python,
a *waitlist* entry in Node.js).  The service does what the message asks and
sends the id back in a C2D message; the device pairs it with whoever waits for
it.  The device first *pairs*: it proposes a run in its twin, a service app
claims it, and both accept the pairing by run id and service instance id.

| component (source) | state | operations | hard part | what makes it correct |
| --- | --- | --- | --- | --- |
| operation tickets (`python/common/operation_tickets.py`, `device.py` 559-600, 707-751) | list of tickets, weak reference from ticket to list, event, response | make, wait with a timeout, complete, remove | two handler threads complete one ticket without a lock, an answer races the timeout | a waiter that wakes has its response; one verdict per operation |
| executor (`python/common/executor.py`) | work queue of the pool, outstanding futures, each future's thread, watchdogs, the thread-death event | submit, run, check_watchdogs, check_for_failures, wait | submit waits for the thread to start; a thread ends while the main loop looks | every future is accounted for once; a critical failure ends the run |
| service: acknowledgements (`python/service/service.py` 421-470, 597-693, 805-814) | response queue, force event, batches, C2D queue | queue or answer at once, batch, send, stop | wake-up against drain, failing sends, shutdown | nothing vanishes; urgent ids do not wait; threads end |
| service: pairing and twin changes (`service.py` 366-419, 695-779) | device list with per-device data, remembered property values, twin queue | update_pairing, get, add, remove, answer property changes | two dispatch threads, late and repeated events, objects used after removal from the list | verdicts have causes; the device is known under its current run |
| service: methods, PnP and twin commands (`service.py` 196-332, 472-555) | none of its own | invoke, update, send | a call that raises is not answered | every operation that asks for an answer is answered, or was given up for a reason |
| device run loop (`device.py` 404-442, 1039-1150) | run state, failure counters, executors, twin | start-up, the loop, the ways it ends, the final report | failures from three sources while the loop counts; tests write the run state too | failures are counted once; a condemned run is not Complete |
| desired-property test (`device.py` 156-174, 695-705, 838-905) | the semaphore of the test, the patch queue, counters | send a command, wait for the patch, compare the twin | tests on a timer overlap, patches late or lost | one test at a time; a patch reaches its test |
| message floods (`device.py` 621-693) | the tickets of each flood, those left, counters | submit, scan, wait, time out | answers during a scan, a task that submits tasks | each message counted once; floods end |
| device method and C2D tests (`device.py` 907-1021) | counters | answer a method, compare a C2D message | round trips of the tickets | see tickets, run loop |
| Node.js waitlist and tests (`nodejs/device/src/waitlist.ts`, `index.ts` 262-275, 388-534) | operations with promise and timer, counts | add, complete, time out; telemetry and property test | answer before the add, after the timeout, twice | one outcome per test; the pending count is right |
| Node.js run and pairing (`index.ts` 94-225, 556-771, 815) | pairing attempt, listeners, run state, timers | start, ask, claim, stop | stop by a signal, a limit and an error at once, in any await | a stop ends the process; a stopped run stays stopped |
| Node.js C2D test (`index.ts` 227-369) | highest and first index, received, missing | the listener | messages lost, late, repeated | each index counted once |
| network drop (`python/common/drop.py`, `sdk_e2e/drop_fixtures.py`) | the kernel's packet filter rules, which outlive the process | append a rule, list the chain, delete by number, the fixture's teardown | a listing that each deletion makes stale, sessions that are killed in between | no test starts cut off; rules of others stay |
| SDK test fixtures (`sdk_e2e/test_track_1/*_fixtures.py`) | the pairing of the session, tickets with events of the event loop | request, wait, handle a C2D message, complete | a thread of the SDK hands results to an event loop that a restore blocks | a wait resumes, with its own answer |
| metrics reporter (`python/common/azure_monitor_metrics.py`, `measurement.py`, `device.py` 444-557) | one map of values with a setter for each metric | set, record | tests and sends share the map | a push records one report |
| .NET device (`net/device/IotHub.cs`, `Program.cs`, `SystemHealthMonitor.cs`) | the client, the lifetime semaphore, the message queue, the message in hand | initialize, pump, status handler, reset, dispose, monitor | reconnects race the pump and each other | nothing lost or reordered; one client at a time |

The parts interact by calls within an app (tests submit to the executor, the
main loop checks it), through queues and events between threads, and through
the hub between apps, which delivers at least once, late, and not at all when a
device is gone.  Section 8 lists the parts without a module.

## 2. Hazards

`PROJECT.json` lists each hazard at its line with the properties that would
catch it.  They fall into six groups: unlocked steps of several threads
(tickets, executor, device list, flood scans), a wake-up lost between a wait and
a clear (acknowledgements, thread death), answers that race a timeout or are
repeated (tickets, waitlist, C2D index, hub sends), several reasons to end a run
at once (run loops of Python and Node.js), an object replaced while others use
it (.NET client, per-device data, the measurement map), and state that outlives
a process that is killed (packet filter rules).  A property is listed for what
it would catch and for no more.  The seven hazards without a property, and what the
`note` of another one excepts, are what the code does not avoid or the model leaves
out; section 7 lists the former, and the models allow for them where they have that
state.

## 3. The modules

A definition's source lines are in the `map` of `PROJECT.json`.  Definitions
whose comment begins with *Mutant:* are slips the code could have had; they are
in no specification, and each makes one property fail when it takes the place of
the definition it precedes.

**RoundTrip** is the abstract specification of an operation: it is started,
concluded once, completed at most once, and dropped only when completed.

**OperationTickets** is the Python ticket list.  `Make` to `TimeOut` are the
thread of a test (`phase`); `Deliver` is a C2D message with the ids of a batch,
handled by a thread of the incoming executor (`pc`, `msg`, `next`).  `complete()` takes no
lock, so `Assign`, `SetEvent`, `ReadOwner`, `CallOwner`, `RemoveFromList` and
`ClearOwner` are separate actions; the list's lock makes `Get`, `Make` and
`RemoveFromList` atomic.  A handler that reads the cleared `owner_weakref` dies
of a TypeError in `CallOwner`, as in the code, and the executor's thread goes on
with the next message.  The refinement
`ImplementsRoundTrip` takes `list` for RoundTrip's `tracked` and the set events for
its `completed`.

**ServiceAcks** is the way of an id from the event to the device.  Dispatch
threads (`Deliver`, `LookUp`, `Put`, `SetForce`) put it into the response queue or
the C2D queue, the latter for methods and PnP commands after the call of the
device has returned (`Invoke`, where a call that raises answers nobody); the batching thread (`Drain` ... `Clear`) groups by device and
sleeps until it is forced or 15 seconds have passed; the C2D thread (`GetC2d`,
`SendC2d`) sends and drops what fails; `Finish` is the end of the run.  Pairing
is a free choice here (`ChangePairing`), so the results hold whatever the device
list does.

**ServicePairing** is that device list.  `entry` is the list's object of the one
device and `objects` is the heap: the `PerDeviceData` objects that the list or a
thread refers to, also after the list changed.  `update_pairing` is
`DeliverTelemetry`, then `AddDevice`, `RemoveDevice` or `SetRun` as the case it
found demands, each on the object read before.  The device's side is in the same
module because the verdicts it gives are the point: its runs, the property index
that is read (`NameProperty`) and incremented (`AddProperty`) in two steps, and
the tests, which go on after the final state of their run.  `sent` is the log of
its twin changes, `received` a cursor into it for those that arrive in turn; any
event of the log may arrive again or out of turn (`late`).  Twin changes go
through one queue and thread.  A response carries the run id that the device's
object has when it is sent, and a device takes only its own run's: `Accepts` says
when a verdict can be given.

**Executor** is the thread pool wrapper with the loop of `main()`.  A job's
progress on its worker is `status`, its submitter's is `hand`.  Only the
thread-death event needs care: a trigger releases only waiters that wait
already, so a death between two waits wakes nobody, and the next pass finds the
job by its missing thread.

**DeviceRun** is `main()` of the Python device above the executors: start-up,
the loop in its order (watchdogs, failure counts, both executors' failures, their
sum), every way to leave it, the final patch, and threads of the
reported-property test that write the same run state.  Exceptions of dead
threads are counts, since the loop tells them apart only by number and by
whether one was critical.

**DesiredProperties** is the test with its semaphore, its queue and the twin
between it and the service.  **MessageFlood** is the flood on a pool of
`Workers` threads.  Both take the ticket as given.  A submit that finds the task's
thread gone raises (`SubmitRaises`) and ends its flood.  A send that has returned
(`SendReturns`) keeps its thread until it has recorded its latency
(`SendRecords`), for which it needs the reporter.  That is **MetricsReporter**,
the measurement map that each send and each report of the device puts values
into: `SetHealth` and `SetTest` are the two halves of a report, between which
`holder` keeps the lock, and `RecordLatency` is the part of a send that pushes
whatever is in the map.

**NetworkDrop** is how the SDK tests cut the network off: `Disconnect` appends a
rule, `List` and `Scan` are `reconnect_all`, which lists the chain once for each
type and deletes by line number.  A rule of another program whose listing holds
the name and the port is taken for one of the tests' (`TakenFor`).  `Raise` and
`Kill` may come between any two commands; the chain `rules` stays, and the next
`StartSession` meets it.  **SdkTests** extends it by the session that runs on
that network: pairing and its retries, requests and waits on the event loop
(`LoopRuns` says when it is not blocked), and the SDK's thread (`GetTicket`,
`Store`, `Schedule`), whose callbacks the loop completes.

**NodeOperations** is the waitlist with the two tests that use it; one callback
runs at a time, so an action is the code between two awaits.  **NodeRun** is the
life of the Node.js app: the pairing attempts, and any number of overlapping
calls of `stopDeviceApp`, each with its own exit code.  **NodeC2d** is the C2D
listener.  **NodeApp** composes the two: the listener is attached while the app
runs its tests, and the metrics interval stops the app when the listener's
`missing` count is over the limit.

**IotHub** is the .NET app: calls of `InitializeAsync` (`Task`), clients in the
order of their creation, the message pump, the status handler with its retry
rules, the monitor, cancellation and `Dispose`.  `ResetStep` has the statements of
`ResetClient` one by one, each on what `_deviceClient` is by then: `initPc` is
where a call of `InitializeAsync` is in them, `disposePc` where `Dispose` is, which
runs them without the semaphore.

`MC*` modules give constants for TLC; `*Proofs` modules hold the theorems.

## 4. The runs

| run | what it shows | bounds, and why they are enough |
| --- | --- | --- |
| `tickets` | the unlocked steps of two handlers still implement RoundTrip; a waiter that wakes has its own response; the finalizer never finds an owner; every operation ends | 2 operations, 2 handlers, all batches of distinct ids, any number of copies. Two handlers are the least that race; a third finds the same intermediate states, as the steps between are idempotent or fail in the same TypeError |
| `acks` | no urgent id sits in the queue of a sleeping thread that nobody will wake, no id vanishes, no message names an id twice, threads stop | one urgent, one ordinary, one unbatched operation, 2 devices; the urgent event is delivered twice. One dispatch thread: setting the event is idempotent, so a second thread can only help; what two copies do is in the two deliveries. The unbatched one is a method call; pairing requests and commands without an answer are covered by the theorem `NothingVanishes` |
| `executor` | each future is accounted for once, nothing runs on after a critical failure was reported, a failure that is seen stops the run, submit returns | a critical job that submits a second which submits a third, 2 workers: the pool is exhausted when both wait |
| `pairing` | an acknowledgement that the device would take is earned; a device that stays paired is known under its current run in the end | 2 runs with a test each, whose properties may have the same name, as the index starts again; 2 dispatch threads; 1 event that is late, repeated or out of turn, 1 twin change waiting behind the one in hand: enough to add twice, to go back to an old run, to hold a removed object, and to answer a removal for a name that is in use again |
| `devrun` | a condemned run does not complete; each exception is counted once; the twin shows no other final state; exceeded limits fail the run | limits 1 and 3 failures, so that each limit can be met and passed; 2 overlapping test threads |
| `desired` | no patch is lost to its test; a test that has its patch ends | 3 tests: one still in the service, one running, one refused |
| `desired_time` | violated, see section 7 | 1 test |
| `flood` | each message counted once; an answered flood ends without its timeout; a push mixes no two reports; a flood comes to the end of its submits | 2 reporters; 2 floods of up to 2 messages on 3 threads, one thread more than floods; with as many floods as threads the floods wait for each other |
| `hub` | nothing lost, order kept; never two live clients, and until `Dispose` none but the one in use; a client that was lost is disposed of and followed by another | start-up and 2 more initializations, 3 clients, 2 messages, 2 failures |
| `node_ops` | the pending count is right, one outcome per test, tests end | 2 messages, 2 tests; the first of each is acknowledged twice, so that a copy may come while the second is under way |
| `node_app` | pairing leaves no listener, indexes are counted once, a stopped run never reports Running again, a stop ends the app, too many missing messages end it | 2 signals; 3 messages, 2 copies each: a gap, an old index and a late first message |
| `sdk` | no test starts cut off, the rules of others stay, a wait returns with its own answer, and returns once the answer is handled | a chain of 4 rules, 2 of them of other programs and one of these taken for a rule of the tests: rules that a killed session left lie anywhere among them, so that each deletion moves a rule of each kind; any number of sessions that end anywhere; 2 tickets, 2 service apps, 2 queued callbacks, so that two answers of one ticket or of two are under way at once |

Bounds are constants named `Max...`, `NTests` and `NMessages`; each is a
guard of the one action that would otherwise count for ever.  Deadlock is checked
in `tickets`, whose handlers always find another message to deliver, and in
`sdk`, where another session can always start; the other systems stop when a run
is over, so their configurations say `CHECK_DEADLOCK FALSE`, and the liveness
properties say that they do not stop earlier.  The type invariants are no
properties of the runs: each module with state but RoundTrip has one (MetricsReporter's is part
of MessageFlood's), and a theorem of section 6 states it.

## 5. Fairness

Only what the scheduling of the code gives is assumed.

- OperationTickets: started threads go on, SDK calls return or raise, waits time
  out.  Nothing of the network: answers may never come.
- ServiceAcks: the threads go on.  The 15-second timeout is no part of the
  specification; the properties that need it have it as an antecedent
  (`TimeoutComes`).
- Executor: threads and the main loop go on, functions are submitted.  That a
  function ends is an antecedent (`FunctionsEnd`): the receiving thread of the
  service, for one, does not.
- ServicePairing: the threads go on, the current run's telemetry arrives, since a
  run sends it all the time, and the twin changes arrive in their turn.  Late
  and repeated events need not.
- DeviceRun: the main thread goes on; nothing of failures, tests or the planned
  end.
- DesiredProperties: tests' calls return or raise, time passes, patches that the
  hub has sent arrive.  The service need not update the twin.
- MessageFlood: threads and reports go on, so that the reporter's lock is handed
  on.  Answers and timeouts need not come, and no submit need raise;
  that a flood's messages are answered is the antecedent of the property.
- SdkTests: the SDK's thread and the event loop go on, the commands of
  `reconnect_all` return or raise, and a coroutine whose event is set resumes.
  Nothing of the network, the service apps or the tests.
- IotHub: calls of `InitializeAsync`, the pump and start-up go on.  Connection
  changes, the monitor and cancellation need not come.
- NodeOperations: calls settle and timers fire.  Acknowledgements need not come.
- NodeApp: the update of the twin and the closing of the client settle, and the
  metrics interval fires; nothing of the service, signals or messages.

## 6. The proofs

All theorems are for every value of the constants, under the modules' named
assumptions.  Only the calls of `InitializeAsync` (`Task`) and the rules of other
programs (`Other`) are assumed to be finite; sets of operations, handlers,
threads and jobs are not.

**OperationTicketsProofs.**  `TypeCorrect`; `ResponsesArePaired` (a waiter that
wakes has its response); `NoWaiterIsCutOff` (only completed tickets leave the
list); `AbandonmentIsDead` (the finalizer never finds an owner);
`Implementation` (the tickets implement RoundTrip).  The properties are not
inductive: that a handler at `SetEvent` has assigned the response, and that one
past it has set the event, must be carried along, for every handler and its
current operation.  The inductive invariant relates each handler's `pc` to the
flags of the ticket it holds.  The refinement proof takes each action to a step of
RoundTrip or a stutter under that invariant.

**ServiceAcksProofs.**  `NoLostWakeUp`: an urgent id in the queue means that the
batching thread is not asleep for its timeout, or that the event is set or a
dispatch thread is about to set it.  That is not inductive: the thread may fall
asleep after the id came.  The invariant (`Wakeful`) says the same already while
the batch is being sent, from the drained queue on, so that a clear anywhere but
before the drain would break it.  `NothingVanishes`: an operation that asks for
an answer and was dispatched is in a thread's hand, a queue, a batch or a message,
or was answered, or was given up because its device had left or a call or a send
raised.  `NoMessageRepeats`: no C2D message names an id twice, because the batch
is a dictionary of sets, which the invariant says of every stage from the drained queue to
the messages on their way.

**ExecutorProofs.**  `NoFutureTooEarly` and `EveryFutureAccounted`: a future
that was entered is outstanding, in the hands of the running check, or reported,
and never reported twice.  The invariant adds that a job has started before its
submitter goes on (`StartedFirst`), and that only futures whose submit() is done are
in any list (`OnlyAppended`).  `FailureStopsRun`: once a critical failure was
reported, the main loop does not go on; that needs to know at which lines of the
loop a failure may already have been reported.

**DeviceProofs** is about the three modules of the Python device app.

- DesiredProperties: `SemaphoreIsHeldByTheRunningTest` and, from it,
  `NoPatchIsLostToItsTest`, an action property: while a test waits, only it takes
  from the queue, so its own patch cannot go to another.
- DeviceRun: `CondemnedFails`, `ExceptionsAreCountedOnce`, `NothingElseIsStale`
  and `RunStateIsDecidedOnce`.  That a condemned run is not Complete is not
  inductive, because the main thread learns of a failure several lines before it
  sets the run state.  `CondemnedRemembered` says what holds in between: from the
  report of a fatal or critical exception on, either the run state is a failed one, or the
  loop is between the two collections and the place that raises, with the exception
  still in its list.  `RunningUntilLeft` says at which lines the run state is still
  Running, and `CountsAgree` that before the loop the exceptions are those handled
  and collected, with nothing given up yet; what tests have read of the run state can
  only be Running before it changes (`TwinFollows`).
- MessageFlood: `MessagesAreCountedOnce`: the messages made are those verified,
  those timed out and those still open, by cardinality.  The invariant adds that a
  flood's tickets are its own (`LocalOK`), so that floods that overlap take nothing from
  each other, and that the tickets a scan leaves are among those it started with:
  what it counts is then exactly what it takes out of `Open`, whatever is answered
  meanwhile.  The lemma `Counted` says so of any step of one flood.  Those of a
  flood whose submit raised stay in `Open` for good.
  `PushesAreOfOneReport` needs that the lock's holder is the one report between its two
  halves, and that the health metrics in the map are its own (`LockAgrees`).

**NodeProofs** is about the Node.js device app.

- NodeC2d: `IndexesAreCountedOnce` and `CountedWereDelivered`.  The
  invariant adds that the first index is set exactly when the highest one is and lies
  below it, and that every index counted was delivered.  `AppImplementsC2d` maps
  each step of NodeApp to a step of NodeC2d or a stutter, so `AppCountsAreRight`
  carries the result over to the running app.
- NodeOperations: `PendingAreWaiting` and `TestsHaveOneOutcome`.  Acknowledgements
  may come for operations that nobody knows, that wait, or that have ended, so the
  invariant ties the state of each operation to the place of the one test that can have
  it under way (`TestOpsAgree`): a copy that comes late finds no test to move.
  `RemovalsFollow` relates the counts of additions and removals.
- NodeRun: `NoListenerIsLeft` and `StoppedStaysStopped`.  The second is about
  updates of the twin that overlap: the hub applies them in the order in which
  they were sent (`reports`), so the invariant `StopsInOrder` is about that order,
  in which no Running follows a final state, and about the run state that later
  updates will copy.  `AppImplementsRun` carries both over to NodeApp.

**SdkTestsProofs.**  `TestsStartConnected`, `OthersAreKept` and `WaitsAreAnswered`,
for any rules of other programs, service apps and tickets.  `Restored` is the invariant of
`reconnect_all`: while it looks at a listing, the lines it has still to look at
are the rules with those numbers, and behind them there is none of the type at
hand; types that are done have no rule at all.  So what it deletes by its number in the
listing is the rule it took the line for (`OthersAreKept`).  That it deletes from the last line to the
first is what keeps it.  `Earned` is the invariant of the tickets: whoever is on
the way to be completed, in the thread's hand or in the loop's queue, has its
message stored already.

**ServicePairingProofs.**  `VerdictsAreEarned`: whenever the device may take the
answer for an addition, it has made that addition; whenever it may take the one for
a removal, it has made the addition and then removed a property of that name, in
this run or an earlier one.  It does not say that the test removed its own
property: tests share names (section 7), and the service answers by name.  The
verdict is several threads away from its cause, so the invariant follows the
cause: a test whose event is in the log is past that step, so that its name does
not change any more (`CausesAreNamed`), what is in the queue and in hand was sent
(`EventsWereSent`), a value remembered in an object came with such an
event (`MemoriesWereSent`), and every answer has an event
(`VerdictsHaveCauses`).  It holds for objects that have left the device list too.

**IotHubProofs.**  `OneClientAtATime`: there are never two live clients, and until
`Dispose` begins the one alive is the one in use.  After that it need not be:
`Dispose` may set to null a client that was created since it disposed of the one
before.  The calls that hold the semaphore are one (`MutualExclusion`), and once
`Dispose` has begun no call takes it (`NoSemaphoreLeft`), so at most the one that
holds it already is beside `Dispose`.  A call that has the old client before it
finds no other alive (`OldIsInUse`), one that is about to create a client finds none
(`NoneBeforeCreate`), and `Dispose` that is about to let go of a client has
disposed of the one such a call may still meet (`DisposedFirst`).  `NoMessageLost` and `OrderIsKept`: messages in the queue are
numbered without a gap up to the last one added (`QueueInOrder`), the one in hand
is the one before them, and none sent is after it (`TakenInOrder`).  Steps of
the clients and of the messages share no variable, so each half is proved for
its own steps (`StepsAreSplit`).

Every invariant and action property that a run checks is a theorem.  Only
model-checked are the liveness properties, because the provers cannot treat fairness,
which is defined by ENABLED: `EveryOperationEnds`, `ThreadsStop`,
`FailureSeenStopsRun`, `SubmitReturns`, `SettlesOnCurrentRun`, `ExceededFails`,
`DeliveredTestEnds`, `AnsweredFloodEnds`, `SubmittingFloodsGoOn`, `LostClientIsReplaced`,
`TestsEnd`, `StopEnds`, `TooManyMissingEndsRun` and `HandledWaitEnds`.

## 7. Where code and documentation disagree

One disagreement is a run that must fail.

- `desired_time`: `device.py:861` calls `queue.get(max(0, end_time - time.time()))`.
  The first parameter of `Queue.get` is `block`, so the call waits without a
  timeout unless the time is up already.  A test whose patch never comes waits
  for ever and is never counted by the metric for patches that were not received
  (`device.py:336`).  It is submitted neither critical nor with a watchdog
  (`device.py:774`), so `check_watchdogs` at most logs a warning
  (`executor.py:193-218`), and as it keeps the semaphore, every later test of
  desired properties returns at once.

Others were noted while modelling and are not runs; the models contain the
behaviour of the code.

| line | what the code does |
| --- | --- |
| `operation_tickets.py:24` | a second completion may find `owner_weakref` already None and raise a TypeError that line 52 only warns of |
| `operation_tickets.py:103` | a ticket that timed out stays in the list for ever |
| `service.py:643` | an id is sent again when its copies fall into two batches, against 651-652 |
| `executor.py:238` | a thread is cleared before its future is done, so the assertion may fail and end the main loop |
| `executor.py:156` | `submit` names a thread that may have been cleared since it was tested; in a flood the exception ends `do_flood`, whose messages are then never counted (`device.py:656-659`) |
| `service.py:597` | the thread that sends C2D messages may leave before the batching thread puts its last message into the queue (682) |
| `service.py:800` | the main loop waits without a timeout, so a thread that hangs, or one whose death was signalled between two waits, is noticed only when another one dies (`executor.py:36`) |
| `service.py:373` | two dispatch threads may both add a device (701-702), and what is remembered in the first one's data is lost |
| `service.py:375` | a late message adds a device again whose run has ended |
| `device.py:889` | the update of an earlier test may overwrite the twin before it is compared (887) |
| `device.py:905` | the counter named there is no attribute of the metrics (322) |
| `device.py:1082` | a duration of 0, "forever" in `constants.yaml:492`, ends the run at once |
| `device.py:1087` | failures of the last round are not compared with the limits (`constants.yaml:495`) |
| `device.py:1070` | an exception during start-up leaves the twin at Running (1138-1139) |
| `device.py:808` | the index of a test is read and incremented without a lock and starts at 1 in every run: two tests may use one property name, and the removal of one answers the other (787-788) |
| `device.py:819` | a test that is still running may overwrite the final state in the twin |
| `device.py:990` | a method timeout replaces the counter by a new one instead of incrementing it (350) |
| `IotHub.cs:235` | a replacement client that has never connected is not replaced when it gives up (305) |
| `IotHub.cs:239` | the client is null between two clients while `AddTelemetry` asserts that it is not (158) |
| `IotHub.cs:226` | `Dispose` runs `ResetClient` (232-243) without the semaphore beside a call of `InitializeAsync`: it may set a new client to null, which stays alive with nobody referring to it, or miss one that is created after it |
| `index.ts:185` | an attempt to pair that ends while its request is awaited rejects a promise that nothing awaits yet, which from Node.js 15 on ends the process |
| `index.ts:416` | an acknowledgement that comes before the operation is added is taken for unknown (271) |
| `index.ts:489` | a timeout of the addition is counted as one of a desired patch (`constants.yaml:407`) |
| `index.ts:770` | a signal during pairing is reported as Failed (`constants.yaml:624`) |

## 8. What is not modelled

- Callback-based tickets: nothing in the repository makes one.
- The contents of method calls, their payloads and of C2D tests (`device.py`
  907-1021, the comparison after the round trip), and what the service's calls do to
  the device or its digital twin.  ServiceAcks has these calls as returning or raising.
- Single SDK tests (`sdk_e2e/test_track_1/test_*.py`): each sends one operation through
  the fixtures of SdkTests and compares one value.
- The setup of the exporter (`azure_monitor.py`) and of logging, the reading of the
  machine's health: I/O with no state the properties speak of.
- .NET settings, message formatting, telemetry readings, exception
  classification (a free choice in IotHub).
- Provisioning and secrets (`dps.py`, `thief_secrets.py`): one sequence of external
  calls before a run starts.
- Code generation (`generate.py` and the constants it writes), the names of the
  metrics and their setters, deployment scripts, and the placeholder apps in C, Java,
  Node.js (service) and .NET (service).

Abstractions shared by all modules: contents of messages are the ids they
carry, metrics that no property mentions are left out, time is a set of things
that are late, and the hub is a bag of messages that may repeat, reorder and
lose.

## 9. Plan

1. Done: tickets with their abstract specification and refinement,
   acknowledgements, executor, pairing, the run loop, desired properties, floods
   with the metrics reporter, the .NET client, Node.js operations, run and C2D test
   with their composition, the SDK test fixtures on the network they cut off;
   proofs of the safety properties of all of them.
2. RemoteTests: the calls of the service with the method and C2D tests of the
   device (`device.py` 907-1021): a method that is verified was handled by the
   device, also when the event or the request is repeated.
3. End to end: OperationTickets over ServiceAcks as an implementation of RoundTrip
   across both apps.
4. Proofs: that the desired-property test gives one outcome to each patch sent; that
   a job's thread in Executor is one worker's at a time, from which the
   assertion that may fail (`executor.py:238`) is delimited; what RoundTrip promises,
   as theorems about it, so that the refinement carries them to the tickets.

## 10. Running

`tlc -config MCExecutor.cfg MCExecutor` checks a run (`PROJECT.json` names the
module and configuration of each), `tlapm ExecutorProofs.tla` a proof module.
No run takes more than two minutes on four cores, no proof module more than three.
