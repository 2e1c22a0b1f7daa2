---------------------------- MODULE ServicePairing ----------------------------
(***************************************************************************)
(* How the service app (python/service/service.py) knows a device, and the *)
(* reported property test that depends on it (python/device/device.py).    *)
(*                                                                         *)
(* Temporary threads dispatch the EventHub events of a device.  Telemetry  *)
(* carries a run id and a service instance id, from which update_pairing   *)
(* keeps the device's PerDeviceData; twin changes go to one thread that    *)
(* answers each property a test adds and, once the device takes it away    *)
(* again, answers for the removal with what it remembers in that object.   *)
(* device_list is locked for each call and for no longer: an action here   *)
(* ends where a thread may find that another one has changed the list.     *)
(*                                                                         *)
(* One device; its runs follow one another, each with a new run id.        *)
(* EventHub delivers the twin changes in order, and may deliver one out of *)
(* turn too, and telemetry late.                                           *)
(***************************************************************************)
EXTENDS Naturals, Sequences, FiniteSets, SequencesExt

CONSTANTS
  Test,           \* the reported property tests of all runs
  MaxRun,         \* bound: the runs of the device
  RunOf,          \* the run a test belongs to
  Thread,         \* the threads of the service that dispatch events
  MaxLate,        \* bound: events that arrive out of turn or after their run
  MaxQueue        \* bound: twin changes that wait at once

Run == 1..MaxRun

ASSUME PairingAssumption ==
  /\ {MaxRun, MaxLate, MaxQueue} \subseteq Nat
  /\ RunOf \in [Test -> Run]

\* A twin change: a test's property added or removed, or the final run state.
AddEvent(t)  == <<"add", t>>
NullEvent(t) == <<"null", t>>
EndEvent(r)  == <<"end", r>>

TwinEvent == {AddEvent(t) : t \in Test} \cup {NullEvent(t) : t \in Test}
               \cup {EndEvent(r) : r \in Run}

\* The operation ids of a test: addOperationId and removeOperationId.
AddOp(t)    == <<"addOp", t>>
RemoveOp(t) == <<"removeOp", t>>
Operation == {AddOp(t) : t \in Test} \cup {RemoveOp(t) : t \in Test}

VARIABLES
  \* The device.
  run,        \* its current run, 0 before the first
  ended,      \* the run has reported its final state
  ours,       \* the runs that paired with this service instance
  index,      \* reported_property_index
  name,       \* the index in each test's property name
  phase,      \* where each test is
  \* EventHub.
  sent,       \* the twin changes the device has caused, in order
  received,   \* how many of them were delivered in turn
  late,       \* how many events were delivered out of turn or after their run
  \* The service.
  entry,      \* device_list: the device's object, one of objects, or 0
  objects,    \* the PerDeviceData objects that something refers to
  pc,         \* where each thread is that dispatches telemetry
  from,       \* the run the telemetry is from
  held,       \* the object the thread is about to change
  twinQueue,  \* incoming_twin_changes
  twinEvent,  \* the event dispatch_twin_change_thread works on, if any
  twinHeld,   \* its device_data
  answers     \* the operations whose response was put out to be sent

deviceVars   == <<run, ended, ours, index, name, phase>>
hubVars      == <<sent, received, late>>
listVars     == <<entry, objects>>
dispatchVars == <<pc, from, held>>
twinVars     == <<twinEvent, twinHeld>>
serviceVars  == <<listVars, dispatchVars, twinQueue, twinVars, answers>>
vars         == <<deviceVars, hubVars, serviceVars>>

NoEvent == <<>>

\* An object that the list, a thread or the twin change thread refers to is kept, the
\* others are garbage.
Kept(objs) ==
  [o \in DOMAIN objs \cap ({entry', twinHeld'} \cup {held'[d] : d \in Thread}) |-> objs[o]]

Fresh == CHOOSE o \in 1..(Cardinality(DOMAIN objects) + 1) : o \notin DOMAIN objects

Init ==
  /\ run = 0 /\ ended = FALSE /\ ours = {}
  /\ index = 1 /\ name = [t \in Test |-> 0] /\ phase = [t \in Test |-> "new"]
  /\ sent = <<>> /\ received = 0 /\ late = 0
  /\ entry = 0 /\ objects = <<>>
  /\ pc = [d \in Thread |-> "idle"]
  /\ from = [d \in Thread |-> 0] /\ held = [d \in Thread |-> 0]
  /\ twinQueue = <<>> /\ twinEvent = NoEvent /\ twinHeld = 0 /\ answers = {}

-----------------------------------------------------------------------------
(***************************************************************************)
(* The device.                                                             *)
(***************************************************************************)

\* A new run pairs with this service instance, or with another one of the
\* pool.  The run before it may have ended without a word.
StartRun ==
  /\ run < MaxRun /\ run' = run + 1 /\ ended' = FALSE /\ index' = 1
  /\ ours' \in {ours, ours \cup {run'}}
  /\ UNCHANGED <<name, phase, hubVars, serviceVars>>

\* The first twin update with the final run state, of main's finally clause or of a test
\* that reads the metrics after main has set it; another one is a repeated delivery.
\* The tests that are running go on, and take answers, until the process ends.
EndRun ==
  /\ run > 0 /\ ~ended /\ ended' = TRUE
  /\ sent' = Append(sent, EndEvent(run))
  /\ UNCHANGED <<run, ours, index, name, phase, received, late, serviceVars>>

Running(t) == RunOf[t] = run

Becomes(t, p, q) == Running(t) /\ phase[t] = p /\ phase' = [phase EXCEPT ![t] = q]

\* prop_name = "prop_{}".format(self.reported_property_index): no lock is held
\* until the index is incremented.
NameProperty(t) ==
  /\ Becomes(t, "new", "named")
  /\ name' = [name EXCEPT ![t] = index]
  /\ UNCHANGED <<run, ended, ours, index, hubVars, serviceVars>>

\* The increment, and the patch that adds the property.
AddProperty(t) ==
  /\ Becomes(t, "named", "adding") /\ index' = index + 1
  /\ sent' = Append(sent, AddEvent(t))
  /\ UNCHANGED <<run, ended, ours, name, received, late, serviceVars>>

\* The addition was verified or has timed out: the property is removed.
RemoveProperty(t) ==
  /\ Becomes(t, "adding", "removing")
  /\ sent' = Append(sent, NullEvent(t))
  /\ UNCHANGED <<run, ended, ours, index, name, received, late, serviceVars>>

-----------------------------------------------------------------------------
(***************************************************************************)
(* dispatch_incoming_message.                                              *)
(***************************************************************************)

\* update_pairing: which case it is.
Case(r) ==
  CASE entry = 0 /\ r \in ours                              -> "add"
    [] entry # 0 /\ r \notin ours                           -> "remove"
    [] entry # 0 /\ r \in ours /\ objects[entry].run # r    -> "setRun"
    [] OTHER                                                -> "idle"

OneLate == late < MaxLate /\ late' = late + 1

\* Telemetry carries a run id and an instance id; a device that runs never
\* stops sending it.  update_pairing looks the device up.
DeliverTelemetry(d, r) ==
  /\ pc[d] = "idle" /\ r <= run /\ Case(r) # "idle"
  /\ IF r = run /\ ~ended THEN UNCHANGED late ELSE OneLate
  /\ pc' = [pc EXCEPT ![d] = Case(r)]
  /\ from' = [from EXCEPT ![d] = r]
  /\ held' = [held EXCEPT ![d] = IF Case(r) = "setRun" THEN entry ELSE 0]
  /\ UNCHANGED <<deviceVars, sent, received, listVars, twinQueue, twinVars,
                 answers>>

\* What becomes of the telemetry itself is in ServiceAcks.
Return(d) ==
  /\ pc' = [pc EXCEPT ![d] = "idle"]
  /\ from' = [from EXCEPT ![d] = 0]
  /\ held' = [held EXCEPT ![d] = 0]
  /\ UNCHANGED <<deviceVars, hubVars, twinQueue, twinVars, answers>>

\* A new PerDeviceData, whatever the list holds by now.
AddDevice(d) ==
  /\ pc[d] = "add"
  /\ entry' = Fresh
  /\ Return(d)
  /\ objects' = Kept([o \in DOMAIN objects \cup {entry'} |->
                      IF o = entry' THEN [run |-> from[d], values |-> {}] ELSE objects[o]])

RemoveDevice(d) ==
  /\ pc[d] = "remove"
  /\ entry' = 0
  /\ Return(d) /\ objects' = Kept(objects)

\* Mutant: a new run id is only logged.
OldRun(d) == objects[held[d]].run

NewRun(d) == from[d]

\* The run id goes into the object this thread holds, in the list or not.
SetRun(d) ==
  /\ pc[d] = "setRun"
  /\ Return(d) /\ UNCHANGED entry
  /\ objects' = Kept([objects EXCEPT ![held[d]].run = NewRun(d)])

\* A twin change has no run id, so update_pairing does nothing with it.  It is
\* queued if the device is known.
DispatchTwinChange(i) ==
  /\ Len(twinQueue) < MaxQueue
  /\ IF i = received + 1 THEN received' = i /\ UNCHANGED late
                         ELSE UNCHANGED received /\ OneLate
  /\ twinQueue' = IF entry # 0 THEN Append(twinQueue, sent[i]) ELSE twinQueue
  /\ UNCHANGED <<deviceVars, sent, listVars, dispatchVars, twinVars, answers>>

-----------------------------------------------------------------------------
(***************************************************************************)
(* dispatch_twin_change_thread, and the answers.                           *)
(***************************************************************************)

\* incoming_twin_changes.get: a final state removes the device, and for a
\* test's property respond_to_test_content_properties looks the device up.
GetTwinChange ==
  /\ twinEvent = NoEvent /\ twinQueue # <<>>
  /\ twinQueue' = Tail(twinQueue)
  /\ LET e == Head(twinQueue)
     IN  IF e[1] = "end" \/ entry = 0
           THEN entry' = 0 /\ UNCHANGED twinVars
           ELSE twinEvent' = e /\ twinHeld' = entry /\ UNCHANGED entry
  /\ UNCHANGED <<deviceVars, hubVars, dispatchVars, answers>>
  /\ objects' = Kept(objects)

\* The tests whose removal the object remembers under t's property name.
Remembered(t) == {u \in objects[twinHeld].values : name[u] = name[t]}

\* Mutant: the removal is answered together with the addition.
AnswerBoth(t) == {AddOp(t), RemoveOp(t)}

AnswerAdded(t) == {AddOp(t)}

\* An added property is answered, and its removeOperationId is remembered
\* under its name; a removed one is answered with what is remembered, if
\* anything is.  Only this thread touches the values.
Respond ==
  /\ twinEvent # NoEvent /\ twinEvent' = NoEvent /\ twinHeld' = 0
  /\ UNCHANGED <<deviceVars, hubVars, entry, dispatchVars, twinQueue>>
  /\ LET t == twinEvent[2]
         seen == Remembered(t)
         Values(new) ==
           objects' = Kept([objects EXCEPT ![twinHeld].values = (@ \ seen) \cup new])
     IN  IF twinEvent = AddEvent(t)
           THEN Values({t}) /\ answers' = answers \cup AnswerAdded(t)
           ELSE Values({})  /\ answers' = answers \cup {RemoveOp(u) : u \in seen}

\* A response is sent some time later, with the run id that the device's object has
\* then, if it still has one; the device takes it only if that is its own run.  It
\* stays in answers: what holds of it is asked of every time it may arrive at.
Accepts(o) ==
  o \in answers /\ entry # 0 /\ objects[entry].run = run /\ Running(o[2])

-----------------------------------------------------------------------------

DeviceStep ==
  \/ StartRun \/ EndRun
  \/ \E t \in Test : NameProperty(t) \/ AddProperty(t) \/ RemoveProperty(t)

Dispatch(d) == AddDevice(d) \/ RemoveDevice(d) \/ SetRun(d)

TwinStep == GetTwinChange \/ Respond

Next ==
  \/ DeviceStep
  \/ \E d \in Thread, r \in Run : DeliverTelemetry(d, r)
  \/ \E d \in Thread : Dispatch(d)
  \/ \E i \in 1..Len(sent) : DispatchTwinChange(i)
  \/ TwinStep

Spec == Init /\ [][Next]_vars

\* The service's threads are scheduled, a running device's telemetry goes on
\* arriving, and so do the twin changes.
FairSpec ==
  /\ Spec
  /\ WF_vars(TwinStep)
  /\ \A d \in Thread : WF_vars(Dispatch(d))
  /\ \A r \in Run : WF_vars(\E d \in Thread : r = run /\ ~ended /\ DeliverTelemetry(d, r))
  /\ WF_vars(received < Len(sent) /\ DispatchTwinChange(received + 1))

-----------------------------------------------------------------------------
(***************************************************************************)
(* Correctness.                                                            *)
(***************************************************************************)

TypeOK ==
  /\ run \in 0..MaxRun /\ ended \in BOOLEAN /\ ours \in SUBSET Run /\ index \in Nat
  /\ name \in [Test -> Nat] /\ phase \in [Test -> {"new", "named", "adding", "removing"}]
  /\ sent \in Seq(TwinEvent) /\ answers \in SUBSET Operation
  /\ received \in 0..Len(sent) /\ late \in 0..MaxLate
  /\ objects \in [DOMAIN objects -> [run : Run, values : SUBSET Test]]
  /\ entry \in DOMAIN objects \cup {0}
  /\ pc \in [Thread -> {"idle", "add", "remove", "setRun"}]
  /\ from \in [Thread -> 0..MaxRun] /\ held \in [Thread -> DOMAIN objects \cup {0}]
  /\ \A d \in Thread : /\ pc[d] # "idle" => from[d] \in Run
                       /\ pc[d] = "setRun" => held[d] # 0
  /\ twinQueue \in Seq(TwinEvent) /\ twinEvent \in TwinEvent \cup {NoEvent}
  /\ twinHeld \in DOMAIN objects \cup {0}
  /\ twinEvent # NoEvent => twinEvent[1] # "end" /\ twinHeld # 0

\* A property of t's name was removed, by t or by another test that had the name in
\* the same run or an earlier one: reported_property_index is read before it is
\* incremented, and starts again in every run.
Removed(t) ==
  \E u \in Test : name[u] = name[t] /\ RunOf[u] <= RunOf[t] /\ NullEvent(u) \in Range(sent)

\* No verdict without its cause: an addition is acknowledged only after the device
\* reported it, and a removal only after that and after the device reported the
\* removal of a property of that name, however late or often the events of this run
\* and of earlier ones arrive (service.py:695-741, device.py:802-836).
AcksAreEarned ==
  \A t \in Test :
    /\ Accepts(AddOp(t)) => AddEvent(t) \in Range(sent)
    /\ Accepts(RemoveOp(t)) => AddEvent(t) \in Range(sent) /\ Removed(t)

Paired == run > 0 /\ ~ended /\ run \in ours

\* A device that is paired with this service and keeps sending is known under
\* its current run in the end, whatever late events of earlier runs, threads
\* that add it twice, or removals did to the list.
SettlesOnCurrentRun ==
  <>[]Paired => <>[](entry # 0 /\ objects[entry].run = run)
=============================================================================
