------------------------- MODULE ServicePairingProofs -------------------------
(***************************************************************************)
(* Proofs about ServicePairing, for any number of tests, runs, threads and *)
(* late events.  The inductive invariant says what each step of a verdict  *)
(* knows: an event in the queue or in hand was caused by the device, a     *)
(* test that an object remembers was added, and so on to the answers.      *)
(***************************************************************************)
EXTENDS ServicePairing, SequenceTheorems, TLAPS

\* A test that has caused an event has its name, for good, and its run has begun.
CausesAreNamed ==
  \A t \in Test : /\ AddEvent(t) \in Range(sent) => phase[t] \in {"adding", "removing"}
                  /\ NullEvent(t) \in Range(sent) => phase[t] = "removing"
                  /\ phase[t] # "new" => RunOf[t] <= run

\* The thread of the service works on changes that the device has caused.
EventsWereSent ==
  /\ Range(twinQueue) \subseteq Range(sent)
  /\ twinEvent # NoEvent => twinEvent \in Range(sent)

\* What an object remembers was added.
MemoriesWereSent ==
  \A o \in DOMAIN objects : \A t \in objects[o].values : AddEvent(t) \in Range(sent)

\* A property of t's name was removed, in whatever run.
NameRemoved(t) == \E u \in Test : name[u] = name[t] /\ NullEvent(u) \in Range(sent)

\* Answers have their causes.
VerdictsHaveCauses ==
  \A t \in Test :
    /\ AddOp(t) \in answers => AddEvent(t) \in Range(sent)
    /\ RemoveOp(t) \in answers => AddEvent(t) \in Range(sent) /\ NameRemoved(t)

IInv ==
  TypeOK /\ CausesAreNamed /\ EventsWereSent /\ MemoriesWereSent /\ VerdictsHaveCauses

-----------------------------------------------------------------------------
(***************************************************************************)
(* Events and operations.                                                  *)
(***************************************************************************)

LEMMA Events ==
  /\ \A t \in Test : /\ AddEvent(t) \in TwinEvent /\ NullEvent(t) \in TwinEvent
                     /\ AddOp(t) \in Operation /\ RemoveOp(t) \in Operation
                     /\ AddEvent(t) # NoEvent /\ NullEvent(t) # NoEvent
  /\ \A r \in Run : EndEvent(r) \in TwinEvent
BY DEF AddEvent, NullEvent, EndEvent, AddOp, RemoveOp, TwinEvent, Operation, NoEvent

LEMMA Distinct ==
  /\ \A t, u \in Test : /\ AddEvent(t) # NullEvent(u) /\ AddOp(t) # RemoveOp(u)
                        /\ AddEvent(t) = AddEvent(u) => t = u
                        /\ NullEvent(t) = NullEvent(u) => t = u
                        /\ AddOp(t) = AddOp(u) => t = u
                        /\ RemoveOp(t) = RemoveOp(u) => t = u
  /\ \A t \in Test, r \in Run : EndEvent(r) # AddEvent(t) /\ EndEvent(r) # NullEvent(t)
BY DEF AddEvent, NullEvent, EndEvent, AddOp, RemoveOp

\* A change that is no final state is of a test.
LEMMA TestEvent ==
  ASSUME NEW e \in TwinEvent, e[1] # "end"
  PROVE  e[2] \in Test /\ (e = AddEvent(e[2]) \/ e = NullEvent(e[2]))
BY DEF TwinEvent, AddEvent, NullEvent, EndEvent

\* Appending an event adds it, and nothing else, to the events of a sequence.
LEMMA AppendEvent ==
  ASSUME NEW s \in Seq(TwinEvent), NEW e \in TwinEvent
  PROVE  /\ Append(s, e) \in Seq(TwinEvent) /\ Len(Append(s, e)) = Len(s) + 1
         /\ Range(Append(s, e)) = Range(s) \cup {e}
<1>1. /\ Append(s, e) \in Seq(TwinEvent) /\ Len(Append(s, e)) = Len(s) + 1
      /\ \A i \in 1..Len(s) : Append(s, e)[i] = s[i]
      /\ Append(s, e)[Len(s) + 1] = e
  BY AppendProperties
<1>2. Range(s) = {s[i] : i \in 1..Len(s)}
  BY RangeEquality
<1>3. Range(Append(s, e)) = {Append(s, e)[i] : i \in 1..(Len(s) + 1)}
  BY <1>1, RangeEquality
<1>4. Len(s) \in Nat /\ 1..(Len(s) + 1) = 1..Len(s) \cup {Len(s) + 1}
  BY LenProperties
<1>. QED
  BY <1>1, <1>2, <1>3, <1>4

\* Taking the first event leaves events of the sequence.
LEMMA TakeEvent ==
  ASSUME NEW s \in Seq(TwinEvent), s # <<>>
  PROVE  /\ Head(s) \in TwinEvent /\ Tail(s) \in Seq(TwinEvent)
         /\ Head(s) \in Range(s) /\ Range(Tail(s)) \subseteq Range(s)
<1>1. /\ Head(s) \in TwinEvent /\ Tail(s) \in Seq(TwinEvent) /\ Len(Tail(s)) = Len(s) - 1
      /\ \A i \in 1..Len(Tail(s)) : Tail(s)[i] = s[i + 1]
  BY HeadTailProperties
<1>2. Head(s) = s[1] /\ Len(s) \in Nat /\ Len(s) > 0
  BY LenProperties, EmptySeq
<1>3. Range(s) = {s[i] : i \in 1..Len(s)} /\ Range(Tail(s)) = {Tail(s)[i] : i \in 1..Len(Tail(s))}
  BY <1>1, RangeEquality
<1>4. Head(s) \in Range(s)
  BY <1>2, <1>3
<1>5. \A i \in 1..Len(Tail(s)) : Tail(s)[i] \in Range(s)
  <2>. SUFFICES ASSUME NEW i \in 1..Len(Tail(s)) PROVE s[i + 1] \in Range(s)
    BY <1>1
  <2>1. i + 1 \in 1..Len(s)
    BY <1>1, <1>2
  <2>. QED
    BY <1>3, <2>1
<1>. QED
  BY <1>1, <1>3, <1>4, <1>5

LEMMA InitInv == Init => IInv
<1>. SUFFICES ASSUME Init PROVE IInv
  OBVIOUS
<1>1. MaxRun \in Nat /\ MaxLate \in Nat
  BY PairingAssumption
<1>2. /\ run \in 0..MaxRun /\ late \in 0..MaxLate /\ from \in [Thread -> 0..MaxRun]
      /\ received \in 0..Len(sent)
  BY <1>1 DEF Init
<1>3. /\ objects = <<>> /\ DOMAIN objects = {} /\ DOMAIN sent = {} /\ DOMAIN twinQueue = {}
      /\ \A d \in Thread : pc[d] = "idle"
  BY DEF Init
<1>4. Range(sent) = {} /\ Range(twinQueue) = {}
  BY <1>3 DEF Range
<1>5. objects \in [DOMAIN objects -> [run : Run, values : SUBSET Test]]
  BY <1>3
<1>6. TypeOK
  <2>1. /\ run \in 0..MaxRun /\ ended \in BOOLEAN /\ ours \in SUBSET Run /\ index \in Nat
        /\ name \in [Test -> Nat] /\ phase \in [Test -> {"new", "named", "adding", "removing"}]
    BY <1>2 DEF Init
  <2>2. /\ sent \in Seq(TwinEvent) /\ twinQueue \in Seq(TwinEvent) /\ answers \in SUBSET Operation
    BY EmptySeq DEF Init
  <2>3. /\ entry \in DOMAIN objects \cup {0} /\ twinHeld \in DOMAIN objects \cup {0}
        /\ held \in [Thread -> DOMAIN objects \cup {0}]
        /\ pc \in [Thread -> {"idle", "add", "remove", "setRun"}]
        /\ twinEvent = NoEvent
    BY DEF Init
  <2>. QED
    BY <1>2, <1>3, <1>5, <2>1, <2>2, <2>3 DEF TypeOK
<1>. QED
  BY <1>3, <1>4, <1>6 DEF Init, IInv, CausesAreNamed, EventsWereSent, MemoriesWereSent,
     VerdictsHaveCauses

-----------------------------------------------------------------------------
(***************************************************************************)
(* The objects: those that something refers to are kept, as they are.      *)
(***************************************************************************)

Object == [run : Run, values : SUBSET Test]

Heap(f) == f \in [DOMAIN f -> Object]

LEMMA KeptObjects ==
  ASSUME NEW f, Heap(f), objects' = Kept(f), entry' \in DOMAIN f \cup {0},
         twinHeld' \in DOMAIN f \cup {0}, held' \in [Thread -> DOMAIN f \cup {0}]
  PROVE  /\ Heap(objects') /\ entry' \in DOMAIN objects' \cup {0}
         /\ twinHeld' \in DOMAIN objects' \cup {0}
         /\ held' \in [Thread -> DOMAIN objects' \cup {0}]
         /\ \A o \in DOMAIN objects' : o \in DOMAIN f /\ objects'[o] = f[o]
<1>. DEFINE Used == {entry', twinHeld'} \cup {held'[d] : d \in Thread}
<1>1. objects' = [o \in DOMAIN f \cap Used |-> f[o]]
  BY DEF Kept
<1>2. entry' \in Used /\ twinHeld' \in Used /\ \A d \in Thread : held'[d] \in Used
  OBVIOUS
<1>. HIDE DEF Used
<1>3. DOMAIN objects' = DOMAIN f \cap Used
  BY <1>1
<1>4. \A o \in DOMAIN objects' : o \in DOMAIN f /\ objects'[o] = f[o]
  BY <1>1, <1>3
<1>5. objects' \in [DOMAIN objects' -> Object]
  BY <1>1, <1>3, <1>4 DEF Heap
<1>. QED
  BY <1>2, <1>3, <1>4, <1>5 DEF Heap

\* Changing a field of an object leaves the others as they are.
LEMMA ObjectChange ==
  ASSUME TypeOK, NEW k \in DOMAIN objects
  PROVE  /\ objects[k] \in Object
         /\ \A r \in Run :
              LET new == [objects EXCEPT ![k].run = r]
              IN  /\ Heap(new) /\ DOMAIN new = DOMAIN objects
                  /\ \A o \in DOMAIN objects : new[o].values = objects[o].values
         /\ \A v \in SUBSET Test :
              LET new == [objects EXCEPT ![k].values = v]
              IN  /\ Heap(new) /\ DOMAIN new = DOMAIN objects
                  /\ \A o \in DOMAIN objects :
                       new[o].values = IF o = k THEN v ELSE objects[o].values
<1>1. objects \in [DOMAIN objects -> Object]
  BY DEF TypeOK, Object
<1>2. objects[k] \in Object
  BY <1>1
<1>3. ASSUME NEW r \in Run
      PROVE  LET x == [objects[k] EXCEPT !.run = r] IN x \in Object /\ x.values = objects[k].values
  BY <1>2 DEF Object
<1>4. ASSUME NEW v \in SUBSET Test
      PROVE  LET x == [objects[k] EXCEPT !.values = v] IN x \in Object /\ x.values = v
  BY <1>2 DEF Object
<1>5. ASSUME NEW x \in Object
      PROVE  LET new == [objects EXCEPT ![k] = x]
             IN  /\ Heap(new) /\ DOMAIN new = DOMAIN objects
                 /\ \A o \in DOMAIN objects : new[o] = IF o = k THEN x ELSE objects[o]
  BY <1>1 DEF Heap
<1>. QED
  BY <1>2, <1>3, <1>4, <1>5

-----------------------------------------------------------------------------
(***************************************************************************)
(* Type correctness.                                                       *)
(***************************************************************************)

\* The device leaves the service alone, and adds to the events.
LEMMA DeviceType == TypeOK /\ DeviceStep => TypeOK'
<1>. SUFFICES ASSUME TypeOK, DeviceStep PROVE TypeOK'
  OBVIOUS
<1>. USE DEF hubVars, serviceVars, listVars, dispatchVars, twinVars
<1>0. ASSUME NEW e \in TwinEvent, sent' = Append(sent, e), received' = received
      PROVE  sent' \in Seq(TwinEvent) /\ received' \in 0..Len(sent')
  <2>1. sent \in Seq(TwinEvent) /\ received \in 0..Len(sent) /\ Len(sent) \in Nat
    BY LenProperties DEF TypeOK
  <2>2. sent' \in Seq(TwinEvent) /\ Len(sent') = Len(sent) + 1
    BY <1>0, <2>1, AppendEvent
  <2>. QED
    BY <1>0, <2>1, <2>2
<1>1. CASE StartRun
  <2>1. run' \in 0..MaxRun /\ run' \in Run
    BY <1>1, PairingAssumption DEF TypeOK, StartRun, Run
  <2>2. ours' \in SUBSET Run /\ index' \in Nat /\ ended' \in BOOLEAN
    BY <1>1, <2>1 DEF TypeOK, StartRun
  <2>. QED
    BY <1>1, <2>1, <2>2 DEF TypeOK, StartRun
<1>2. CASE EndRun
  <2>1. EndEvent(run) \in TwinEvent
    BY <1>2, Events DEF TypeOK, EndRun, Run
  <2>2. sent' \in Seq(TwinEvent) /\ received' \in 0..Len(sent')
    BY <1>0, <1>2, <2>1 DEF EndRun
  <2>. QED
    BY <1>2, <2>2 DEF TypeOK, EndRun
<1>3. ASSUME NEW t \in Test, NameProperty(t) PROVE TypeOK'
  BY <1>3 DEF TypeOK, NameProperty, Becomes
<1>4. ASSUME NEW t \in Test, AddProperty(t) PROVE TypeOK'
  <2>1. index' \in Nat
    BY <1>4 DEF TypeOK, AddProperty
  <2>2. sent' \in Seq(TwinEvent) /\ received' \in 0..Len(sent')
    BY <1>0, <1>4, Events DEF AddProperty
  <2>. QED
    BY <1>4, <2>1, <2>2 DEF TypeOK, AddProperty, Becomes
<1>5. ASSUME NEW t \in Test, RemoveProperty(t) PROVE TypeOK'
  <2>1. sent' \in Seq(TwinEvent) /\ received' \in 0..Len(sent')
    BY <1>0, <1>5, Events DEF RemoveProperty
  <2>. QED
    BY <1>5, <2>1 DEF TypeOK, RemoveProperty, Becomes
<1>. QED
  BY <1>1, <1>2, <1>3, <1>4, <1>5 DEF DeviceStep

LEMMA DispatchType ==
  ASSUME TypeOK, NEW d \in Thread, Dispatch(d) \/ \E r \in Run : DeliverTelemetry(d, r)
  PROVE  TypeOK'
<1>. USE DEF deviceVars, hubVars, twinVars
<1>0. 0 \in 0..MaxRun /\ Run \subseteq 0..MaxRun /\ Heap(objects)
  BY PairingAssumption DEF TypeOK, Run, Heap, Object
<1>1. ASSUME NEW r \in Run, DeliverTelemetry(d, r) PROVE TypeOK'
  <2>1. late' \in 0..MaxLate
    BY <1>1, PairingAssumption DEF TypeOK, DeliverTelemetry, OneLate
  <2>2. Case(r) \in {"idle", "add", "remove", "setRun"} /\ (Case(r) = "setRun" => entry # 0)
    BY DEF Case
  <2>. QED
    BY <1>0, <1>1, <2>1, <2>2 DEF TypeOK, DeliverTelemetry, listVars
<1>2. ASSUME Return(d), NEW f, Heap(f), DOMAIN objects \subseteq DOMAIN f, objects' = Kept(f),
             entry' \in DOMAIN f \cup {0}
      PROVE  TypeOK'
  <2>1. held' \in [Thread -> DOMAIN f \cup {0}] /\ twinHeld' \in DOMAIN f \cup {0}
    BY <1>2 DEF TypeOK, Return
  <2>2. /\ Heap(objects') /\ entry' \in DOMAIN objects' \cup {0}
        /\ twinHeld' \in DOMAIN objects' \cup {0} /\ held' \in [Thread -> DOMAIN objects' \cup {0}]
    BY <1>2, <2>1, KeptObjects
  <2>3. /\ pc' \in [Thread -> {"idle", "add", "remove", "setRun"}]
        /\ from' \in [Thread -> 0..MaxRun]
        /\ \A c \in Thread : /\ pc'[c] # "idle" => from'[c] \in Run
                             /\ pc'[c] = "setRun" => held'[c] # 0
    BY <1>0, <1>2 DEF TypeOK, Return
  <2>. QED
    BY <1>2, <2>2, <2>3 DEF TypeOK, Return, Heap, Object
<1>3. CASE AddDevice(d)
  <2>. DEFINE f == [o \in DOMAIN objects \cup {entry'} |->
                    IF o = entry' THEN [run |-> from[d], values |-> {}] ELSE objects[o]]
  <2>1. from[d] \in Run
    BY <1>3 DEF TypeOK, AddDevice
  <2>2. Heap(f) /\ DOMAIN f = DOMAIN objects \cup {entry'}
    BY <1>0, <2>1 DEF Heap, Object
  <2>3. Return(d) /\ objects' = Kept(f)
    BY <1>3 DEF AddDevice
  <2>. HIDE DEF f
  <2>. QED
    BY <1>2, <2>2, <2>3
<1>4. CASE RemoveDevice(d)
  BY <1>0, <1>2, <1>4 DEF RemoveDevice
<1>5. CASE SetRun(d)
  <2>. DEFINE f == [objects EXCEPT ![held[d]].run = NewRun(d)]
  <2>1. held[d] \in DOMAIN objects /\ NewRun(d) \in Run
    BY <1>5 DEF TypeOK, SetRun, NewRun
  <2>2. Heap(f) /\ DOMAIN f = DOMAIN objects
    BY <2>1, ObjectChange
  <2>3. Return(d) /\ objects' = Kept(f) /\ entry' \in DOMAIN objects \cup {0}
    BY <1>5 DEF TypeOK, SetRun
  <2>. HIDE DEF f
  <2>. QED
    BY <1>2, <2>2, <2>3
<1>. QED
  BY <1>1, <1>3, <1>4, <1>5 DEF Dispatch

LEMMA TwinType ==
  TypeOK /\ (TwinStep \/ \E i \in 1..Len(sent) : DispatchTwinChange(i)) => TypeOK'
<1>. SUFFICES ASSUME TypeOK, TwinStep \/ \E i \in 1..Len(sent) : DispatchTwinChange(i)
              PROVE  TypeOK'
  OBVIOUS
<1>. USE DEF deviceVars, hubVars, listVars, dispatchVars, twinVars
<1>0. Heap(objects)
  BY DEF TypeOK, Heap, Object
<1>1. ASSUME NEW i \in 1..Len(sent), DispatchTwinChange(i) PROVE TypeOK'
  <2>1. late' \in 0..MaxLate /\ received' \in 0..Len(sent')
    BY <1>1, PairingAssumption DEF TypeOK, DispatchTwinChange, OneLate
  <2>2. twinQueue' \in Seq(TwinEvent)
    <3>1. sent[i] \in TwinEvent
      BY ElementOfSeq DEF TypeOK
    <3>. QED
      BY <1>1, <3>1, AppendEvent DEF TypeOK, DispatchTwinChange
  <2>. QED
    BY <1>1, <2>1, <2>2 DEF TypeOK, DispatchTwinChange
<1>2. CASE GetTwinChange
  <2>1. Head(twinQueue) \in TwinEvent /\ Tail(twinQueue) \in Seq(TwinEvent)
    BY <1>2, TakeEvent DEF TypeOK, GetTwinChange
  <2>2. /\ entry' \in DOMAIN objects \cup {0} /\ twinHeld' \in DOMAIN objects \cup {0}
        /\ held' \in [Thread -> DOMAIN objects \cup {0}] /\ objects' = Kept(objects)
    BY <1>2 DEF TypeOK, GetTwinChange
  <2>3. /\ Heap(objects') /\ entry' \in DOMAIN objects' \cup {0}
        /\ twinHeld' \in DOMAIN objects' \cup {0} /\ held' \in [Thread -> DOMAIN objects' \cup {0}]
    BY <1>0, <2>2, KeptObjects
  <2>4. /\ twinEvent' \in TwinEvent \cup {NoEvent}
        /\ twinEvent' # NoEvent => twinEvent'[1] # "end" /\ twinHeld' # 0
    BY <1>2, <2>1 DEF TypeOK, GetTwinChange
  <2>. QED
    BY <1>2, <2>1, <2>3, <2>4 DEF TypeOK, GetTwinChange, Heap, Object
<1>3. CASE Respond
  <2>1. twinHeld \in DOMAIN objects /\ twinEvent[2] \in Test
    BY <1>3, TestEvent DEF TypeOK, Respond
  <2>2. objects[twinHeld].values \subseteq Test
    BY <2>1, ObjectChange DEF Object
  <2>3. PICK v \in SUBSET Test : objects' = Kept([objects EXCEPT ![twinHeld].values = v])
    BY <1>3, <2>1, <2>2 DEF Respond
  <2>. DEFINE f == [objects EXCEPT ![twinHeld].values = v]
  <2>4. Heap(f) /\ DOMAIN f = DOMAIN objects
    BY <2>1, ObjectChange
  <2>. HIDE DEF f
  <2>5. /\ entry' \in DOMAIN objects \cup {0} /\ twinHeld' \in DOMAIN objects \cup {0}
        /\ held' \in [Thread -> DOMAIN objects \cup {0}]
    BY <1>3 DEF TypeOK, Respond
  <2>6. /\ Heap(objects') /\ entry' \in DOMAIN objects' \cup {0}
        /\ twinHeld' \in DOMAIN objects' \cup {0} /\ held' \in [Thread -> DOMAIN objects' \cup {0}]
    BY <2>3, <2>4, <2>5, KeptObjects DEF f
  <2>7. answers' \in SUBSET Operation
    <3>1. Remembered(twinEvent[2]) \subseteq Test
      BY <2>2 DEF Remembered
    <3>. QED
      BY <1>3, <2>1, <3>1, Events DEF TypeOK, Respond, AnswerAdded
  <2>. QED
    BY <1>3, <2>6, <2>7 DEF TypeOK, Respond, Heap, Object
<1>. QED
  BY <1>1, <1>2, <1>3 DEF TwinStep

LEMMA NextType == TypeOK /\ [Next]_vars => TypeOK'
<1>. SUFFICES ASSUME TypeOK, [Next]_vars PROVE TypeOK'
  OBVIOUS
<1>1. CASE UNCHANGED vars
  BY <1>1 DEF TypeOK, vars, deviceVars, hubVars, serviceVars, listVars, dispatchVars, twinVars
<1>. QED
  BY <1>1, DeviceType, DispatchType, TwinType DEF Next

-----------------------------------------------------------------------------
(***************************************************************************)
(* Causes.                                                                 *)
(***************************************************************************)

\* Whatever the service does, what the device has caused stays.
LEMMA ServiceCauses ==
  ASSUME CausesAreNamed, UNCHANGED <<name, phase, run, sent>>
  PROVE  CausesAreNamed' /\ \A t \in Test : NameRemoved(t) => NameRemoved(t)'
BY DEF CausesAreNamed, NameRemoved

\* A step of the device adds events; a test that has caused one keeps its name.
LEMMA DeviceCauses ==
  ASSUME IInv, DeviceStep
  PROVE  /\ CausesAreNamed' /\ Range(sent) \subseteq Range(sent')
         /\ \A t \in Test : NameRemoved(t) /\ AddEvent(t) \in Range(sent) => NameRemoved(t)'
<1>. DEFINE Goal ==
       /\ CausesAreNamed' /\ Range(sent) \subseteq Range(sent')
       /\ \A t \in Test : NameRemoved(t) /\ AddEvent(t) \in Range(sent) => NameRemoved(t)'
<1>0. /\ sent \in Seq(TwinEvent) /\ run \in Nat /\ RunOf \in [Test -> Run]
      /\ phase \in [Test -> {"new", "named", "adding", "removing"}] /\ name \in [Test -> Nat]
      /\ CausesAreNamed
  BY PairingAssumption DEF IInv, TypeOK
<1>1. CASE StartRun
  <2>1. UNCHANGED <<name, phase, sent>> /\ run' = run + 1
    BY <1>1 DEF StartRun, hubVars
  <2>2. \A t \in Test : RunOf[t] \in Nat
    BY <1>0 DEF Run
  <2>. QED
    BY <1>0, <2>1, <2>2 DEF CausesAreNamed, NameRemoved
<1>2. CASE EndRun
  <2>1. EndEvent(run) \in TwinEvent /\ run \in Run
    BY <1>2, Events DEF EndRun, Run, IInv, TypeOK
  <2>2. Range(sent') = Range(sent) \cup {EndEvent(run)} /\ UNCHANGED <<name, phase, run>>
    BY <1>0, <1>2, <2>1, AppendEvent DEF EndRun
  <2>. QED
    BY <1>0, <2>1, <2>2, Distinct DEF CausesAreNamed, NameRemoved
<1>3. ASSUME NEW t \in Test, NameProperty(t) PROVE Goal
  <2>1. /\ phase[t] = "new" /\ phase' = [phase EXCEPT ![t] = "named"] /\ RunOf[t] = run
        /\ name' = [name EXCEPT ![t] = index] /\ UNCHANGED <<sent, run>>
    BY <1>3 DEF NameProperty, Becomes, Running, hubVars
  <2>2. AddEvent(t) \notin Range(sent) /\ NullEvent(t) \notin Range(sent)
    BY <1>0, <2>1 DEF CausesAreNamed
  <2>3. CausesAreNamed'
    BY <1>0, <2>1, <2>2 DEF CausesAreNamed
  <2>4. ASSUME NEW u \in Test, NameRemoved(u), AddEvent(u) \in Range(sent) PROVE NameRemoved(u)'
    BY <1>0, <2>1, <2>2, <2>4 DEF NameRemoved
  <2>. QED
    BY <2>1, <2>3, <2>4
<1>4. ASSUME NEW t \in Test, AddProperty(t) PROVE Goal
  <2>1. /\ phase[t] = "named" /\ phase' = [phase EXCEPT ![t] = "adding"] /\ RunOf[t] = run
        /\ UNCHANGED <<name, run>> /\ sent' = Append(sent, AddEvent(t))
    BY <1>4 DEF AddProperty, Becomes, Running
  <2>2. Range(sent') = Range(sent) \cup {AddEvent(t)}
    BY <1>0, <2>1, AppendEvent, Events
  <2>. QED
    BY <1>0, <2>1, <2>2, Distinct DEF CausesAreNamed, NameRemoved
<1>5. ASSUME NEW t \in Test, RemoveProperty(t) PROVE Goal
  <2>1. /\ phase[t] = "adding" /\ phase' = [phase EXCEPT ![t] = "removing"] /\ RunOf[t] = run
        /\ UNCHANGED <<name, run>> /\ sent' = Append(sent, NullEvent(t))
    BY <1>5 DEF RemoveProperty, Becomes, Running
  <2>2. Range(sent') = Range(sent) \cup {NullEvent(t)}
    BY <1>0, <2>1, AppendEvent, Events
  <2>. QED
    BY <1>0, <2>1, <2>2, Distinct DEF CausesAreNamed, NameRemoved
<1>. QED
  BY <1>1, <1>2, <1>3, <1>4, <1>5 DEF DeviceStep

\* More causes, and no more verdicts.
LEMMA CausesKeepVerdicts ==
  ASSUME IInv, Range(sent) \subseteq Range(sent'), answers' = answers,
         \A t \in Test : NameRemoved(t) /\ AddEvent(t) \in Range(sent) => NameRemoved(t)'
  PROVE  VerdictsHaveCauses'
BY DEF IInv, VerdictsHaveCauses

LEMMA CausesKeepMemories ==
  ASSUME IInv, Range(sent) \subseteq Range(sent'), UNCHANGED <<twinQueue, twinEvent, objects>>
  PROVE  EventsWereSent' /\ MemoriesWereSent'
BY DEF IInv, EventsWereSent, MemoriesWereSent

\* The objects that are kept, and a new one that remembers nothing.
LEMMA FewerMemories ==
  ASSUME IInv, UNCHANGED sent,
         \A o \in DOMAIN objects' :
           \/ o \in DOMAIN objects /\ objects'[o].values = objects[o].values
           \/ objects'[o].values = {}
  PROVE  MemoriesWereSent'
BY DEF IInv, MemoriesWereSent

LEMMA DispatchCauses ==
  ASSUME IInv, NEW d \in Thread, Dispatch(d) \/ \E r \in Run : DeliverTelemetry(d, r)
  PROVE  CausesAreNamed' /\ EventsWereSent' /\ MemoriesWereSent' /\ VerdictsHaveCauses'
<1>1. UNCHANGED <<name, phase, run, sent, twinQueue, twinEvent, answers>>
  BY DEF Dispatch, AddDevice, RemoveDevice, SetRun, Return, DeliverTelemetry, deviceVars, hubVars,
         twinVars
<1>2. CausesAreNamed' /\ VerdictsHaveCauses'
  BY <1>1, ServiceCauses, CausesKeepVerdicts DEF IInv
<1>3. EventsWereSent'
  BY <1>1 DEF IInv, EventsWereSent
<1>4. MemoriesWereSent'
  <2>1. CASE AddDevice(d)
    <3>1. \A o \in DOMAIN objects' :
            \/ o \in DOMAIN objects /\ objects'[o] = objects[o]
            \/ objects'[o] = [run |-> from[d], values |-> {}]
      BY <2>1 DEF AddDevice, Kept
    <3>. QED
      BY <1>1, <3>1, FewerMemories
  <2>2. CASE RemoveDevice(d)
    <3>1. \A o \in DOMAIN objects' : o \in DOMAIN objects /\ objects'[o] = objects[o]
      BY <2>2 DEF RemoveDevice, Kept
    <3>. QED
      BY <1>1, <3>1, FewerMemories
  <2>3. CASE SetRun(d)
    <3>. DEFINE f == [objects EXCEPT ![held[d]].run = NewRun(d)]
    <3>1. held[d] \in DOMAIN objects /\ NewRun(d) \in Run
      BY <2>3 DEF SetRun, NewRun, IInv, TypeOK
    <3>2. DOMAIN f = DOMAIN objects /\ \A o \in DOMAIN objects : f[o].values = objects[o].values
      BY <3>1, ObjectChange DEF IInv
    <3>3. objects' = Kept(f)
      BY <2>3 DEF SetRun
    <3>. HIDE DEF f
    <3>4. \A o \in DOMAIN objects' : o \in DOMAIN f /\ objects'[o] = f[o]
      BY <3>3 DEF Kept
    <3>. QED
      BY <1>1, <3>2, <3>4, FewerMemories
  <2>4. CASE UNCHANGED objects
    BY <1>1, <2>4, CausesKeepMemories
  <2>. QED
    BY <2>1, <2>2, <2>3, <2>4 DEF Dispatch, DeliverTelemetry, listVars
<1>. QED
  BY <1>2, <1>3, <1>4

LEMMA QueueCauses ==
  ASSUME IInv, (\E i \in 1..Len(sent) : DispatchTwinChange(i)) \/ GetTwinChange
  PROVE  CausesAreNamed' /\ EventsWereSent' /\ MemoriesWereSent' /\ VerdictsHaveCauses'
<1>0. twinQueue \in Seq(TwinEvent) /\ sent \in Seq(TwinEvent) /\ EventsWereSent
  BY DEF IInv, TypeOK
<1>1. UNCHANGED <<name, phase, run, sent, answers>>
  BY DEF DispatchTwinChange, GetTwinChange, deviceVars, hubVars
<1>2. CausesAreNamed' /\ VerdictsHaveCauses'
  BY <1>1, ServiceCauses, CausesKeepVerdicts DEF IInv
<1>3. ASSUME NEW i \in 1..Len(sent), DispatchTwinChange(i) PROVE EventsWereSent' /\ MemoriesWereSent'
  <2>1. sent[i] \in TwinEvent /\ sent[i] \in Range(sent)
    BY <1>0, ElementOfSeq, RangeEquality
  <2>2. twinQueue' \in {twinQueue, Append(twinQueue, sent[i])} /\ UNCHANGED <<twinEvent, objects>>
    BY <1>3 DEF DispatchTwinChange, twinVars, listVars
  <2>3. Range(twinQueue') \subseteq Range(twinQueue) \cup {sent[i]}
    BY <1>0, <2>1, <2>2, AppendEvent
  <2>4. MemoriesWereSent'
    BY <1>1, <2>2, FewerMemories
  <2>. QED
    BY <1>0, <1>1, <2>1, <2>2, <2>3, <2>4 DEF EventsWereSent
<1>4. ASSUME GetTwinChange PROVE EventsWereSent' /\ MemoriesWereSent'
  <2>1. /\ twinQueue # <<>> /\ twinQueue' = Tail(twinQueue)
        /\ twinEvent' \in {twinEvent, Head(twinQueue)} /\ objects' = Kept(objects)
    BY <1>4 DEF GetTwinChange, twinVars
  <2>2. Head(twinQueue) \in Range(twinQueue) /\ Range(twinQueue') \subseteq Range(twinQueue)
    BY <1>0, <2>1, TakeEvent
  <2>3. \A o \in DOMAIN objects' : o \in DOMAIN objects /\ objects'[o] = objects[o]
    BY <2>1 DEF Kept
  <2>4. MemoriesWereSent'
    BY <1>1, <2>3, FewerMemories
  <2>5. EventsWereSent'
    BY <1>0, <1>1, <2>1, <2>2 DEF EventsWereSent
  <2>. QED
    BY <2>4, <2>5
<1>5. EventsWereSent' /\ MemoriesWereSent'
  BY <1>3, <1>4
<1>. QED
  BY <1>2, <1>5

LEMMA RespondCauses ==
  ASSUME IInv, Respond
  PROVE  CausesAreNamed' /\ EventsWereSent' /\ MemoriesWereSent' /\ VerdictsHaveCauses'
<1>. DEFINE t == twinEvent[2]
            seen == Remembered(t)
<1>0. UNCHANGED <<name, phase, run, sent, twinQueue>> /\ twinEvent' = NoEvent
  BY DEF Respond, deviceVars, hubVars
<1>1. /\ t \in Test /\ twinEvent \in Range(sent) /\ twinHeld \in DOMAIN objects
      /\ twinEvent = AddEvent(t) \/ twinEvent = NullEvent(t)
  BY TestEvent DEF Respond, IInv, TypeOK, EventsWereSent
<1>2. /\ objects[twinHeld] \in Object
      /\ \A u \in objects[twinHeld].values : u \in Test /\ AddEvent(u) \in Range(sent)
  BY <1>1, ObjectChange DEF Object, IInv, MemoriesWereSent
<1>3. \A u \in seen : u \in Test /\ AddEvent(u) \in Range(sent) /\ name[u] = name[t]
  BY <1>2 DEF Remembered
<1>4. CausesAreNamed' /\ EventsWereSent' /\ \A u \in Test : NameRemoved(u) => NameRemoved(u)'
  BY <1>0, ServiceCauses DEF IInv, EventsWereSent
<1>. HIDE DEF seen
<1>5. MemoriesWereSent'
  <2>1. PICK v \in SUBSET Test : /\ objects' = Kept([objects EXCEPT ![twinHeld].values = v])
                                 /\ \A u \in v : AddEvent(u) \in Range(sent)
    BY <1>1, <1>2 DEF Respond, seen
  <2>. DEFINE f == [objects EXCEPT ![twinHeld].values = v]
  <2>2. /\ DOMAIN f = DOMAIN objects
        /\ \A o \in DOMAIN objects : f[o].values = IF o = twinHeld THEN v ELSE objects[o].values
    BY <1>1, ObjectChange DEF IInv
  <2>3. objects' = Kept(f)
    BY <2>1
  <2>. HIDE DEF f
  <2>4. \A o \in DOMAIN objects' : o \in DOMAIN f /\ objects'[o] = f[o]
    BY <2>3 DEF Kept
  <2>. QED
    BY <1>0, <2>1, <2>2, <2>4 DEF IInv, MemoriesWereSent
<1>6. VerdictsHaveCauses'
  <2>1. CASE twinEvent = AddEvent(t)
    <3>1. answers' = answers \cup {AddOp(t)}
      BY <2>1 DEF Respond, AnswerAdded
    <3>2. /\ \A u \in Test : AddOp(u) \in answers' => AddOp(u) \in answers \/ u = t
          /\ \A u \in Test : RemoveOp(u) \in answers' => RemoveOp(u) \in answers
      BY <3>1 DEF AddOp, RemoveOp
    <3>3. AddEvent(t) \in Range(sent)
      BY <1>1, <2>1
    <3>. QED
      BY <1>0, <1>4, <3>2, <3>3 DEF IInv, VerdictsHaveCauses
  <2>2. CASE twinEvent = NullEvent(t)
    <3>1. answers' = answers \cup {RemoveOp(u) : u \in seen}
      BY <1>1, <2>2, Distinct DEF Respond, seen
    <3>2. ASSUME NEW u \in seen PROVE AddEvent(u) \in Range(sent) /\ NameRemoved(u)
      BY <1>1, <1>3, <2>2, <3>2 DEF NameRemoved
    <3>3. \A u \in Test : RemoveOp(u) \in answers' => RemoveOp(u) \in answers \/ u \in seen
      BY <3>1 DEF RemoveOp
    <3>4. \A u \in Test : AddOp(u) \in answers' => AddOp(u) \in answers
      BY <1>3, <3>1, Distinct
    <3>. QED
      BY <1>0, <1>4, <3>2, <3>3, <3>4 DEF IInv, VerdictsHaveCauses
  <2>. QED
    BY <1>1, <2>1, <2>2
<1>. QED
  BY <1>4, <1>5, <1>6

LEMMA NextInv == IInv /\ [Next]_vars => IInv'
<1>. SUFFICES ASSUME IInv, [Next]_vars
              PROVE  CausesAreNamed' /\ EventsWereSent' /\ MemoriesWereSent' /\ VerdictsHaveCauses'
  BY NextType DEF IInv
<1>1. CASE DeviceStep
  <2>1. UNCHANGED <<twinQueue, twinEvent, objects, answers>>
    BY <1>1 DEF DeviceStep, StartRun, EndRun, NameProperty, AddProperty, RemoveProperty, serviceVars,
           listVars, twinVars
  <2>. QED
    BY <1>1, <2>1, DeviceCauses, CausesKeepVerdicts, CausesKeepMemories
<1>2. CASE UNCHANGED vars
  <2>1. UNCHANGED <<name, phase, run, sent, twinQueue, twinEvent, objects, answers>>
    BY <1>2 DEF vars, deviceVars, hubVars, serviceVars, listVars, twinVars
  <2>. QED
    BY <2>1, ServiceCauses, CausesKeepVerdicts, CausesKeepMemories DEF IInv
<1>. QED
  <2>1. ASSUME NEW d \in Thread, Dispatch(d) \/ \E r \in Run : DeliverTelemetry(d, r)
        PROVE  CausesAreNamed' /\ EventsWereSent' /\ MemoriesWereSent' /\ VerdictsHaveCauses'
    BY <2>1, DispatchCauses
  <2>2. CASE (\E i \in 1..Len(sent) : DispatchTwinChange(i)) \/ GetTwinChange
    BY <2>2, QueueCauses
  <2>3. CASE Respond
    BY <2>3, RespondCauses
  <2>. QED
    BY <1>1, <1>2, <2>1, <2>2, <2>3 DEF Next, TwinStep

-----------------------------------------------------------------------------
(***************************************************************************)
(* The theorems.                                                           *)
(***************************************************************************)

\* The type invariant.
THEOREM TypeCorrect == Spec => []TypeOK
<1>. IInv => TypeOK
  BY DEF IInv
<1>. QED
  BY InitInv, NextInv, PTL DEF Spec

\* Whenever the device may take an answer for the addition of a test's property, it has
\* added it; whenever it may take one for the removal, it has added that property and
\* then removed one of that name in this run or an earlier one, however the service's
\* threads race and events repeat (service.py:695-741, device.py:707-726).
THEOREM VerdictsAreEarned == Spec => []AcksAreEarned
<1>1. IInv => AcksAreEarned
  <2>. SUFFICES ASSUME IInv, NEW t \in Test
                PROVE  /\ Accepts(AddOp(t)) => AddEvent(t) \in Range(sent)
                       /\ Accepts(RemoveOp(t)) => AddEvent(t) \in Range(sent) /\ Removed(t)
    BY DEF AcksAreEarned
  <2>1. Accepts(AddOp(t)) => AddEvent(t) \in Range(sent)
    BY DEF Accepts, IInv, VerdictsHaveCauses
  <2>2. ASSUME Accepts(RemoveOp(t)) PROVE AddEvent(t) \in Range(sent) /\ Removed(t)
    <3>1. AddEvent(t) \in Range(sent) /\ RunOf[t] = run
      BY <2>2 DEF Accepts, Running, RemoveOp, IInv, VerdictsHaveCauses
    <3>2. PICK u \in Test : name[u] = name[t] /\ NullEvent(u) \in Range(sent)
      BY <2>2 DEF Accepts, IInv, VerdictsHaveCauses, NameRemoved
    <3>3. RunOf[u] <= run
      BY <3>2 DEF IInv, CausesAreNamed
    <3>. QED
      BY <3>1, <3>2, <3>3 DEF Removed
  <2>. QED
    BY <2>1, <2>2
<1>. QED
  BY <1>1, InitInv, NextInv, PTL DEF Spec
=============================================================================
