----------------------------- MODULE IotHubProofs -----------------------------
(***************************************************************************)
(* Proofs about IotHub, for any number of calls of InitializeAsync, of     *)
(* clients, of messages and of failures.  The type invariant is taken      *)
(* along with two others: one of the clients, which only InitializeAsync,  *)
(* the status handler and Dispose change, and one of the messages, which   *)
(* only the pump and the monitor do.                                       *)
(***************************************************************************)
EXTENDS IotHub, SequenceTheorems, TLAPS

\* The calls that hold the semaphore.
Holds(k) == initPc[k] \in InitPlace \ {"none", "wait", "raised", "done"}

MutualExclusion ==
  \A k \in Task : Holds(k) => lifetimeControl # 1 /\ \A l \in Task : Holds(l) => l = k

\* Once Dispose has begun no call takes the semaphore any more.
NoSemaphoreLeft == disposePc # "none" => lifetimeControl = -1

\* A call that has the old client before it finds no other alive; one that has it
\* behind it finds none.
OldIsInUse == \A k \in Task : initPc[k] \in {"test", "dispose"} => Live \subseteq {client}

NoneBeforeCreate == \A k \in Task : initPc[k] \in {"null", "clear", "create"} => Live = {}

\* Dispose that is about to set _deviceClient to null has disposed of the client that
\* a call may still have before it: only one created after that is let go of alive.
DisposedFirst ==
  disposePc = "null" => \A k \in Task : initPc[k] \in {"test", "dispose"} => Live = {}

\* What is not in the queue any more is all that may be pending or sent: messages are
\* numbered in the order of the queue.
QueueInOrder ==
  /\ Len(backlog) <= added
  /\ \A i \in DOMAIN backlog : backlog[i] = added - Len(backlog) + i

TakenInOrder ==
  /\ pending # 0 => pending = added - Len(backlog)
  /\ pumpPc = "send" => pending # 0
  /\ \A i \in DOMAIN sent : sent[i] <= added - Len(backlog)

ClientInv ==
  /\ MutualExclusion /\ NoSemaphoreLeft
  /\ OldIsInUse /\ NoneBeforeCreate /\ DisposedFirst /\ OneLiveClient

MessageInv == QueueInOrder /\ TakenInOrder /\ SentInOrder /\ NothingLost

IInv == TypeOK /\ ClientInv /\ MessageInv

ClientTypes ==
  /\ lifetimeControl \in {-1, 0, 1}
  /\ initPc \in [Task -> InitPlace] /\ disposePc \in DisposePlace
  /\ clients \in Seq(ClientState)
  /\ client \in Client \cup {0} /\ everUp \in SUBSET Client /\ reopen \in SUBSET Client
  /\ status \in {"Disconnected", "Disconnected_Retrying", "Connected"}
  /\ wasEverConnected \in BOOLEAN

MessageTypes ==
  /\ backlog \in Seq(1..added) /\ sent \in Seq(1..added) /\ pending \in 0..added
  /\ pumpPc \in {"new", "loop", "delay", "check", "send", "exited"}
  /\ monitorPc \in {"new", "properties", "loop", "delay", "add", "exited"}
  /\ errorCount \in Nat /\ added \in 0..MaxMessages /\ failures \in 0..MaxFailures
  /\ cancelled \in BOOLEAN

-----------------------------------------------------------------------------
(***************************************************************************)
(* The parts of the state and the steps that change them.                  *)
(***************************************************************************)

LEMMA TypesAreTwo == TypeOK <=> ClientTypes /\ MessageTypes
BY DEF TypeOK, ClientTypes, MessageTypes

DisposeStep == Dispose \/ DisposeTests \/ DisposeResets

ClientStep ==
  (\E k \in Task : Initialize(k)) \/ (\E c \in Client : Hub(c)) \/ DisposeStep

MessageStep ==
  \/ Pump \/ Start \/ SetProperties \/ SetPropertiesFails \/ MonitorLoop
  \/ AddTelemetry \/ AddTelemetryFails \/ Cancel

\* Every step is of one of the two parts, and leaves the other alone.
LEMMA StepsAreSplit ==
  ASSUME Next
  PROVE  \/ ClientStep /\ UNCHANGED Others
         \/ MessageStep /\ UNCHANGED <<initVars, clientVars>>
<1>1. ASSUME NEW k \in Task, Initialize(k) PROVE ClientStep /\ UNCHANGED Others
  BY <1>1 DEF ClientStep, Initialize, Acquire, TestClient, ResetClient, CreateClient,
              OpenClient, Opened, Release, WaitRaises
<1>2. ASSUME NEW c \in Client, Hub(c) PROVE ClientStep /\ UNCHANGED Others
  BY <1>2 DEF ClientStep, Hub, Connected, Retrying, RetryExpired, Refused, GivesUp
<1>3. ASSUME DisposeStep PROVE ClientStep /\ UNCHANGED Others
  BY <1>3 DEF ClientStep, DisposeStep, Dispose, DisposeTests, DisposeResets
<1>4. ASSUME Pump PROVE MessageStep /\ UNCHANGED <<initVars, clientVars>>
  BY <1>4 DEF MessageStep, Pump, PumpLoop, PumpDelayed, TakeMessage, Send, SendEvent,
              SendFails, PumpGoto
<1>5. ASSUME Start \/ Cancel PROVE MessageStep /\ UNCHANGED <<initVars, clientVars>>
  BY <1>5 DEF MessageStep, Start, Cancel
<1>6. ASSUME SetProperties \/ SetPropertiesFails \/ MonitorLoop \/ AddTelemetry \/ AddTelemetryFails
      PROVE  MessageStep /\ UNCHANGED <<initVars, clientVars>>
  BY <1>6 DEF MessageStep, SetProperties, SetPropertiesFails, MonitorLoop, AddTelemetry,
              AddTelemetryFails, MonitorGoto
<1>. QED
  BY <1>1, <1>2, <1>3, <1>4, <1>5, <1>6 DEF Next, DisposeStep

-----------------------------------------------------------------------------
(***************************************************************************)
(* The clients.                                                            *)
(***************************************************************************)

LEMMA InitClients == Init => ClientTypes /\ ClientInv
<1>. SUFFICES ASSUME Init PROVE ClientTypes /\ ClientInv
  OBVIOUS
<1>1. clients = <<>> /\ Len(clients) = 0 /\ Client = {} /\ Live = {}
  BY DEF Init, Client, Live
<1>2. ClientTypes
  <2>1. /\ lifetimeControl = 1 /\ client = 0 /\ everUp = {} /\ reopen = {}
        /\ status = "Disconnected" /\ wasEverConnected = FALSE /\ disposePc = "none"
    BY DEF Init
  <2>2. clients \in Seq(ClientState)
    BY <1>1
  <2>3. initPc \in [Task -> InitPlace]
    BY DEF Init, InitPlace
  <2>. QED
    BY <2>1, <2>2, <2>3 DEF ClientTypes, DisposePlace
<1>3. MutualExclusion /\ NoSemaphoreLeft
  BY HubAssumption DEF Init, MutualExclusion, Holds, InitPlace, NoSemaphoreLeft
<1>4. OldIsInUse /\ NoneBeforeCreate /\ DisposedFirst /\ OneLiveClient
  BY <1>1 DEF OldIsInUse, NoneBeforeCreate, DisposedFirst, OneLiveClient
<1>. QED
  BY <1>2, <1>3, <1>4 DEF ClientInv

\* A client in another state: the clients are as many as before.
LEMMA ChangedClient ==
  ASSUME ClientTypes, NEW c \in Client, NEW st \in ClientState,
         clients' = [clients EXCEPT ![c] = st]
  PROVE  /\ clients' \in Seq(ClientState) /\ Client' = Client
         /\ \A d \in Client : clients'[d] = IF d = c THEN st ELSE clients[d]
<1>1. DOMAIN clients' = DOMAIN clients /\ Len(clients') = Len(clients)
  BY ExceptSeq DEF ClientTypes, Client
<1>. QED
  BY <1>1, ExceptSeq DEF ClientTypes, Client

\* _deviceClient is disposed of if there is one.
LEMMA ClientDisposed ==
  ASSUME ClientTypes, clients' = Disposed, client' = client
  PROVE  /\ clients' \in Seq(ClientState) /\ Client' = Client /\ Live' = Live \ {client}
<1>1. CASE client = 0
  <2>1. clients' = clients /\ 0 \notin Client
    BY <1>1 DEF Disposed, Client
  <2>. QED
    BY <1>1, <2>1 DEF ClientTypes, Client, Live
<1>2. CASE client # 0
  <2>1. client \in Client /\ clients' = [clients EXCEPT ![client] = "disposed"]
    BY <1>2 DEF ClientTypes, Disposed
  <2>2. /\ clients' \in Seq(ClientState) /\ Client' = Client
        /\ \A d \in Client : clients'[d] = IF d = client THEN "disposed" ELSE clients[d]
    BY <2>1, ChangedClient DEF ClientState
  <2>. QED
    BY <2>1, <2>2 DEF Live
<1>. QED
  BY <1>1, <1>2

\* The status handler: a client that is alive has another state.
LEMMA BecomesKeeps ==
  ASSUME ClientTypes, NEW c, NEW from, NEW st, Becomes(c, from, st),
         from \subseteq {"opening", "connected", "retrying"},
         st \in {"connected", "retrying", "down"}
  PROVE  clients' \in Seq(ClientState) /\ c \in Client /\ Client' = Client /\ Live' = Live
<1>1. c \in Client /\ clients[c] # "disposed" /\ clients' = [clients EXCEPT ![c] = st]
  BY DEF Becomes
<1>2. /\ clients' \in Seq(ClientState) /\ Client' = Client
      /\ \A d \in Client : clients'[d] = IF d = c THEN st ELSE clients[d]
  <2>1. st \in ClientState
    BY DEF ClientState
  <2>. QED
    BY <1>1, <2>1, ChangedClient
<1>. QED
  BY <1>1, <1>2 DEF Live

LEMMA HubKeepsClients ==
  ASSUME ClientTypes, ClientInv, NEW c \in Client, Hub(c)
  PROVE  ClientTypes' /\ ClientInv'
<1>1. clients' \in Seq(ClientState) /\ Client' = Client /\ Live' = Live
  BY BecomesKeeps DEF Hub, Connected, Retrying, RetryExpired, Refused, GivesUp
<1>2. UNCHANGED <<lifetimeControl, disposePc, client>>
  BY DEF Hub, Connected, Retrying, RetryExpired, Refused, GivesUp, initVars
<1>3. \/ initPc' = initPc
      \/ \E k \in Task : initPc[k] = "none" /\ initPc' = [initPc EXCEPT ![k] = "wait"]
  BY DEF Hub, Connected, Retrying, RetryExpired, Refused, Reinitialize, Goto, initVars
<1>4. /\ initPc' \in [Task -> InitPlace]
      /\ \A k \in Task : initPc'[k] = initPc[k] \/ initPc'[k] = "wait"
  BY <1>3 DEF ClientTypes, InitPlace
<1>5. ClientTypes'
  BY <1>1, <1>2, <1>4 DEF ClientTypes, Hub, Connected, Retrying, RetryExpired, Refused, GivesUp
<1>6. MutualExclusion' /\ NoSemaphoreLeft'
  BY <1>2, <1>4 DEF ClientInv, MutualExclusion, Holds, NoSemaphoreLeft
<1>7. OldIsInUse' /\ NoneBeforeCreate' /\ DisposedFirst' /\ OneLiveClient'
  BY <1>1, <1>2, <1>4 DEF ClientInv, OldIsInUse, NoneBeforeCreate, DisposedFirst, OneLiveClient
<1>. QED
  BY <1>5, <1>6, <1>7 DEF ClientInv

\* InitializeAsync: what a call does that holds the semaphore, no other does.
LEMMA CallMoves ==
  ASSUME ClientTypes, NEW k \in Task, NEW pc \in InitPlace, Goto(k, pc)
  PROVE  /\ initPc' \in [Task -> InitPlace]
         /\ initPc'[k] = pc /\ \A l \in Task : l # k => initPc'[l] = initPc[l]
BY DEF ClientTypes, Goto

\* A call that holds the semaphore and goes on, keeping it.
LEMMA HolderMoves ==
  ASSUME ClientTypes, ClientInv, NEW k \in Task, NEW pc \in InitPlace, Holds(k), Goto(k, pc),
         UNCHANGED <<lifetimeControl, disposePc>>
  PROVE  /\ initPc' \in [Task -> InitPlace] /\ MutualExclusion' /\ NoSemaphoreLeft'
         /\ initPc'[k] = pc /\ \A l \in Task : l # k => initPc'[l] = initPc[l] /\ ~Holds(l)
<1>1. /\ initPc' \in [Task -> InitPlace]
      /\ initPc'[k] = pc /\ \A l \in Task : l # k => initPc'[l] = initPc[l]
  BY CallMoves
<1>2. \A l \in Task : l # k => ~Holds(l)
  BY DEF ClientInv, MutualExclusion
<1>. QED
  BY <1>1, <1>2 DEF ClientInv, MutualExclusion, Holds, NoSemaphoreLeft

\* A call that moves and touches no client, to a place that asks for nothing new.
LEMMA ClientsLeft ==
  ASSUME ClientTypes, ClientInv, UNCHANGED <<clientVars, disposePc>>,
         lifetimeControl' \in {-1, 0, 1}, initPc' \in [Task -> InitPlace],
         MutualExclusion', NoSemaphoreLeft',
         \A k \in Task : \/ initPc'[k] \in {initPc[k], "none", "wait", "open", "release",
                                            "raise", "raised", "done"}
                         \/ initPc[k] = "test" /\ initPc'[k] = "dispose"
  PROVE  ClientTypes' /\ ClientInv'
<1>1. ClientTypes' /\ Live' = Live
  BY DEF ClientTypes, clientVars, Client, Live
<1>2. OldIsInUse'
  BY <1>1 DEF ClientInv, OldIsInUse, clientVars
<1>3. NoneBeforeCreate'
  BY <1>1 DEF ClientInv, NoneBeforeCreate
<1>4. DisposedFirst'
  BY <1>1 DEF ClientInv, DisposedFirst
<1>5. OneLiveClient'
  BY <1>1 DEF ClientInv, OneLiveClient, clientVars
<1>. QED
  BY <1>1, <1>2, <1>3, <1>4, <1>5 DEF ClientInv

LEMMA InitializeKeepsClients ==
  ASSUME ClientTypes, ClientInv, NEW k \in Task, Initialize(k)
  PROVE  ClientTypes' /\ ClientInv'
<1>1. CASE Acquire(k)
  <2>1. /\ initPc[k] = "wait" /\ lifetimeControl = 1 /\ lifetimeControl' = 0
        /\ UNCHANGED <<disposePc, clientVars>>
    BY <1>1 DEF Acquire
  <2>2. /\ initPc' \in [Task -> InitPlace]
        /\ initPc'[k] = "test" /\ \A l \in Task : l # k => initPc'[l] = initPc[l]
    BY <1>1, CallMoves DEF Acquire, InitPlace
  <2>3. disposePc = "none" /\ \A l \in Task : ~Holds(l)
    BY <2>1 DEF ClientInv, NoSemaphoreLeft, MutualExclusion
  <2>4. ClientTypes' /\ Live' = Live /\ client' = client
    BY <2>1, <2>2 DEF ClientTypes, clientVars, Client, Live
  <2>5. MutualExclusion' /\ NoSemaphoreLeft'
    BY <2>1, <2>2, <2>3 DEF MutualExclusion, Holds, NoSemaphoreLeft
  <2>6. OldIsInUse' /\ OneLiveClient'
    BY <2>1, <2>3, <2>4 DEF ClientInv, OldIsInUse, OneLiveClient
  <2>7. NoneBeforeCreate' /\ DisposedFirst'
    BY <2>1, <2>2, <2>3, <2>4 DEF ClientInv, NoneBeforeCreate, DisposedFirst
  <2>. QED
    BY <2>4, <2>5, <2>6, <2>7 DEF ClientInv
<1>2. CASE TestClient(k)
  <2>1. /\ initPc[k] = "test" /\ UNCHANGED <<lifetimeControl, disposePc, clientVars>>
        /\ Holds(k)
    BY <1>2 DEF TestClient, Holds, InitPlace
  <2>2. PICK pc \in {"create", "dispose", "release"} :
          Goto(k, pc) /\ (pc = "create" => client = 0)
    BY <1>2 DEF TestClient
  <2>3. /\ initPc' \in [Task -> InitPlace] /\ MutualExclusion' /\ NoSemaphoreLeft'
        /\ initPc'[k] = pc /\ \A l \in Task : l # k => initPc'[l] = initPc[l] /\ ~Holds(l)
    <3>1. pc \in InitPlace
      BY DEF InitPlace
    <3>. QED
      BY <2>1, <2>2, <3>1, HolderMoves
  <2>4. CASE pc = "create"
    <3>1. Live = {}
      <4>1. Live \subseteq {0} /\ 0 \notin Client
        BY <2>1, <2>2, <2>4 DEF ClientInv, OldIsInUse, Client
      <4>. QED
        BY <4>1 DEF Live
    <3>2. ClientTypes' /\ Live' = {}
      BY <2>1, <2>3, <3>1 DEF ClientTypes, clientVars, Client, Live
    <3>3. OldIsInUse' /\ NoneBeforeCreate' /\ DisposedFirst' /\ OneLiveClient'
      BY <3>2 DEF OldIsInUse, NoneBeforeCreate, DisposedFirst, OneLiveClient
    <3>. QED
      BY <2>3, <3>2, <3>3 DEF ClientInv
  <2>5. CASE pc # "create"
    <3>1. lifetimeControl' \in {-1, 0, 1}
      BY <2>1 DEF ClientTypes
    <3>2. \A l \in Task : \/ initPc'[l] \in {initPc[l], "release"}
                          \/ initPc[l] = "test" /\ initPc'[l] = "dispose"
      BY <2>1, <2>3, <2>5
    <3>. QED
      BY <2>1, <2>3, <3>1, <3>2, ClientsLeft
  <2>. QED
    BY <2>4, <2>5
<1>3. CASE ResetClient(k)
  <2>1. PICK pc \in {"null", "clear", "create"} :
          ResetStep(initPc[k], pc, "create") /\ Goto(k, pc)
    BY <1>3 DEF ResetClient
  <2>2. /\ initPc[k] \in {"dispose", "null", "clear"} /\ Holds(k)
        /\ UNCHANGED <<lifetimeControl, disposePc>>
    BY <1>3, <2>1 DEF ResetClient, ResetStep, Holds, InitPlace
  <2>3. /\ initPc' \in [Task -> InitPlace] /\ MutualExclusion' /\ NoSemaphoreLeft'
        /\ initPc'[k] = pc /\ \A l \in Task : l # k => initPc'[l] = initPc[l] /\ ~Holds(l)
    <3>1. pc \in InitPlace
      BY DEF InitPlace
    <3>. QED
      BY <2>1, <2>2, <3>1, HolderMoves
  <2>4. /\ clients' \in Seq(ClientState) /\ Client' = Client /\ Live' = {}
        /\ client' \in Client \cup {0} /\ wasEverConnected' \in BOOLEAN
    <3>1. CASE initPc[k] = "dispose"
      <4>1. clients' = Disposed /\ UNCHANGED <<client, wasEverConnected>>
        BY <2>1, <3>1 DEF ResetStep
      <4>2. clients' \in Seq(ClientState) /\ Client' = Client /\ Live' = Live \ {client}
        BY <4>1, ClientDisposed
      <4>3. Live \subseteq {client}
        BY <3>1 DEF ClientInv, OldIsInUse
      <4>. QED
        BY <4>1, <4>2, <4>3 DEF ClientTypes
    <3>2. CASE initPc[k] \in {"null", "clear"}
      <4>1. /\ clients' = clients /\ client' \in {client, 0}
            /\ wasEverConnected' \in {wasEverConnected, FALSE}
        BY <2>1, <3>2 DEF ResetStep
      <4>2. Live = {}
        BY <3>2 DEF ClientInv, NoneBeforeCreate
      <4>. QED
        BY <4>1, <4>2 DEF ClientTypes, Client, Live
    <3>. QED
      BY <2>2, <3>1, <3>2
  <2>5. ClientTypes'
    BY <2>1, <2>2, <2>3, <2>4 DEF ClientTypes, ResetStep
  <2>6. OldIsInUse' /\ NoneBeforeCreate' /\ DisposedFirst' /\ OneLiveClient'
    BY <2>4 DEF OldIsInUse, NoneBeforeCreate, DisposedFirst, OneLiveClient
  <2>. QED
    BY <2>3, <2>5, <2>6 DEF ClientInv
<1>4. CASE CreateClient(k)
  <2>1. /\ initPc[k] = "create" /\ Goto(k, "created") /\ Holds(k)
        /\ clients' = Append(clients, "created") /\ client' = Len(clients) + 1
        /\ UNCHANGED <<lifetimeControl, disposePc, everUp, reopen, status, wasEverConnected>>
    BY <1>4 DEF CreateClient, Holds, InitPlace
  <2>2. /\ initPc' \in [Task -> InitPlace] /\ MutualExclusion' /\ NoSemaphoreLeft'
        /\ initPc'[k] = "created" /\ \A l \in Task : l # k => initPc'[l] = initPc[l] /\ ~Holds(l)
    <3>1. "created" \in InitPlace
      BY DEF InitPlace
    <3>. QED
      BY <2>1, <3>1, HolderMoves
  <2>3. /\ clients' \in Seq(ClientState) /\ Len(clients) \in Nat
        /\ Len(clients') = Len(clients) + 1 /\ \A d \in Client : clients'[d] = clients[d]
    BY <2>1, AppendProperties DEF ClientTypes, Client, ClientState
  <2>4. Client' = Client \cup {client'}
    BY <2>1, <2>3 DEF Client
  <2>5. ClientTypes'
    BY <2>1, <2>2, <2>3, <2>4 DEF ClientTypes
  <2>6. Live' \subseteq {client'}
    BY <2>1, <2>3, <2>4 DEF ClientInv, NoneBeforeCreate, Live
  <2>7. \A l \in Task : initPc'[l] \notin {"test", "dispose", "null", "clear", "create"}
    BY <2>2 DEF Holds, InitPlace
  <2>8. OldIsInUse' /\ NoneBeforeCreate' /\ DisposedFirst' /\ OneLiveClient'
    BY <2>6, <2>7 DEF OldIsInUse, NoneBeforeCreate, DisposedFirst, OneLiveClient
  <2>. QED
    BY <2>2, <2>5, <2>8 DEF ClientInv
<1>5. CASE OpenClient(k)
  <2>. DEFINE there == client # 0 /\ clients[client] = "created"
  <2>1. /\ initPc[k] = "created" /\ Holds(k)
        /\ clients' = IF there THEN [clients EXCEPT ![client] = "opening"] ELSE clients
        /\ UNCHANGED <<lifetimeControl, disposePc, client, everUp, reopen, status,
                       wasEverConnected>>
    BY <1>5 DEF OpenClient, Holds, InitPlace
  <2>2. PICK pc \in {"open", "release"} : Goto(k, pc)
    BY <1>5 DEF OpenClient
  <2>3. /\ initPc' \in [Task -> InitPlace] /\ MutualExclusion' /\ NoSemaphoreLeft'
        /\ initPc'[k] = pc /\ \A l \in Task : l # k => initPc'[l] = initPc[l] /\ ~Holds(l)
    <3>1. pc \in InitPlace
      BY DEF InitPlace
    <3>. QED
      BY <2>1, <2>2, <3>1, HolderMoves
  <2>4. clients' \in Seq(ClientState) /\ Client' = Client /\ Live' = Live
    <3>1. CASE there
      <4>1. client \in Client /\ clients' = [clients EXCEPT ![client] = "opening"]
        BY <2>1, <3>1 DEF ClientTypes
      <4>2. /\ clients' \in Seq(ClientState) /\ Client' = Client
            /\ \A d \in Client : clients'[d] = IF d = client THEN "opening" ELSE clients[d]
        BY <4>1, ChangedClient DEF ClientState
      <4>. QED
        BY <3>1, <4>2 DEF Live
    <3>2. CASE ~there
      BY <2>1, <3>2 DEF ClientTypes, Client, Live
    <3>. QED
      BY <3>1, <3>2
  <2>5. ClientTypes'
    BY <2>1, <2>3, <2>4 DEF ClientTypes
  <2>6. \A l \in Task : initPc'[l] \notin {"test", "dispose", "null", "clear", "create"}
    BY <2>3 DEF Holds, InitPlace
  <2>7. OldIsInUse' /\ NoneBeforeCreate' /\ DisposedFirst' /\ OneLiveClient'
    BY <2>1, <2>4, <2>6 DEF ClientInv, OldIsInUse, NoneBeforeCreate, DisposedFirst, OneLiveClient
  <2>. QED
    BY <2>3, <2>5, <2>7 DEF ClientInv
<1>6. CASE Opened(k)
  <2>1. initPc[k] = "open" /\ Holds(k) /\ UNCHANGED <<lifetimeControl, disposePc, clientVars>>
    BY <1>6 DEF Opened, Holds, InitPlace
  <2>2. PICK pc \in {"raise", "release"} : Goto(k, pc)
    BY <1>6 DEF Opened
  <2>3. /\ initPc' \in [Task -> InitPlace] /\ MutualExclusion' /\ NoSemaphoreLeft'
        /\ initPc'[k] = pc /\ \A l \in Task : l # k => initPc'[l] = initPc[l]
    <3>1. pc \in InitPlace
      BY DEF InitPlace
    <3>. QED
      BY <2>1, <2>2, <3>1, HolderMoves
  <2>4. lifetimeControl' \in {-1, 0, 1}
    BY <2>1 DEF ClientTypes
  <2>5. \A l \in Task : initPc'[l] \in {initPc[l], "raise", "release"}
    BY <2>3
  <2>. QED
    BY <2>1, <2>3, <2>4, <2>5, ClientsLeft
<1>7. CASE Release(k)
  <2>1. /\ initPc[k] \in {"release", "raise"} /\ UNCHANGED <<disposePc, clientVars>>
        /\ lifetimeControl' = IF lifetimeControl = -1 THEN -1 ELSE lifetimeControl + 1
    BY <1>7 DEF Release
  <2>2. PICK pc \in {"none", "raised", "done"} : Goto(k, pc)
    BY <1>7 DEF Release
  <2>3. /\ initPc' \in [Task -> InitPlace]
        /\ initPc'[k] = pc /\ \A l \in Task : l # k => initPc'[l] = initPc[l]
    BY <2>2, CallMoves DEF InitPlace
  <2>4. Holds(k) /\ lifetimeControl # 1 /\ \A l \in Task : Holds(l) => l = k
    BY <2>1 DEF ClientInv, MutualExclusion, Holds, InitPlace
  <2>5. lifetimeControl' \in {-1, 0, 1} /\ NoSemaphoreLeft'
    BY <2>1, <2>4 DEF ClientTypes, ClientInv, NoSemaphoreLeft
  <2>6. \A l \in Task : ~Holds(l)'
    BY <2>3, <2>4 DEF Holds
  <2>7. MutualExclusion'
    BY <2>6 DEF MutualExclusion
  <2>8. \A l \in Task : initPc'[l] \in {initPc[l], "none", "raised", "done"}
    BY <2>3
  <2>. QED
    BY <2>1, <2>3, <2>5, <2>7, <2>8, ClientsLeft
<1>8. CASE WaitRaises(k)
  <2>1. initPc[k] = "wait" /\ UNCHANGED <<lifetimeControl, disposePc, clientVars>>
    BY <1>8 DEF WaitRaises
  <2>2. /\ initPc' \in [Task -> InitPlace]
        /\ initPc'[k] = "none" /\ \A l \in Task : l # k => initPc'[l] = initPc[l]
    BY <1>8, CallMoves DEF WaitRaises, InitPlace
  <2>3. MutualExclusion' /\ NoSemaphoreLeft' /\ lifetimeControl' \in {-1, 0, 1}
    BY <2>1, <2>2 DEF ClientTypes, ClientInv, MutualExclusion, Holds, NoSemaphoreLeft
  <2>4. \A l \in Task : initPc'[l] \in {initPc[l], "none"}
    BY <2>2
  <2>. QED
    BY <2>1, <2>2, <2>3, <2>4, ClientsLeft
<1>. QED
  BY <1>1, <1>2, <1>3, <1>4, <1>5, <1>6, <1>7, <1>8 DEF Initialize

\* Dispose runs the statements of ResetClient beside a call that may be anywhere.
LEMMA DisposeKeepsClients ==
  ASSUME ClientTypes, ClientInv, DisposeStep
  PROVE  ClientTypes' /\ ClientInv'
<1>1. CASE Dispose
  <2>1. /\ disposePc' = "test" /\ lifetimeControl' = -1 /\ disposePc = "none"
        /\ UNCHANGED <<initPc, clientVars>>
    BY <1>1 DEF Dispose
  <2>2. ClientTypes' /\ Live' = Live /\ client' = client
    BY <2>1 DEF ClientTypes, clientVars, Client, Live, DisposePlace
  <2>3. MutualExclusion' /\ NoSemaphoreLeft'
    BY <2>1 DEF ClientInv, MutualExclusion, Holds, NoSemaphoreLeft
  <2>4. OldIsInUse' /\ NoneBeforeCreate' /\ DisposedFirst' /\ OneLiveClient'
    BY <2>1, <2>2 DEF ClientInv, OldIsInUse, NoneBeforeCreate, DisposedFirst, OneLiveClient
  <2>. QED
    BY <2>2, <2>3, <2>4 DEF ClientInv
<1>2. CASE DisposeTests
  <2>1. /\ disposePc = "test" /\ disposePc' \in {"dispose", "done"}
        /\ UNCHANGED <<lifetimeControl, initPc, clientVars>>
    BY <1>2 DEF DisposeTests
  <2>2. ClientTypes' /\ Live' = Live /\ client' = client
    BY <2>1 DEF ClientTypes, clientVars, Client, Live, DisposePlace
  <2>3. MutualExclusion' /\ NoSemaphoreLeft'
    BY <2>1 DEF ClientInv, MutualExclusion, Holds, NoSemaphoreLeft
  <2>4. OldIsInUse' /\ NoneBeforeCreate' /\ DisposedFirst' /\ OneLiveClient'
    BY <2>1, <2>2 DEF ClientInv, OldIsInUse, NoneBeforeCreate, DisposedFirst, OneLiveClient
  <2>. QED
    BY <2>2, <2>3, <2>4 DEF ClientInv
<1>3. CASE DisposeResets
  <2>1. PICK pc \in {"null", "clear", "done"} :
          ResetStep(disposePc, pc, "done") /\ disposePc' = pc
    BY <1>3 DEF DisposeResets
  <2>2. /\ disposePc \in {"dispose", "null", "clear"}
        /\ UNCHANGED <<lifetimeControl, initPc, everUp, reopen, status>>
    BY <1>3, <2>1 DEF DisposeResets, ResetStep
  <2>3. MutualExclusion' /\ NoSemaphoreLeft'
    BY <2>1, <2>2 DEF ClientInv, MutualExclusion, Holds, NoSemaphoreLeft
  <2>4. CASE disposePc = "dispose"
    <3>1. clients' = Disposed /\ disposePc' = "null" /\ UNCHANGED <<client, wasEverConnected>>
      BY <2>1, <2>4 DEF ResetStep
    <3>2. clients' \in Seq(ClientState) /\ Client' = Client /\ Live' = Live \ {client}
      BY <3>1, ClientDisposed
    <3>3. ClientTypes'
      BY <2>2, <3>1, <3>2 DEF ClientTypes, DisposePlace
    <3>4. OldIsInUse' /\ NoneBeforeCreate' /\ OneLiveClient'
      BY <2>2, <3>1, <3>2 DEF ClientInv, OldIsInUse, NoneBeforeCreate, OneLiveClient
    <3>5. DisposedFirst'
      BY <2>2, <3>2 DEF ClientInv, OldIsInUse, DisposedFirst
    <3>. QED
      BY <2>3, <3>3, <3>4, <3>5 DEF ClientInv
  <2>5. CASE disposePc = "null"
    <3>1. /\ disposePc' = "clear" /\ client' = 0 /\ UNCHANGED <<clients, wasEverConnected>>
      BY <2>1, <2>5 DEF ResetStep
    <3>2. ClientTypes' /\ Live' = Live
      BY <2>2, <3>1 DEF ClientTypes, DisposePlace, Client, Live
    <3>3. OldIsInUse'
      BY <2>2, <2>5, <3>2 DEF ClientInv, DisposedFirst, OldIsInUse
    <3>4. NoneBeforeCreate' /\ DisposedFirst' /\ OneLiveClient'
      BY <2>2, <3>1, <3>2 DEF ClientInv, NoneBeforeCreate, DisposedFirst, OneLiveClient
    <3>. QED
      BY <2>3, <3>2, <3>3, <3>4 DEF ClientInv
  <2>6. CASE disposePc = "clear"
    <3>1. disposePc' = "done" /\ wasEverConnected' = FALSE /\ UNCHANGED <<clients, client>>
      BY <2>1, <2>6 DEF ResetStep
    <3>2. ClientTypes' /\ Live' = Live
      BY <2>2, <3>1 DEF ClientTypes, DisposePlace, Client, Live
    <3>3. OldIsInUse' /\ NoneBeforeCreate' /\ DisposedFirst' /\ OneLiveClient'
      BY <2>2, <3>1, <3>2 DEF ClientInv, OldIsInUse, NoneBeforeCreate, DisposedFirst, OneLiveClient
    <3>. QED
      BY <2>3, <3>2, <3>3 DEF ClientInv
  <2>. QED
    BY <2>2, <2>4, <2>5, <2>6
<1>. QED
  BY <1>1, <1>2, <1>3 DEF DisposeStep

LEMMA ClientsKept ==
  ASSUME ClientTypes, ClientInv, ClientStep
  PROVE  ClientTypes' /\ ClientInv'
BY InitializeKeepsClients, HubKeepsClients, DisposeKeepsClients DEF ClientStep

-----------------------------------------------------------------------------
(***************************************************************************)
(* The messages.                                                           *)
(***************************************************************************)

LEMMA InitMessages == Init => MessageTypes /\ MessageInv
<1>. SUFFICES ASSUME Init PROVE MessageTypes /\ MessageInv
  OBVIOUS
<1>1. /\ backlog = <<>> /\ sent = <<>> /\ pending = 0 /\ added = 0 /\ errorCount = 0
      /\ failures = 0 /\ pumpPc = "new" /\ monitorPc = "new" /\ cancelled = FALSE
  BY DEF Init
<1>2. 0 \in 0..MaxMessages /\ 0 \in 0..MaxFailures
  BY HubAssumption
<1>3. MessageTypes
  <2>1. backlog \in Seq(1..added) /\ sent \in Seq(1..added) /\ pending \in 0..added
    BY <1>1
  <2>. QED
    BY <1>1, <1>2, <2>1 DEF MessageTypes
<1>4. QueueInOrder /\ TakenInOrder
  BY <1>1 DEF QueueInOrder, TakenInOrder
<1>5. SentInOrder /\ NothingLost
  BY <1>1 DEF SentInOrder, NothingLost
<1>. QED
  BY <1>3, <1>4, <1>5 DEF MessageInv

\* The steps that move no message.
LEMMA QuietStep ==
  ASSUME MessageInv, UNCHANGED <<backlog, sent, pending, added>>,
         pumpPc' = "send" => pending # 0
  PROVE  MessageInv'
<1>1. QueueInOrder' /\ SentInOrder' /\ NothingLost'
  BY DEF MessageInv, QueueInOrder, SentInOrder, NothingLost
<1>2. TakenInOrder'
  BY DEF MessageInv, TakenInOrder
<1>. QED
  BY <1>1, <1>2 DEF MessageInv

\* The head of the queue is the least message that is not taken.
LEMMA TakenKept ==
  ASSUME MessageTypes, MessageInv, UNCHANGED <<sent, added>>,
         pending = 0, backlog # <<>>, pending' = Head(backlog), backlog' = Tail(backlog)
  PROVE  backlog' \in Seq(1..added) /\ pending' \in 1..added /\ MessageInv'
<1>1. /\ backlog \in Seq(1..added) /\ added \in Nat /\ Len(backlog) \in Nat \ {0}
      /\ sent \in Seq(1..added)
  BY DEF MessageTypes
<1>2. /\ Head(backlog) \in 1..added /\ Tail(backlog) \in Seq(1..added)
      /\ Len(Tail(backlog)) = Len(backlog) - 1
      /\ \A i \in 1..Len(Tail(backlog)) : Tail(backlog)[i] = backlog[i + 1]
  BY <1>1, HeadTailProperties
<1>3. Head(backlog) = backlog[1]
  BY <1>1
<1>4. /\ Len(backlog) <= added
      /\ \A i \in 1..Len(backlog) : backlog[i] = added - Len(backlog) + i
  BY <1>1 DEF MessageInv, QueueInOrder
<1>5. QueueInOrder'
  <2>1. Len(backlog') = Len(backlog) - 1 /\ DOMAIN backlog' = 1..(Len(backlog) - 1)
    BY <1>2
  <2>2. ASSUME NEW i \in 1..(Len(backlog) - 1)
        PROVE  backlog'[i] = added - (Len(backlog) - 1) + i
    <3>1. i + 1 \in 1..Len(backlog) /\ backlog'[i] = backlog[i + 1]
      BY <1>1, <1>2
    <3>. QED
      BY <1>1, <1>4, <3>1
  <2>. QED
    BY <1>1, <1>4, <2>1, <2>2 DEF QueueInOrder
<1>6. TakenInOrder'
  <2>1. pending' = added - Len(backlog') /\ pending' # 0
    BY <1>1, <1>2, <1>3, <1>4
  <2>2. ASSUME NEW i \in DOMAIN sent PROVE sent[i] <= added - Len(backlog')
    <3>1. sent[i] \in 1..added /\ sent[i] <= added - Len(backlog)
      BY <1>1 DEF MessageInv, TakenInOrder
    <3>. QED
      BY <1>1, <1>2, <3>1
  <2>. QED
    BY <2>1, <2>2 DEF TakenInOrder
<1>7. SentInOrder'
  BY DEF MessageInv, SentInOrder
<1>8. NothingLost'
  <2>1. ASSUME NEW m \in 1..added, m \notin Range(sent)
        PROVE  m = pending' \/ m \in Range(backlog')
    <3>1. m \in Range(backlog)
      <4>1. m # 0
        OBVIOUS
      <4>. QED
        BY <2>1, <4>1 DEF MessageInv, NothingLost
    <3>2. PICK i \in 1..Len(backlog) : m = backlog[i]
      <4>1. DOMAIN backlog = 1..Len(backlog)
        BY <1>1
      <4>. QED
        BY <3>1, <4>1 DEF Range
    <3>3. CASE i = 1
      BY <1>3, <3>2, <3>3
    <3>4. CASE i # 1
      <4>1. i - 1 \in 1..Len(Tail(backlog)) /\ (i - 1) + 1 = i
        BY <1>1, <1>2, <3>4
      <4>2. m = backlog'[i - 1] /\ i - 1 \in DOMAIN backlog'
        BY <1>2, <3>2, <4>1
      <4>. QED
        BY <4>2 DEF Range
    <3>. QED
      BY <3>3, <3>4
  <2>. QED
    BY <2>1 DEF NothingLost
<1>. QED
  BY <1>2, <1>5, <1>6, <1>7, <1>8 DEF MessageInv

\* The message being sent is at the hub, and may be pending still.
LEMMA SentKept ==
  ASSUME MessageTypes, MessageInv, UNCHANGED <<backlog, added>>, pumpPc = "send",
         pumpPc' = "loop",
         \/ sent' = Append(sent, pending) /\ pending' \in {0, pending}
         \/ sent' = sent /\ pending' = pending
  PROVE  sent' \in Seq(1..added) /\ pending' \in 0..added /\ MessageInv'
<1>1. /\ sent \in Seq(1..added) /\ added \in Nat /\ Len(sent) \in Nat
      /\ pending \in 1..added /\ pending = added - Len(backlog)
  BY DEF MessageTypes, MessageInv, TakenInOrder
<1>2. CASE sent' = sent /\ pending' = pending
  BY <1>1, <1>2, QuietStep DEF MessageTypes
<1>3. CASE sent' = Append(sent, pending) /\ pending' \in {0, pending}
  <2>1. /\ sent' \in Seq(1..added) /\ Len(sent') = Len(sent) + 1
        /\ \A i \in 1..Len(sent) : sent'[i] = sent[i]
        /\ sent'[Len(sent) + 1] = pending
    BY <1>1, <1>3, AppendProperties
  <2>2. \A i \in 1..Len(sent) : sent[i] \in 1..added /\ sent[i] <= pending
    BY <1>1 DEF MessageInv, TakenInOrder
  <2>3. ASSUME NEW i \in 1..Len(sent') PROVE sent'[i] <= pending
    <3>1. CASE i = Len(sent) + 1
      BY <1>1, <2>1, <3>1
    <3>2. CASE i # Len(sent) + 1
      <4>1. i \in 1..Len(sent)
        BY <1>1, <2>1, <3>2
      <4>. QED
        BY <2>1, <2>2, <4>1
    <3>. QED
      BY <3>1, <3>2
  <2>4. TakenInOrder'
    BY <1>1, <1>3, <2>1, <2>3 DEF TakenInOrder
  <2>5. SentInOrder'
    <3>1. ASSUME NEW i \in 1..Len(sent'), NEW j \in 1..Len(sent'), i < j
          PROVE  sent'[i] <= sent'[j]
      <4>1. CASE j = Len(sent) + 1
        BY <2>1, <2>3, <4>1
      <4>2. CASE j # Len(sent) + 1
        <5>1. i \in 1..Len(sent) /\ j \in 1..Len(sent)
          <6>1. i \in 1..(Len(sent) + 1) /\ j \in 1..(Len(sent) + 1)
            BY <2>1
          <6>2. Len(sent) \in Nat /\ i < j /\ j # Len(sent) + 1
            BY <1>1, <3>1, <4>2
          <6>. QED
            BY <6>1, <6>2
        <5>2. sent[i] <= sent[j]
          BY <3>1, <5>1 DEF MessageInv, SentInOrder
        <5>. QED
          BY <2>1, <5>1, <5>2
      <4>. QED
        BY <4>1, <4>2
    <3>. QED
      BY <3>1 DEF SentInOrder
  <2>6. Range(sent) \cup {pending} \subseteq Range(sent')
    <3>1. DOMAIN sent = 1..Len(sent) /\ DOMAIN sent' = 1..(Len(sent) + 1)
      BY <1>1, <2>1
    <3>2. \A i \in DOMAIN sent : i \in DOMAIN sent' /\ sent'[i] = sent[i]
      BY <1>1, <2>1, <3>1
    <3>3. Len(sent) + 1 \in DOMAIN sent'
      BY <1>1, <3>1
    <3>. QED
      BY <2>1, <3>2, <3>3 DEF Range
  <2>7. NothingLost'
    BY <2>6 DEF MessageInv, NothingLost
  <2>8. QueueInOrder'
    BY DEF MessageInv, QueueInOrder
  <2>. QED
    BY <1>1, <1>3, <2>1, <2>4, <2>5, <2>7, <2>8 DEF MessageInv
<1>. QED
  BY <1>2, <1>3

\* A message more at the end of the queue.
LEMMA AddedKept ==
  ASSUME MessageTypes, MessageInv, AddTelemetry
  PROVE  MessageTypes' /\ MessageInv'
<1>1. /\ backlog \in Seq(1..added) /\ sent \in Seq(1..added) /\ pending \in 0..added
      /\ added \in Nat /\ Len(backlog) \in Nat /\ added < MaxMessages
      /\ MaxMessages \in Nat
  BY HubAssumption DEF MessageTypes, AddTelemetry
<1>2. /\ UNCHANGED <<sent, pending, pumpPc, cancelled, failures>> /\ added' = added + 1
      /\ backlog' = Append(backlog, added + 1) /\ errorCount' = 0 /\ monitorPc' = "delay"
  BY DEF AddTelemetry, MonitorGoto, pumpVars
<1>3. backlog \in Seq(1..(added + 1)) /\ sent \in Seq(1..(added + 1))
  <2>1. 1..added \subseteq 1..(added + 1)
    BY <1>1
  <2>. QED
    BY <1>1, <2>1
<1>4. /\ backlog' \in Seq(1..(added + 1)) /\ Len(backlog') = Len(backlog) + 1
      /\ \A i \in 1..Len(backlog) : backlog'[i] = backlog[i]
      /\ backlog'[Len(backlog) + 1] = added + 1
  BY <1>1, <1>2, <1>3, AppendProperties
<1>5. MessageTypes'
  BY <1>1, <1>2, <1>3, <1>4 DEF MessageTypes
<1>6. /\ Len(backlog) <= added
      /\ \A i \in 1..Len(backlog) : backlog[i] = added - Len(backlog) + i
  BY <1>1 DEF MessageInv, QueueInOrder
<1>7. QueueInOrder'
  <2>1. ASSUME NEW i \in 1..(Len(backlog) + 1)
        PROVE  backlog'[i] = (added + 1) - (Len(backlog) + 1) + i
    <3>1. CASE i = Len(backlog) + 1
      BY <1>1, <1>4, <3>1
    <3>2. CASE i # Len(backlog) + 1
      <4>1. i \in 1..Len(backlog)
        BY <1>1, <3>2
      <4>2. backlog'[i] = added - Len(backlog) + i
        BY <1>4, <1>6, <4>1
      <4>. QED
        BY <1>1, <4>1, <4>2
    <3>. QED
      BY <3>1, <3>2
  <2>2. DOMAIN backlog' = 1..(Len(backlog) + 1)
    BY <1>1, <1>4
  <2>. QED
    BY <1>1, <1>2, <1>4, <1>6, <2>1, <2>2 DEF QueueInOrder
<1>8. TakenInOrder'
  <2>1. added' - Len(backlog') = added - Len(backlog)
    BY <1>1, <1>2, <1>4
  <2>. QED
    BY <1>2, <2>1 DEF MessageInv, TakenInOrder
<1>9. SentInOrder'
  BY <1>2 DEF MessageInv, SentInOrder
<1>10. NothingLost'
  <2>1. Range(backlog) \cup {added + 1} \subseteq Range(backlog')
    <3>1. DOMAIN backlog = 1..Len(backlog) /\ DOMAIN backlog' = 1..(Len(backlog) + 1)
      BY <1>1, <1>4
    <3>2. \A i \in DOMAIN backlog : i \in DOMAIN backlog' /\ backlog'[i] = backlog[i]
      BY <1>1, <1>4, <3>1
    <3>3. Len(backlog) + 1 \in DOMAIN backlog'
      BY <1>1, <3>1
    <3>. QED
      BY <1>4, <3>2, <3>3 DEF Range
  <2>2. 1..(added + 1) = 1..added \cup {added + 1}
    BY <1>1
  <2>. QED
    BY <1>2, <2>1, <2>2 DEF MessageInv, NothingLost
<1>. QED
  BY <1>5, <1>7, <1>8, <1>9, <1>10 DEF MessageInv

LEMMA PumpKeepsMessages ==
  ASSUME MessageTypes, MessageInv, Pump
  PROVE  MessageTypes' /\ MessageInv'
<1>. USE DEF PumpGoto, monitorVars
<1>1. CASE PumpLoop \/ PumpDelayed
  <2>1. MessageTypes'
    BY <1>1 DEF PumpLoop, PumpDelayed, MessageTypes
  <2>. QED
    BY <1>1, <2>1, QuietStep DEF PumpLoop, PumpDelayed
<1>2. CASE TakeMessage
  <2>. DEFINE take == isConnected /\ NothingPending /\ backlog # <<>>
  <2>1. CASE take
    <3>1. /\ pending = 0 /\ backlog # <<>> /\ pending' = Head(backlog)
          /\ backlog' = Tail(backlog) /\ pumpPc' = "send"
          /\ UNCHANGED <<sent, failures, added, monitorPc, errorCount, cancelled>>
      BY <1>2, <2>1 DEF TakeMessage, NothingPending
    <3>2. backlog' \in Seq(1..added) /\ pending' \in 1..added /\ MessageInv'
      BY <3>1, TakenKept
    <3>. QED
      BY <3>1, <3>2 DEF MessageTypes
  <2>2. CASE ~take
    <3>1. /\ UNCHANGED <<backlog, pending, sent, failures, added, monitorPc, errorCount, cancelled>>
          /\ pumpPc' \in {"send", "loop"} /\ (pumpPc' = "send" => pending # 0)
      BY <1>2, <2>2 DEF TakeMessage
    <3>2. MessageTypes'
      BY <3>1 DEF MessageTypes
    <3>. QED
      BY <3>1, <3>2, QuietStep
  <2>. QED
    BY <2>1, <2>2
<1>3. CASE Send
  <2>1. /\ pumpPc = "send" /\ pumpPc' = "loop"
        /\ UNCHANGED <<backlog, added, monitorPc, errorCount, cancelled>>
        /\ \/ sent' = Append(sent, pending) /\ pending' \in {0, pending}
           \/ sent' = sent /\ pending' = pending
    BY <1>3 DEF Send, SendEvent, SendFails, StaysPending
  <2>2. sent' \in Seq(1..added) /\ pending' \in 0..added /\ MessageInv'
    BY <2>1, SentKept
  <2>3. failures' \in 0..MaxFailures
    BY <1>3, HubAssumption DEF Send, SendEvent, SendFails, MessageTypes
  <2>. QED
    BY <2>1, <2>2, <2>3 DEF MessageTypes
<1>. QED
  BY <1>1, <1>2, <1>3 DEF Pump

LEMMA MessagesKept ==
  ASSUME MessageTypes, MessageInv, MessageStep
  PROVE  MessageTypes' /\ MessageInv'
<1>1. CASE Start
  <2>1. MessageTypes'
    BY <1>1 DEF Start, MessageTypes
  <2>. QED
    BY <1>1, <2>1, QuietStep DEF Start
<1>2. CASE SetProperties \/ SetPropertiesFails \/ MonitorLoop
  <2>1. /\ UNCHANGED <<backlog, sent, pending, added, pumpPc, errorCount, failures, cancelled>>
        /\ monitorPc' \in {"loop", "exited", "add"}
    BY <1>2 DEF SetProperties, SetPropertiesFails, MonitorLoop, MonitorGoto, pumpVars
  <2>2. pumpPc' = "send" => pending # 0
    BY <2>1 DEF MessageInv, TakenInOrder
  <2>3. MessageTypes'
    BY <2>1 DEF MessageTypes
  <2>. QED
    BY <2>1, <2>2, <2>3, QuietStep
<1>3. CASE AddTelemetryFails
  <2>1. /\ UNCHANGED <<backlog, sent, pending, added, pumpPc, cancelled>>
        /\ monitorPc' \in {"exited", "delay"}
        /\ errorCount' = errorCount + 1 /\ failures' = failures + 1 /\ failures < MaxFailures
    BY <1>3 DEF AddTelemetryFails, MonitorGoto, pumpVars
  <2>2. pumpPc' = "send" => pending # 0
    BY <2>1 DEF MessageInv, TakenInOrder
  <2>3. MessageTypes'
    BY <2>1, HubAssumption DEF MessageTypes
  <2>. QED
    BY <2>1, <2>2, <2>3, QuietStep
<1>4. CASE Cancel
  <2>1. /\ UNCHANGED <<backlog, pumpVars, monitorVars, failures>> /\ cancelled' = TRUE
    BY <1>4 DEF Cancel
  <2>2. MessageTypes' /\ (pumpPc' = "send" => pending # 0)
    BY <2>1 DEF MessageTypes, MessageInv, TakenInOrder, pumpVars, monitorVars
  <2>. QED
    BY <2>1, <2>2, QuietStep DEF pumpVars, monitorVars
<1>. QED
  BY <1>1, <1>2, <1>3, <1>4, PumpKeepsMessages, AddedKept DEF MessageStep

-----------------------------------------------------------------------------
(***************************************************************************)
(* The inductive invariant, and the theorems.                              *)
(***************************************************************************)

LEMMA InitInv == Init => IInv
BY InitClients, InitMessages, TypesAreTwo DEF IInv

LEMMA OthersAreMessages ==
  ASSUME MessageTypes, MessageInv, UNCHANGED Others PROVE MessageTypes' /\ MessageInv'
<1>1. UNCHANGED <<backlog, sent, pending, added, pumpPc, monitorPc, errorCount, failures, cancelled>>
  BY DEF Others, pumpVars, monitorVars
<1>2. MessageTypes' /\ (pumpPc' = "send" => pending # 0)
  BY <1>1 DEF MessageTypes, MessageInv, TakenInOrder
<1>. QED
  BY <1>1, <1>2, QuietStep

LEMMA OthersAreClients ==
  ASSUME ClientTypes, ClientInv, UNCHANGED <<initVars, clientVars>>
  PROVE  ClientTypes' /\ ClientInv'
<1>1. UNCHANGED <<initPc, lifetimeControl, disposePc, clientVars>>
  BY DEF initVars
<1>2. MutualExclusion' /\ NoSemaphoreLeft'
  BY <1>1 DEF ClientInv, MutualExclusion, Holds, NoSemaphoreLeft
<1>3. lifetimeControl' \in {-1, 0, 1} /\ initPc' \in [Task -> InitPlace]
  BY <1>1 DEF ClientTypes
<1>4. \A k \in Task : initPc'[k] \in {initPc[k], "none"}
  BY <1>1
<1>. QED
  BY <1>1, <1>2, <1>3, <1>4, ClientsLeft

LEMMA StepInv == IInv /\ [Next]_vars => IInv'
<1>. SUFFICES ASSUME IInv, [Next]_vars PROVE IInv'
  OBVIOUS
<1>1. ClientTypes /\ MessageTypes /\ ClientInv /\ MessageInv
  BY TypesAreTwo DEF IInv
<1>2. \/ (ClientStep \/ UNCHANGED <<initVars, clientVars>>) /\ UNCHANGED Others
      \/ MessageStep /\ UNCHANGED <<initVars, clientVars>>
  BY StepsAreSplit DEF vars, Others
<1>3. ClientTypes' /\ ClientInv'
  BY <1>1, <1>2, ClientsKept, OthersAreClients
<1>4. MessageTypes' /\ MessageInv'
  BY <1>1, <1>2, MessagesKept, OthersAreMessages
<1>5. TypeOK'
  BY <1>3, <1>4 DEF TypeOK, ClientTypes, MessageTypes
<1>. QED
  BY <1>3, <1>4, <1>5 DEF IInv

LEMMA InvHolds == Spec => []IInv
<1>1. Init => IInv
  BY InitInv
<1>2. IInv /\ [Next]_vars => IInv'
  BY StepInv
<1>. QED
  BY <1>1, <1>2, PTL DEF Spec

\* Every variable of the app keeps its type (IotHub.cs:22-57).
THEOREM TypeCorrect == Spec => []TypeOK
<1>1. IInv => TypeOK
  BY DEF IInv
<1>. QED
  BY <1>1, InvHolds, PTL

\* However many calls of InitializeAsync run, and although Dispose runs ResetClient
\* beside them without the semaphore, two clients are never alive together; until
\* Dispose begins the one alive is the one in use (IotHub.cs:57-78, 216-247).
THEOREM OneClientAtATime == Spec => []OneLiveClient
<1>1. IInv => OneLiveClient
  BY DEF IInv, ClientInv
<1>. QED
  BY <1>1, InvHolds, PTL

\* No message added is lost between the queue, the pump and the hub, however
\* often sending fails and the client is replaced (IotHub.cs:112-149).
THEOREM NoMessageLost == Spec => []NothingLost
<1>1. IInv => NothingLost
  BY DEF IInv, MessageInv
<1>. QED
  BY <1>1, InvHolds, PTL

\* The hub receives the messages in the order in which they were added, whatever
\* is sent again (IotHub.cs:112-131).
THEOREM OrderIsKept == Spec => []SentInOrder
<1>1. IInv => SentInOrder
  BY DEF IInv, MessageInv
<1>. QED
  BY <1>1, InvHolds, PTL
===============================================================================
