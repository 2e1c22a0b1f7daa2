-------------------------------- MODULE IotHub --------------------------------
(***************************************************************************)
(* The .NET device app: IotHub.cs with its message pump and its connection *)
(* handling, the SystemHealthMonitor that feeds it, and Main.              *)
(*                                                                         *)
(* Messages are numbered in the order of AddTelemetry and DeviceClients in *)
(* the order of their creation.  The SDK calls the status handler from     *)
(* threads of its own; what the handler starts with "_ = InitializeAsync()"*)
(* runs beside it.                                                         *)
(***************************************************************************)
EXTENDS Integers, Sequences, FiniteSets, SequencesExt

CONSTANTS
  Task,         \* calls of InitializeAsync that may be under way at once
  First,        \* the one of Main
  MaxErrors,    \* after more consecutive errors the monitor quits (10)
  MaxMessages,  \* bound: messages added
  MaxClients,   \* bound: DeviceClients created
  MaxFailures   \* bound: sends that fail, and errors of the monitor

ASSUME HubAssumption ==
  /\ First \in Task /\ IsFiniteSet(Task)
  /\ {MaxErrors, MaxMessages, MaxClients, MaxFailures} \subseteq Nat

VARIABLES
  lifetimeControl, \* the semaphore's count, -1 once it is disposed
  initPc,          \* where each InitializeAsync is
  disposePc,       \* where Dispose is
  client,          \* _deviceClient: a client or 0
  clients,         \* the state of every DeviceClient created
  everUp,          \* the clients that were connected at some time
  reopen,          \* the clients whose end calls for a new one
  status,          \* _connectionStatus; _isConnected is status = "Connected"
  wasEverConnected,
  backlog,         \* _messagesToSend
  pending,         \* pendingMessage or 0
  pumpPc,          \* where RunAsync is
  monitorPc,       \* where SystemHealthMonitor.RunAsync is
  errorCount,
  added,           \* messages added so far
  sent,            \* the messages the hub has received, in order
  failures,
  cancelled        \* the cancellation token

initVars == <<lifetimeControl, initPc, disposePc>>
clientVars == <<client, clients, everUp, reopen, status, wasEverConnected>>
pumpVars == <<pending, pumpPc, sent>>
monitorVars == <<monitorPc, errorCount, added>>
vars == <<initVars, clientVars, backlog, pumpVars, monitorVars, failures, cancelled>>

isConnected == status = "Connected"
Client == 1..Len(clients)
Live == {c \in Client : clients[c] # "disposed"}

Init ==
  /\ lifetimeControl = 1
  /\ initPc = [k \in Task |-> IF k = First THEN "wait" ELSE "none"]
  /\ disposePc = "none"
  /\ client = 0 /\ clients = <<>> /\ everUp = {} /\ reopen = {}
  /\ status = "Disconnected"                     \* the first of the enumeration
  /\ wasEverConnected = FALSE
  /\ backlog = <<>> /\ pending = 0 /\ sent = <<>>
  /\ pumpPc = "new" /\ monitorPc = "new"
  /\ errorCount = 0 /\ added = 0 /\ failures = 0
  /\ cancelled = FALSE

-----------------------------------------------------------------------------
(***************************************************************************)
(* InitializeAsync.                                                        *)
(***************************************************************************)

Goto(k, pc) == initPc' = [initPc EXCEPT ![k] = pc]

Others == <<backlog, pumpVars, monitorVars, failures, cancelled>>

Acquire(k) ==
  /\ initPc[k] = "wait" /\ lifetimeControl = 1
  /\ lifetimeControl' = 0 /\ Goto(k, "test")
  /\ UNCHANGED <<disposePc, clientVars, Others>>

\* What ResetClient asks: only a client that was connected and is no longer is reset.
CanReset(force) ==
  client # 0 /\ wasEverConnected /\ (force \/ status = "Disconnected")

\* Mutant: the client is let go of, not disposed of.
Leaked == clients

\* _deviceClient?.Dispose().
Disposed == IF client = 0 THEN clients ELSE [clients EXCEPT ![client] = "disposed"]

\* The statements of ResetClient, each on what _deviceClient is by then: Dispose
\* runs them without the semaphore, beside the call that holds it.
ResetStep(from, to, end) ==
  /\ \/ /\ from = "dispose" /\ to = "null"
        /\ clients' = Disposed /\ UNCHANGED <<client, wasEverConnected>>
     \/ /\ from = "null" /\ to = "clear"
        /\ client' = 0 /\ UNCHANGED <<clients, wasEverConnected>>
     \/ /\ from = "clear" /\ to = end
        /\ wasEverConnected' = FALSE /\ UNCHANGED <<clients, client>>
  /\ UNCHANGED <<everUp, reopen, status>>

\* A client that need not be reset is kept.
TestClient(k) ==
  /\ initPc[k] = "test"
  /\ Goto(k, IF client = 0 THEN "create" ELSE IF CanReset(FALSE) THEN "dispose" ELSE "release")
  /\ UNCHANGED <<lifetimeControl, disposePc, clientVars, Others>>

ResetClient(k) ==
  /\ \E pc \in {"null", "clear", "create"} :
       ResetStep(initPc[k], pc, "create") /\ Goto(k, pc)
  /\ UNCHANGED <<lifetimeControl, disposePc, Others>>

CreateClient(k) ==
  /\ initPc[k] = "create" /\ Len(clients) < MaxClients
  /\ clients' = Append(clients, "created") /\ client' = Len(clients) + 1
  /\ Goto(k, "created")
  /\ UNCHANGED <<lifetimeControl, disposePc, everUp, reopen, status, wasEverConnected,
                 Others>>

\* Its handler, and the start of OpenAsync: both raise if Dispose was faster.
OpenClient(k) ==
  LET there == client # 0 /\ clients[client] = "created"
  IN  /\ initPc[k] = "created"
      /\ Goto(k, IF there THEN "open" ELSE "release")
      /\ clients' = IF there THEN [clients EXCEPT ![client] = "opening"] ELSE clients
      /\ UNCHANGED <<lifetimeControl, disposePc, client, everUp, reopen, status,
                     wasEverConnected, Others>>

\* OpenAsync of the client created last returns, or raises once that has given up
\* or is disposed of: of Main's call that ends the app, of the others nobody sees it.
Opened(k) ==
  /\ initPc[k] = "open" /\ clients[Len(clients)] # "opening"
  /\ Goto(k, IF k = First /\ everUp = {} THEN "raise" ELSE "release")
  /\ UNCHANGED <<lifetimeControl, disposePc, clientVars, Others>>

\* The finally clause.  On a semaphore that Dispose has set to null it raises.
Release(k) ==
  /\ initPc[k] \in {"release", "raise"}
  /\ lifetimeControl' = IF lifetimeControl = -1 THEN -1 ELSE lifetimeControl + 1
  /\ Goto(k, IF k # First THEN "none"
             ELSE IF initPc[k] = "raise" THEN "raised" ELSE "done")
  /\ UNCHANGED <<disposePc, clientVars, Others>>

\* WaitAsync of a semaphore that is gone raises, or never returns if it was
\* waiting already: either way the call does nothing more.
WaitRaises(k) ==
  /\ initPc[k] = "wait" /\ lifetimeControl = -1
  /\ Goto(k, "none")
  /\ UNCHANGED <<lifetimeControl, disposePc, clientVars, Others>>

-----------------------------------------------------------------------------
(***************************************************************************)
(* The DeviceClient, and ConnectionStatusChangesHandler.                   *)
(***************************************************************************)

Becomes(c, from, st) ==
  /\ c \in Client /\ clients[c] \in from
  /\ clients' = [clients EXCEPT ![c] = st]

Connected(c) ==
  /\ Becomes(c, {"opening", "retrying"}, "connected")
  /\ status' = "Connected" /\ wasEverConnected' = TRUE /\ everUp' = everUp \cup {c}
  /\ UNCHANGED <<initVars, client, reopen, Others>>

Retrying(c) ==
  /\ Becomes(c, {"connected"}, "retrying")
  /\ status' = "Disconnected_Retrying"
  /\ UNCHANGED <<initVars, client, everUp, reopen, wasEverConnected, Others>>

GivesUp(c) ==
  /\ Becomes(c, {"opening", "connected", "retrying"}, "down")
  /\ status' = "Disconnected"
  /\ UNCHANGED <<lifetimeControl, disposePc, client, everUp, wasEverConnected, Others>>

\* Mutant: a communication error is only logged.
OnlyLogged == UNCHANGED initPc

Reinitialize == \E k \in Task \ {First} : initPc[k] = "none" /\ Goto(k, "wait")

\* Retry_Expired or Communication_Error: a new call of InitializeAsync.
RetryExpired(c) == GivesUp(c) /\ Reinitialize /\ reopen' = reopen \cup {c}

\* Bad_Credential, Device_Disabled and unexpected reasons: nothing is done.
Refused(c) == GivesUp(c) /\ UNCHANGED <<initPc, reopen>>

-----------------------------------------------------------------------------
(***************************************************************************)
(* RunAsync, the message pump.                                             *)
(***************************************************************************)

PumpGoto(from, to) ==
  /\ pumpPc = from /\ pumpPc' = to
  /\ UNCHANGED <<initVars, clientVars, monitorVars, cancelled>>

\* The loop test, and the delay if there is nothing to do.
PumpLoop ==
  /\ PumpGoto("loop", IF cancelled THEN "exited"
                      ELSE IF ~isConnected \/ backlog = <<>> THEN "delay" ELSE "check")
  /\ UNCHANGED <<backlog, pending, sent, failures>>

PumpDelayed ==
  /\ PumpGoto("delay", IF cancelled THEN "exited" ELSE "check")
  /\ UNCHANGED <<backlog, pending, sent, failures>>

\* Mutant: the message that is being retried is dropped for the next one.
Always == TRUE

NothingPending == pending = 0

\* The message to send, unless one is being retried.
TakeMessage ==
  LET take == isConnected /\ NothingPending /\ backlog # <<>>
  IN  /\ PumpGoto("check", IF isConnected /\ (pending # 0 \/ take) THEN "send" ELSE "loop")
      /\ IF take THEN pending' = Head(backlog) /\ backlog' = Tail(backlog)
                 ELSE UNCHANGED <<pending, backlog>>
      /\ UNCHANGED <<sent, failures>>

Sendable == client # 0 /\ clients[client] = "connected"

SendEvent ==
  /\ Sendable /\ PumpGoto("send", "loop")
  /\ sent' = Append(sent, pending) /\ pending' = 0
  /\ UNCHANGED <<backlog, failures>>

\* Mutant: the message goes back to the end of the queue.
Requeued == backlog' = Append(backlog, pending) /\ pending' = 0

StaysPending == UNCHANGED <<backlog, pending>>

\* Transient, network-related and unknown exceptions, of a client that is
\* disposed of or null too.  The hub may have the message.
SendFails ==
  /\ failures < MaxFailures \/ ~Sendable
  /\ PumpGoto("send", "loop") /\ StaysPending
  /\ failures' = IF Sendable THEN failures + 1 ELSE failures
  /\ sent' \in IF Sendable THEN {sent, Append(sent, pending)} ELSE {sent}

-----------------------------------------------------------------------------
(***************************************************************************)
(* SystemHealthMonitor.RunAsync and Main.                                  *)
(***************************************************************************)

MonitorGoto(from, to) ==
  /\ monitorPc \in from /\ monitorPc' = to
  /\ UNCHANGED <<initVars, clientVars, pumpVars, cancelled>>

\* Main starts both once InitializeAsync has returned.
Start ==
  /\ initPc[First] = "done" /\ pumpPc = "new"
  /\ pumpPc' = "loop" /\ monitorPc' = "properties"
  /\ UNCHANGED <<initVars, clientVars, backlog, pending, sent, errorCount, added,
                 failures, cancelled>>

SetProperties ==
  /\ Sendable /\ MonitorGoto({"properties"}, "loop")
  /\ UNCHANGED <<backlog, errorCount, added, failures>>

\* SetPropertiesAsync raises: the monitor is over, the pump goes on.
SetPropertiesFails ==
  /\ MonitorGoto({"properties"}, "exited")
  /\ UNCHANGED <<backlog, errorCount, added, failures>>

\* The loop test, after a delay of three seconds in every round but the first.
MonitorLoop ==
  /\ MonitorGoto({"loop", "delay"}, IF cancelled THEN "exited" ELSE "add")
  /\ UNCHANGED <<backlog, errorCount, added, failures>>

AddTelemetry ==
  /\ added < MaxMessages /\ MonitorGoto({"add"}, "delay")
  /\ added' = added + 1 /\ backlog' = Append(backlog, added + 1) /\ errorCount' = 0
  /\ UNCHANGED failures

\* Reading the system's health raises.
AddTelemetryFails ==
  /\ failures < MaxFailures
  /\ MonitorGoto({"add"}, IF errorCount + 1 > MaxErrors THEN "exited" ELSE "delay")
  /\ errorCount' = errorCount + 1 /\ failures' = failures + 1
  /\ UNCHANGED <<backlog, added>>

\* Control-C.
Cancel ==
  /\ ~cancelled /\ pumpPc # "new"
  /\ cancelled' = TRUE
  /\ UNCHANGED <<initVars, clientVars, backlog, pumpVars, monitorVars, failures>>

\* Dispose does not wait for the semaphore: it disposes of it.
Dispose ==
  /\ pumpPc = "exited" /\ monitorPc = "exited" /\ disposePc = "none"
  /\ lifetimeControl' = -1 /\ disposePc' = "test"
  /\ UNCHANGED <<initPc, clientVars, Others>>

DisposeTests ==
  /\ disposePc = "test"
  /\ disposePc' = IF CanReset(TRUE) THEN "dispose" ELSE "done"
  /\ UNCHANGED <<lifetimeControl, initPc, clientVars, Others>>

DisposeResets ==
  /\ \E pc \in {"null", "clear", "done"} :
       ResetStep(disposePc, pc, "done") /\ disposePc' = pc
  /\ UNCHANGED <<lifetimeControl, initPc, Others>>

-----------------------------------------------------------------------------

Initialize(k) ==
  \/ Acquire(k) \/ TestClient(k) \/ ResetClient(k) \/ CreateClient(k)
  \/ OpenClient(k) \/ Opened(k) \/ Release(k) \/ WaitRaises(k)

Hub(c) == Connected(c) \/ Retrying(c) \/ RetryExpired(c) \/ Refused(c)

Send == SendEvent \/ SendFails

Pump == PumpLoop \/ PumpDelayed \/ TakeMessage \/ Send

Next ==
  \/ \E k \in Task : Initialize(k)
  \/ \E c \in Client : Hub(c)
  \/ Pump
  \/ Start \/ SetProperties \/ SetPropertiesFails \/ MonitorLoop
  \/ AddTelemetry \/ AddTelemetryFails
  \/ Cancel \/ Dispose \/ DisposeTests \/ DisposeResets

Spec == Init /\ [][Next]_vars

\* Tasks that can go on do; OpenAsync returns or raises.  Failed sends are
\* bounded by MaxFailures.
FairSpec ==
  /\ Spec
  /\ \A k \in Task : WF_vars(Initialize(k))
  /\ WF_vars(Pump)
  /\ WF_vars(Start)

-----------------------------------------------------------------------------

ClientState == {"created", "opening", "connected", "retrying", "down", "disposed"}
InitPlace == {"none", "wait", "test", "dispose", "null", "clear", "create", "created",
              "open", "release", "raise", "raised", "done"}
DisposePlace == {"none", "test", "dispose", "null", "clear", "done"}

TypeOK ==
  /\ lifetimeControl \in {-1, 0, 1}
  /\ initPc \in [Task -> InitPlace] /\ disposePc \in DisposePlace
  /\ clients \in Seq(ClientState)
  /\ client \in Client \cup {0} /\ everUp \in SUBSET Client /\ reopen \in SUBSET Client
  /\ status \in {"Disconnected", "Disconnected_Retrying", "Connected"}
  /\ wasEverConnected \in BOOLEAN /\ cancelled \in BOOLEAN
  /\ backlog \in Seq(1..added) /\ sent \in Seq(1..added) /\ pending \in 0..added
  /\ pumpPc \in {"new", "loop", "delay", "check", "send", "exited"}
  /\ monitorPc \in {"new", "properties", "loop", "delay", "add", "exited"}
  /\ errorCount \in Nat /\ added \in 0..MaxMessages /\ failures \in 0..MaxFailures

\* A message added is at the hub, being sent or in the queue: reconnecting and
\* failing sends lose none while the app runs (IotHub.cs:112-149).
NothingLost ==
  1..added \subseteq Range(sent) \cup {pending} \cup Range(backlog)

\* The hub gets the messages in the order they were added; the one that is
\* retried may be there several times (IotHub.cs:112-131).
SentInOrder ==
  \A i, j \in 1..Len(sent) : i < j => sent[i] <= sent[j]

\* However many calls of InitializeAsync the handler has started, there are never
\* two live clients, not even while Dispose runs ResetClient beside one of them; and
\* until Dispose begins none is alive but the one in use (IotHub.cs:59-74, 214-243).
OneLiveClient ==
  /\ \A c, d \in Live : c = d
  /\ disposePc = "none" => Live \subseteq {client}

\* A client that was connected once and has given up is disposed of and followed by
\* a new one, whatever calls of InitializeAsync are waiting (IotHub.cs:59-74, 303-315).
LostClientIsReplaced ==
  \A c \in 1..MaxClients - 1 :
    c \in reopen \cap everUp ~>
      (Len(clients) > c /\ clients[c] = "disposed") \/ lifetimeControl = -1
=============================================================================
