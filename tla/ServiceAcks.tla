----------------------------- MODULE ServiceAcks -----------------------------
(***************************************************************************)
(* How the service app acknowledges operations (python/service/service.py):*)
(* a temporary thread dispatches each EventHub event, most operation ids   *)
(* go through outgoing_operation_response_queue to a thread that batches   *)
(* them per device every 15 seconds, or at once when an operation asks for *)
(* it, and everything for a device leaves through outgoing_c2d_queue and   *)
(* one sending thread.                                                     *)
(*                                                                         *)
(* EventHub may deliver an event again.  Which devices are in device_list  *)
(* is decided by update_pairing and by the twin-change thread; here it may *)
(* change at any time.                                                     *)
(***************************************************************************)
EXTENDS Naturals, Sequences, Functions, SequencesExt

CONSTANTS
  Operation,     \* the operation ids devices send
  NoOp,          \* none
  Device,
  DeviceOf,      \* the device that sent an operation
  Urgent,        \* the operations flagged RESPOND_IMMEDIATELY
  Contents,      \* those flagged RETURN_EVENTHUB_MESSAGE_CONTENTS and the C2D
                 \* tests, answered without batching
  Call,          \* the method and command invocations and the reads of PnP
                 \* properties, answered with what the call returns
  Command,       \* the updates of desired and of PnP properties, not answered
  PairRequest,   \* the pairing requests, answered before any device check
  Thread,        \* the threads of the executor that dispatch events
  MaxDeliveries  \* bound: how often EventHub delivers the event of an operation

ASSUME AcksAssumption ==
  /\ NoOp \notin Operation
  /\ DeviceOf \in [Operation -> Device]
  /\ Urgent \in SUBSET Operation
  /\ Contents \in SUBSET (Operation \ Urgent)
  /\ PairRequest \in SUBSET (Operation \ Urgent)
  /\ Call \in SUBSET (Operation \ Urgent)
  /\ Command \in SUBSET Operation
  /\ MaxDeliveries \in [Operation -> Nat]

VARIABLES
  deliveries,   \* how often each event was handed to a dispatching thread
  paired,       \* the devices in device_list
  pc,           \* where each dispatching thread is
  op,           \* the operation it dispatches, or NoOp
  respQueue,    \* outgoing_operation_response_queue
  force,        \* force_send_operation_response is set
  respPc,       \* where handle_send_operation_response_thread is
  batch,        \* its operation_ids: the ids gathered for each device
  c2dQueue,     \* outgoing_c2d_queue: the operation ids of each message
  c2dPc,        \* where send_outgoing_c2d_messages_thread is
  c2dMsg,       \* the message it is sending
  acks,         \* how many sent C2D messages acknowledge each operation
  dropped,      \* the operations an acknowledgement of which was given up
  done          \* the event that ends the run

inVars   == <<deliveries, pc, op>>
respVars == <<respPc, batch>>
c2dVars  == <<c2dPc, c2dMsg, acks>>
outVars  == <<c2dQueue, c2dVars>>
vars     == <<inVars, paired, respQueue, force, respVars, outVars, dropped, done>>

Direct == Contents \cup PairRequest \cup Call

Init ==
  /\ deliveries = [o \in Operation |-> 0] /\ paired \in SUBSET Device
  /\ pc = [t \in Thread |-> "idle"] /\ op = [t \in Thread |-> NoOp]
  /\ respQueue = <<>> /\ force = FALSE
  /\ respPc = "drain" /\ batch = [d \in Device |-> <<>>]
  /\ c2dQueue = <<>> /\ c2dPc = "get" /\ c2dMsg = <<>>
  /\ acks = [o \in Operation |-> 0] /\ dropped = {} /\ done = FALSE

-----------------------------------------------------------------------------
(***************************************************************************)
(* dispatch_incoming_message.                                              *)
(***************************************************************************)

\* The dispatching thread ends.
Return(t) ==
  /\ pc' = [pc EXCEPT ![t] = "idle"]
  /\ op' = [op EXCEPT ![t] = NoOp]

\* on_event submits the event to the executor.  main closes the EventHub
\* client before it sets done.
Deliver(t, o) ==
  /\ pc[t] = "idle" /\ ~done
  /\ deliveries[o] < MaxDeliveries[o]
  /\ deliveries' = [deliveries EXCEPT ![o] = @ + 1]
  /\ pc' = [pc EXCEPT ![t] = "lookup"]
  /\ op' = [op EXCEPT ![t] = o]
  /\ UNCHANGED <<paired, respQueue, force, respVars, outVars, dropped, done>>

\* update_pairing answers a pairing request whether or not the device is ours.
Handled(o) == o \in PairRequest \/ DeviceOf[o] \in paired

\* device_list.try_get: any other event of a device that is not ours is ignored.
LookUp(t) ==
  /\ pc[t] = "lookup"
  /\ IF Handled(op[t])
       THEN /\ pc' = [pc EXCEPT ![t] = IF op[t] \in Call \cup Command THEN "call" ELSE "put"]
            /\ UNCHANGED <<op, dropped>>
       ELSE Return(t) /\ dropped' = dropped \cup {op[t]}
  /\ UNCHANGED <<deliveries, paired, respQueue, force, respVars, outVars, done>>

\* handle_method_invoke, handle_pnp_command_invoke or the branch of the command:
\* the call of the device or of its twin returns.  A thread that handles an
\* invocation takes the place of the one that submitted it.
CallReturns(t) ==
  /\ pc[t] = "call"
  /\ IF op[t] \in Command
       THEN Return(t)
       ELSE pc' = [pc EXCEPT ![t] = "put"] /\ UNCHANGED op
  /\ UNCHANGED <<deliveries, paired, respQueue, force, respVars, outVars, dropped, done>>

\* The call raises, and so does the thread's function: nobody answers.
CallRaises(t) ==
  /\ pc[t] = "call" /\ Return(t)
  /\ dropped' = dropped \cup {op[t]}
  /\ UNCHANGED <<deliveries, paired, respQueue, force, respVars, outVars, done>>

\* Hand the operation id to the batching thread, or straight to the sender.
Put(t) ==
  /\ pc[t] = "put"
  /\ IF op[t] \in Direct
       THEN c2dQueue' = Append(c2dQueue, <<op[t]>>) /\ UNCHANGED respQueue
       ELSE respQueue' = Append(respQueue, op[t]) /\ UNCHANGED c2dQueue
  /\ IF op[t] \in Urgent
       THEN pc' = [pc EXCEPT ![t] = "force"] /\ UNCHANGED op
       ELSE Return(t)
  /\ UNCHANGED <<deliveries, paired, force, respVars, c2dVars, dropped, done>>

\* force_send_operation_response.set(), after the id is in the queue.
SetForce(t) ==
  /\ pc[t] = "force"
  /\ force' = TRUE /\ Return(t)
  /\ UNCHANGED <<deliveries, paired, respQueue, respVars, outVars, dropped, done>>

\* update_pairing adds the device or removes it; dispatch_twin_change_thread
\* removes one that stopped running.
ChangePairing(d) ==
  /\ paired' = IF d \in paired THEN paired \ {d} ELSE paired \cup {d}
  /\ UNCHANGED <<inVars, respQueue, force, respVars, outVars, dropped, done>>

-----------------------------------------------------------------------------
(***************************************************************************)
(* handle_send_operation_response_thread.                                  *)
(***************************************************************************)

\* Mutant: copies of an event are not looked for.
WithCopies(ids, o) == Append(ids, o)

WithoutCopies(ids, o) == IF o \in Range(ids) THEN ids ELSE Append(ids, o)

\* One get_nowait.  The batch names an operation once.
Drain ==
  /\ respPc = "drain" /\ respQueue # <<>>
  /\ LET o == Head(respQueue)
     IN  batch' = [batch EXCEPT ![DeviceOf[o]] = WithoutCopies(@, o)]
  /\ respQueue' = Tail(respQueue)
  /\ UNCHANGED <<inVars, paired, force, respPc, outVars, dropped, done>>

\* queue.Empty ends the inner loop.
Drained ==
  /\ respPc = "drain" /\ respQueue = <<>>
  /\ respPc' = "send"
  /\ UNCHANGED <<inVars, paired, respQueue, force, batch, outVars, dropped, done>>

\* Mutant: operation_ids is emptied with the first device.
AllTaken(d) == batch' = [e \in Device |-> <<>>]

Taken(d) == batch' = [batch EXCEPT ![d] = <<>>]

\* One message per device of the batch, unless the device is gone.
SendBatch(d) ==
  /\ respPc = "send" /\ batch[d] # <<>> /\ Taken(d)
  /\ IF d \in paired
       THEN c2dQueue' = Append(c2dQueue, batch[d]) /\ UNCHANGED dropped
       ELSE dropped' = dropped \cup Range(batch[d]) /\ UNCHANGED c2dQueue
  /\ UNCHANGED <<inVars, paired, respQueue, force, respPc, c2dVars, done>>

\* Mutant: the event is cleared just before the wait.
ForceCleared == force' = FALSE

ForceKept == UNCHANGED force

\* Every device of the batch has its message.
StartWait ==
  /\ respPc = "send" /\ \A d \in Device : batch[d] = <<>>
  /\ respPc' = "wait" /\ ForceKept
  /\ UNCHANGED <<inVars, paired, respQueue, batch, outVars, dropped, done>>

\* force_send_operation_response.wait(timeout=15) returns: it was set ...
Forced ==
  /\ respPc = "wait" /\ force
  /\ respPc' = "clear"
  /\ UNCHANGED <<inVars, paired, respQueue, force, batch, outVars, dropped, done>>

\* ... or 15 seconds have passed.
Elapsed ==
  /\ respPc = "wait" /\ ~force
  /\ respPc' = "clear"
  /\ UNCHANGED <<inVars, paired, respQueue, force, batch, outVars, dropped, done>>

\* force_send_operation_response.clear(), and the loop's condition.
Clear ==
  /\ respPc = "clear"
  /\ force' = FALSE
  /\ respPc' = IF done THEN "exited" ELSE "drain"
  /\ UNCHANGED <<inVars, paired, respQueue, batch, outVars, dropped, done>>

-----------------------------------------------------------------------------
(***************************************************************************)
(* send_outgoing_c2d_messages_thread, and the end of the run.              *)
(***************************************************************************)

\* Mutant: get() is called without its timeout.
GetNeverEnds == FALSE

\* get() has timed out and the loop's condition fails.
LoopEnds == done

\* outgoing_c2d_queue.get(timeout=1), or the end of the loop.
GetC2d ==
  /\ c2dPc = "get"
  /\ IF c2dQueue # <<>>
       THEN c2dPc' = "send" /\ c2dMsg' = Head(c2dQueue) /\ c2dQueue' = Tail(c2dQueue)
       ELSE LoopEnds /\ c2dPc' = "exited" /\ UNCHANGED <<c2dMsg, c2dQueue>>
  /\ UNCHANGED <<inVars, paired, respQueue, force, respVars, acks, dropped, done>>

\* registry_manager.send_c2d_message returns ...
SendC2d ==
  /\ c2dPc = "send" /\ c2dPc' = "get" /\ c2dMsg' = <<>>
  /\ acks' = [o \in Operation |-> IF o \in Range(c2dMsg) THEN acks[o] + 1 ELSE acks[o]]
  /\ UNCHANGED <<inVars, paired, respQueue, force, respVars, c2dQueue, dropped, done>>

\* ... or raises, and the message is dropped.
SendC2dRaises ==
  /\ c2dPc = "send" /\ c2dPc' = "get" /\ c2dMsg' = <<>>
  /\ dropped' = dropped \cup Range(c2dMsg)
  /\ UNCHANGED <<inVars, paired, respQueue, force, respVars, c2dQueue, acks, done>>

\* main's finally clause.
Finish ==
  /\ ~done /\ done' = TRUE
  /\ UNCHANGED <<inVars, paired, respQueue, force, respVars, outVars, dropped>>

-----------------------------------------------------------------------------

Dispatch(t) == LookUp(t) \/ Put(t) \/ SetForce(t)

\* The branches that call the device or its twin.
Invoke(t) == CallReturns(t) \/ CallRaises(t)

Respond ==
  \/ Drain \/ Drained \/ StartWait \/ Forced \/ Clear
  \/ \E d \in Device : SendBatch(d)

Transmit == GetC2d \/ SendC2d \/ SendC2dRaises

Next ==
  \/ \E t \in Thread : Dispatch(t) \/ Invoke(t)
  \/ \E t \in Thread, o \in Operation : Deliver(t, o)
  \/ \E d \in Device : ChangePairing(d)
  \/ Respond \/ Elapsed \/ Transmit \/ Finish

Spec == Init /\ [][Next]_vars

\* The threads are scheduled.  Nothing is assumed of calls, or of the 15 second
\* timeout.
FairSpec ==
  Spec /\ WF_vars(Respond) /\ WF_vars(Transmit)
       /\ \A t \in Thread : WF_vars(Dispatch(t))

\* The timeout always comes.  The properties that rest on it say so.
TimeoutComes == WF_vars(Elapsed)

-----------------------------------------------------------------------------
(***************************************************************************)
(* Correctness.                                                            *)
(***************************************************************************)

TypeOK ==
  /\ deliveries \in [Operation -> Nat]
  /\ \A o \in Operation : deliveries[o] <= MaxDeliveries[o]
  /\ paired \in SUBSET Device
  /\ pc \in [Thread -> {"idle", "lookup", "call", "put", "force"}]
  /\ op \in [Thread -> Operation \cup {NoOp}]
  /\ \A t \in Thread :
       /\ pc[t] # "idle" => op[t] \in Operation
       /\ pc[t] = "force" => op[t] \in Urgent
  /\ respQueue \in Seq(Operation)
  /\ force \in BOOLEAN
  /\ respPc \in {"drain", "send", "wait", "clear", "exited"}
  /\ batch \in [Device -> Seq(Operation)]
  /\ respPc \in {"wait", "clear", "exited"} => \A d \in Device : batch[d] = <<>>
  /\ c2dQueue \in Seq(Seq(Operation))
  /\ c2dPc \in {"get", "send", "exited"}
  /\ c2dMsg \in Seq(Operation)
  /\ c2dPc # "send" => c2dMsg = <<>>
  /\ acks \in [Operation -> Nat]
  /\ dropped \in SUBSET Operation
  /\ done \in BOOLEAN

\* No wake-up is lost: the batching thread never sits out its 15 seconds while
\* an urgent id is in its queue, unless the thread that put it there is just
\* about to set the event.  This needs the put before the set, and the clear
\* before the drain.
UrgentNeverWaits ==
  respPc = "wait" /\ ~force =>
    \A o \in Range(respQueue) \cap Urgent :
      \E t \in Thread : pc[t] = "force" /\ op[t] = o

\* The operation is on its way back to its device.
InFlight(o) ==
  \/ o \in Range(respQueue)
  \/ \E d \in Device : o \in Range(batch[d])
  \/ \E m \in Range(c2dQueue) : o \in Range(m)
  \/ o \in Range(c2dMsg)

\* No acknowledgement vanishes between the threads: an event that was
\* dispatched, and that asks for an answer, is on its way back, was answered, or
\* was given up for a device that left, or a call or send that raised.
NoAckVanishes ==
  \A o \in Operation \ Command :
    deliveries[o] > 0 /\ (\A t \in Thread : pc[t] \in {"lookup", "call", "put"} => op[t] # o)
      => InFlight(o) \/ acks[o] > 0 \/ o \in dropped

\* "it's possible to get the same eventhub message twice [...]. Don't send the
\* same service ack twice." (service.py:651-652): no message to a device names
\* an operation twice.  Copies that fall into two batches are sent twice all the
\* same.
MessagesRepeatNothing ==
  \A m \in Range(c2dQueue) \cup {c2dMsg} : IsInjective(m)

\* Once done is set both threads leave their loops, whatever is queued, if the
\* timeout comes.
ThreadsStop ==
  TimeoutComes => (done ~> respPc = "exited" /\ c2dPc = "exited")
=============================================================================
