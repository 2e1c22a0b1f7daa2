-------------------------- MODULE OperationTickets --------------------------
(***************************************************************************)
(* The operation tickets of python/common/operation_tickets.py, as the     *)
(* device app uses them (python/device/device.py).                         *)
(*                                                                         *)
(* A test thread makes a ticket, sends the ticket's id to the service and  *)
(* waits on the ticket's event with a timeout.  A C2D response names one   *)
(* or more ids; handle_operation_response runs for it on a thread of       *)
(* incoming_executor and completes the named tickets one after the other.  *)
(* EventHub and C2D deliver at least once and the service answers every    *)
(* copy it reads, so two handlers may complete the same ticket at the same *)
(* time.  complete() takes no lock: every attribute it reads or writes is  *)
(* a step of its own here.  OperationTicketList.lock makes get, remove and *)
(* the insertion atomic.                                                   *)
(***************************************************************************)
EXTENDS Naturals, Sequences, Functions

CONSTANTS
  Op,        \* the operations a run performs, one ticket (one uuid) each
  Handler,   \* the threads of incoming_executor that run response handlers
  Batch      \* the operationIds lists a response may carry

ASSUME BatchAssumption == Batch \subseteq Seq(Op) \ {<<>>}

NoMsg == <<>>   \* result_message = None: every response names an id

VARIABLES
  phase,    \* where the thread that made the ticket is
  list,     \* OperationTicketList.list: the ids it holds a ticket for
  owned,    \* owner_weakref is not None
  event,    \* the ticket's threading.Event is set
  result,   \* result_message: the response stored last
  pc,       \* where each handler thread is
  msg,      \* the response the handler works on
  next      \* the index in msg of the id it works on

ticketVars  == <<list, owned, event, result>>
handlerVars == <<pc, msg, next>>
vars        == <<phase, ticketVars, handlerVars>>

Phases == {"new", "made", "blocked", "verified", "timedOut", "failed"}
Steps  == {"idle", "get", "assign", "setEvent", "readOwner", "callOwner",
           "remove", "clearOwner", "crashed"}

\* The id a busy handler works on.
Current(h) == msg[h][next[h]]

\* The local variable operation_ticket of a handler refers to Current(h).
Holding == {"assign", "setEvent", "readOwner", "callOwner", "remove",
            "clearOwner"}

Init ==
  /\ phase  = [o \in Op |-> "new"]
  /\ list   = {}
  /\ owned  = [o \in Op |-> TRUE]
  /\ event  = [o \in Op |-> FALSE]
  /\ result = [o \in Op |-> NoMsg]
  /\ pc     = [h \in Handler |-> "idle"]
  /\ msg    = [h \in Handler |-> NoMsg]
  /\ next   = [h \in Handler |-> 1]

-----------------------------------------------------------------------------
(***************************************************************************)
(* The thread that performs the operation.                                 *)
(***************************************************************************)

\* make_event_based_operation_ticket: the ticket enters the list before its
\* id is put in any message.
Make(o) ==
  /\ phase[o] = "new"
  /\ phase' = [phase EXCEPT ![o] = "made"]
  /\ list' = list \cup {o}
  /\ UNCHANGED <<owned, event, result, handlerVars>>

\* client.send_message raised: the thread ends without waiting, and its
\* ticket stays in the list.  The message may have reached the hub all the
\* same.
SendRaises(o) ==
  /\ phase[o] = "made"
  /\ phase' = [phase EXCEPT ![o] = "failed"]
  /\ UNCHANGED <<ticketVars, handlerVars>>

\* event.wait(timeout) returns True at once, or blocks.
StartWait(o) ==
  /\ phase[o] = "made"
  /\ phase' = [phase EXCEPT ![o] = IF event[o] THEN "verified" ELSE "blocked"]
  /\ UNCHANGED <<ticketVars, handlerVars>>

\* Mutant: the value wait() returns is ignored.
WakesAnyway(o) == phase[o] = "blocked"

\* wait() returns True.
Wakes(o) == phase[o] = "blocked" /\ event[o]

Wake(o) ==
  /\ Wakes(o)
  /\ phase' = [phase EXCEPT ![o] = "verified"]
  /\ UNCHANGED <<ticketVars, handlerVars>>

\* Mutant: wait() is called without its timeout.
NeverGivesUp(o) == FALSE

\* The timeout expires.  The waiter gives up before it takes the condition's
\* lock again, so wait() returns False even if the event is set meanwhile.
GivesUp(o) == phase[o] = "blocked"

TimeOut(o) ==
  /\ GivesUp(o)
  /\ phase' = [phase EXCEPT ![o] = "timedOut"]
  /\ UNCHANGED <<ticketVars, handlerVars>>

-----------------------------------------------------------------------------
(***************************************************************************)
(* The handler of a response.                                              *)
(***************************************************************************)

\* The loop goes on to the next id, or the handler returns.
Advance(h) ==
  IF next[h] < Len(msg[h])
    THEN /\ pc' = [pc EXCEPT ![h] = "get"]
         /\ next' = [next EXCEPT ![h] = @ + 1]
         /\ UNCHANGED msg
    ELSE /\ pc' = [pc EXCEPT ![h] = "idle"]
         /\ next' = [next EXCEPT ![h] = 1]
         /\ msg' = [msg EXCEPT ![h] = NoMsg]

\* handle_message_received submits handle_operation_response for a response
\* of this run.  The service only names ids it was sent, any number of times.
Deliver(h, m) ==
  /\ pc[h] = "idle"
  /\ \A o \in Range(m) : phase[o] # "new"
  /\ pc' = [pc EXCEPT ![h] = "get"]
  /\ msg' = [msg EXCEPT ![h] = m]
  /\ UNCHANGED <<phase, ticketVars, next>>

\* Mutant: complete() is called before result_message is stored.
CompleteFirst == "setEvent"

\* The handler stores the response before it calls complete().
StoreFirst == "assign"

\* operation_ticket_list.get(operation_id), under the list's lock.
Get(h) ==
  /\ pc[h] = "get"
  /\ IF Current(h) \in list
       THEN /\ pc' = [pc EXCEPT ![h] = StoreFirst]
            /\ UNCHANGED <<msg, next>>
       ELSE Advance(h)                    \* "Received unknown operationId"
  /\ UNCHANGED <<phase, ticketVars>>

\* operation_ticket.result_message = msg
Assign(h) ==
  /\ pc[h] = "assign"
  /\ result' = [result EXCEPT ![Current(h)] = msg[h]]
  /\ pc' = [pc EXCEPT ![h] = "setEvent"]
  /\ UNCHANGED <<phase, list, owned, event, msg, next>>

\* complete(): self.event is never None, so the else branch is dead.
SetEvent(h) ==
  /\ pc[h] = "setEvent"
  /\ event' = [event EXCEPT ![Current(h)] = TRUE]
  /\ pc' = [pc EXCEPT ![h] = "readOwner"]
  /\ UNCHANGED <<phase, list, owned, result, msg, next>>

\* remove_from_owning_list: the first read of self.owner_weakref.
ReadOwner(h) ==
  /\ pc[h] = "readOwner"
  /\ IF owned[Current(h)]
       THEN /\ pc' = [pc EXCEPT ![h] = "callOwner"]
            /\ UNCHANGED <<msg, next>>
       ELSE Advance(h)
  /\ UNCHANGED <<phase, ticketVars>>

\* The second read, and the call.  If the other handler cleared the attribute
\* in between, None() raises TypeError: the handler ends and the rest of its
\* ids are never completed.
CallOwner(h) ==
  /\ pc[h] = "callOwner"
  /\ pc' = [pc EXCEPT ![h] = IF owned[Current(h)] THEN "remove" ELSE "crashed"]
  /\ UNCHANGED <<phase, ticketVars, msg, next>>

\* owner.remove(self.id): no effect when the id is no longer there.
RemoveFromList(h) ==
  /\ pc[h] = "remove"
  /\ list' = list \ {Current(h)}
  /\ pc' = [pc EXCEPT ![h] = "clearOwner"]
  /\ UNCHANGED <<phase, owned, event, result, msg, next>>

\* Mutant: the owner is not forgotten.
OwnedAgain == TRUE

OwnedAfter == FALSE

\* self.owner_weakref = None
ClearOwner(h) ==
  /\ pc[h] = "clearOwner"
  /\ owned' = [owned EXCEPT ![Current(h)] = OwnedAfter]
  /\ Advance(h)
  /\ UNCHANGED <<phase, list, event, result>>

\* The pool's worker is free again after an exception.
Recover(h) ==
  /\ pc[h] = "crashed"
  /\ pc' = [pc EXCEPT ![h] = "idle"]
  /\ msg' = [msg EXCEPT ![h] = NoMsg]
  /\ next' = [next EXCEPT ![h] = 1]
  /\ UNCHANGED <<phase, ticketVars>>

-----------------------------------------------------------------------------

Requester(o) ==
  Make(o) \/ SendRaises(o) \/ StartWait(o) \/ Wake(o) \/ TimeOut(o)

Handle(h) ==
  \/ Get(h) \/ Assign(h) \/ SetEvent(h) \/ ReadOwner(h)
  \/ CallOwner(h) \/ RemoveFromList(h) \/ ClearOwner(h) \/ Recover(h)

Next ==
  \/ \E o \in Op : Requester(o)
  \/ \E h \in Handler : Handle(h)
  \/ \E h \in Handler, m \in Batch : Deliver(h, m)

Spec == Init /\ [][Next]_vars

\* Threads are scheduled, send_message returns or raises, and a timeout
\* expires: whatever a started thread can do next it does.  Nothing is assumed
\* of the network: a response may never come.
Fairness ==
  /\ \A o \in Op : WF_vars(SendRaises(o) \/ StartWait(o) \/ Wake(o) \/ TimeOut(o))
  /\ \A h \in Handler : WF_vars(Handle(h))

FairSpec == Spec /\ Fairness

-----------------------------------------------------------------------------
(***************************************************************************)
(* Correctness.                                                            *)
(***************************************************************************)

TypeOK ==
  /\ phase \in [Op -> Phases]
  /\ list \in SUBSET Op
  /\ owned \in [Op -> BOOLEAN]
  /\ event \in [Op -> BOOLEAN]
  /\ result \in [Op -> Batch \cup {NoMsg}]
  /\ pc \in [Handler -> Steps]
  /\ msg \in [Handler -> Batch \cup {NoMsg}]
  /\ next \in [Handler -> Nat]
  /\ \A h \in Handler :
       IF pc[h] = "idle" THEN next[h] = 1 /\ msg[h] = NoMsg
       ELSE msg[h] \in Batch /\ next[h] \in 1..Len(msg[h])

\* A thread that finds its event set reads a response that names its own
\* operation, however many handlers work on the same ticket: the code after
\* event.wait() decodes result_message without looking (device.py:964, 1011).
WokenHasItsResponse ==
  \A o \in Op : event[o] => o \in Range(result[o])

\* A ticket never leaves the list with its event unset, so no waiter is left
\* to time out because its ticket was dropped: a response for an id that is
\* not in the list is ignored (device.py:751) and could not wake it.
LeavesListOnlyCompleted ==
  \A o \in Op : phase[o] # "new" /\ o \notin list => event[o]

\* Only the list and a handler's local variable keep a finished operation's
\* ticket alive.
Unreferenced(o) ==
  /\ phase[o] \in {"verified", "timedOut", "failed"}
  /\ o \notin list
  /\ \A h \in Handler : pc[h] \in Holding => Current(h) # o

\* __del__ never finds an owner: whenever a ticket can be finalised its
\* owner_weakref is already None, so "Abandoning an incompleted operation"
\* is never logged and __del__ changes nothing (which is why it is no action
\* of this model).
FinalizerFindsNoOwner ==
  \A o \in Op : Unreferenced(o) => ~owned[o]

\* The callers' view: what RoundTrip promises of an operation, with the three
\* unlocked steps of complete() and the races between handlers hidden.
Verdict(o) == CASE phase[o] = "new" -> "none"
                [] phase[o] \in {"made", "blocked"} -> "pending"
                [] OTHER -> phase[o]

Caller == INSTANCE RoundTrip WITH
            verdict   <- [o \in Op |-> Verdict(o)],
            tracked   <- list,
            completed <- {o \in Op : event[o]}

\* Tickets implement RoundTrip: no response completes an operation twice or
\* one that was dropped, only completed ones are dropped, and an operation
\* gets one verdict.
ImplementsRoundTrip == Caller!Spec

\* Every operation that was started gets a verdict.
EveryOperationEnds ==
  \A o \in Op : phase[o] = "made" ~> phase[o] \in {"verified", "timedOut", "failed"}
=============================================================================
