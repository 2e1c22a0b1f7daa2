----------------------- MODULE OperationTicketsProofs -----------------------
(***************************************************************************)
(* Proofs about OperationTickets, for any number of operations and of      *)
(* handler threads and for any responses.                                  *)
(***************************************************************************)
EXTENDS OperationTickets, TLAPS

-----------------------------------------------------------------------------
(***************************************************************************)
(* Type correctness.                                                       *)
(***************************************************************************)

\* A busy handler works on an id of its response, and that is an operation.
LEMMA CurrentIsNamed ==
  ASSUME TypeOK, NEW h \in Handler, pc[h] # "idle"
  PROVE  Current(h) \in Op /\ Current(h) \in Range(msg[h])
<1>1. msg[h] \in Seq(Op) /\ next[h] \in 1..Len(msg[h])
  BY BatchAssumption DEF TypeOK
<1> QED
  BY <1>1 DEF Current, Range

\* The ids of a response, or of none, are operations.
LEMMA NamedAreOps ==
  ASSUME NEW m \in Batch \cup {NoMsg} PROVE Range(m) \subseteq Op
<1>1. m \in Seq(Op)
  <2>1. CASE m \in Batch
    BY <2>1, BatchAssumption
  <2>2. CASE m = <<>>
    BY <2>2
  <2> QED
    BY <2>1, <2>2 DEF NoMsg
<1>2. \A i \in DOMAIN m : m[i] \in Op
  BY <1>1
<1> QED
  BY <1>2 DEF Range

\* Advance leaves a busy handler on its next id, or idle.
LEMMA AdvanceType ==
  ASSUME TypeOK, NEW h \in Handler, pc[h] # "idle", Advance(h)
  PROVE  /\ pc' \in [Handler -> Steps]
         /\ msg' \in [Handler -> Batch \cup {NoMsg}]
         /\ next' \in [Handler -> Nat]
         /\ pc'[h] \in {"idle", "get"}
         /\ IF pc'[h] = "idle" THEN next'[h] = 1 /\ msg'[h] = NoMsg
            ELSE msg'[h] \in Batch /\ next'[h] \in 1..Len(msg'[h])
         /\ \A g \in Handler \ {h} :
              pc'[g] = pc[g] /\ next'[g] = next[g] /\ msg'[g] = msg[g]
<1>1. msg[h] \in Batch /\ Len(msg[h]) \in Nat /\ next[h] \in 1..Len(msg[h])
  BY BatchAssumption DEF TypeOK
<1>2. CASE next[h] < Len(msg[h])
  <2>1. /\ pc' = [pc EXCEPT ![h] = "get"]
        /\ next' = [next EXCEPT ![h] = next[h] + 1]
        /\ msg' = msg
    BY <1>2 DEF Advance
  <2>2. next[h] + 1 \in 1..Len(msg[h])
    BY <1>1, <1>2
  <2> QED
    BY <1>1, <2>1, <2>2 DEF TypeOK, Steps
<1>3. CASE ~(next[h] < Len(msg[h]))
  <2>1. /\ pc' = [pc EXCEPT ![h] = "idle"]
        /\ next' = [next EXCEPT ![h] = 1]
        /\ msg' = [msg EXCEPT ![h] = NoMsg]
    BY <1>3 DEF Advance
  <2> QED
    BY <2>1 DEF TypeOK, Steps
<1> QED
  BY <1>2, <1>3

LEMMA TypeInit == Init => TypeOK
BY DEF Init, TypeOK, Phases, Steps

LEMMA TypeNext == TypeOK /\ [Next]_vars => TypeOK'
<1> SUFFICES ASSUME TypeOK, [Next]_vars PROVE TypeOK'
  OBVIOUS
<1>1. ASSUME NEW o \in Op, Requester(o) PROVE TypeOK'
  BY <1>1 DEF TypeOK, Requester, Make, SendRaises, StartWait, Wake, Wakes, TimeOut, GivesUp,
              Phases, ticketVars, handlerVars
<1>2. ASSUME NEW h \in Handler, NEW m \in Batch, Deliver(h, m) PROVE TypeOK'
  <2>1. m \in Batch /\ 1 \in 1..Len(m)
    BY BatchAssumption
  <2> QED
    BY <1>2, <2>1 DEF TypeOK, Deliver, ticketVars, Steps
<1>3. ASSUME NEW h \in Handler, Handle(h) PROVE TypeOK'
  <2>1. CASE Get(h)
    <3>1. CASE Current(h) \in list
      BY <2>1, <3>1 DEF TypeOK, Get, StoreFirst, ticketVars, Steps
    <3>2. CASE Current(h) \notin list
      BY <2>1, <3>2, AdvanceType DEF TypeOK, Get, StoreFirst, ticketVars
    <3> QED  BY <3>1, <3>2
  <2>2. CASE Assign(h)
    BY <2>2 DEF TypeOK, Assign, Steps
  <2>3. CASE SetEvent(h)
    BY <2>3 DEF TypeOK, SetEvent, Steps
  <2>4. CASE ReadOwner(h)
    <3>1. CASE owned[Current(h)]
      BY <2>4, <3>1 DEF TypeOK, ReadOwner, ticketVars, Steps
    <3>2. CASE ~owned[Current(h)]
      BY <2>4, <3>2, AdvanceType DEF TypeOK, ReadOwner, ticketVars
    <3> QED  BY <3>1, <3>2
  <2>5. CASE CallOwner(h)
    BY <2>5 DEF TypeOK, CallOwner, ticketVars, Steps
  <2>6. CASE RemoveFromList(h)
    BY <2>6 DEF TypeOK, RemoveFromList, Steps
  <2>7. CASE ClearOwner(h)
    <3>1. owned' \in [Op -> BOOLEAN]
      BY <2>7 DEF TypeOK, ClearOwner, OwnedAfter
    <3> QED
      BY <2>7, <3>1, AdvanceType DEF TypeOK, ClearOwner, OwnedAfter
  <2>8. CASE Recover(h)
    BY <2>8 DEF TypeOK, Recover, ticketVars, Steps
  <2> QED
    BY <1>3, <2>1, <2>2, <2>3, <2>4, <2>5, <2>6, <2>7, <2>8 DEF Handle
<1>4. CASE UNCHANGED vars
  BY <1>4 DEF TypeOK, vars, ticketVars, handlerVars
<1> QED
  BY <1>1, <1>2, <1>3, <1>4 DEF Next

\* The state has its type in every reachable state: a busy handler always
\* points at an id of its response.
THEOREM TypeCorrect == Spec => []TypeOK
<1> QED
  BY TypeInit, TypeNext, PTL DEF Spec

-----------------------------------------------------------------------------
(***************************************************************************)
(* The inductive invariant.  complete() takes no lock, so what holds of a  *)
(* ticket is what the steps behind every handler that holds it have done.  *)
(***************************************************************************)

Stored  == {"setEvent", "readOwner", "callOwner", "remove", "clearOwner"}
Set     == {"readOwner", "callOwner", "remove", "clearOwner"}

\* Only operations that were started are listed, named or disowned.
OnlyStarted ==
  /\ \A o \in list : phase[o] # "new"
  /\ \A o \in Op : ~owned[o] => phase[o] # "new"
  /\ \A h \in Handler : \A o \in Range(msg[h]) : phase[o] # "new"

\* What a handler has already done to the ticket it holds.
HandlerProgress ==
  \A h \in Handler :
    /\ pc[h] \in Stored => Current(h) \in Range(result[Current(h)])
    /\ pc[h] \in Set => event[Current(h)]
    /\ pc[h] = "clearOwner" => Current(h) \notin list

\* A ticket off the list is disowned, or some handler is about to disown it.
OwnerFollowsList ==
  \A o \in Op :
    IF owned[o]
      THEN phase[o] # "new" /\ o \notin list =>
             \E h \in Handler : pc[h] = "clearOwner" /\ Current(h) = o
      ELSE o \notin list

IInv ==
  /\ TypeOK
  /\ OnlyStarted
  /\ HandlerProgress
  /\ OwnerFollowsList
  /\ WokenHasItsResponse
  /\ LeavesListOnlyCompleted

LEMMA IInvInit == Init => IInv
<1> SUFFICES ASSUME Init PROVE IInv
  OBVIOUS
<1>1. TypeOK
  BY TypeInit
<1>2. OnlyStarted
  BY DEF Init, OnlyStarted, NoMsg, Range
<1> QED
  BY <1>1, <1>2 DEF IInv, Init, HandlerProgress, OwnerFollowsList,
    WokenHasItsResponse, LeavesListOnlyCompleted, Stored, Set

\* The steps of the thread that owns the ticket.
LEMMA IInvRequester ==
  ASSUME IInv, TypeOK', NEW o \in Op, Requester(o) PROVE IInv'
<1>1. /\ UNCHANGED <<owned, event, result, handlerVars>>
      /\ IF phase[o] = "new" THEN list' = list \cup {o} ELSE list' = list
      /\ phase' = [phase EXCEPT ![o] = phase'[o]]
      /\ phase'[o] # "new"
  BY DEF Requester, Make, SendRaises, StartWait, Wake, Wakes, TimeOut, GivesUp, IInv, TypeOK,
         ticketVars, handlerVars
<1>2. \A h \in Handler : Current(h)' = Current(h)
  BY <1>1 DEF Current, handlerVars
<1>3. \A h \in Handler : pc[h] # "idle" =>
        Current(h) \in Op /\ Current(h) \in Range(msg[h])
  BY CurrentIsNamed DEF IInv
<1>4. \A h \in Handler : Range(msg[h]) \subseteq Op
  BY NamedAreOps DEF IInv, TypeOK
<1>5. OnlyStarted'
  BY <1>1, <1>4 DEF IInv, OnlyStarted, TypeOK, handlerVars
<1>6. HandlerProgress'
  <2> SUFFICES ASSUME NEW h \in Handler
               PROVE  /\ pc[h] \in Stored => Current(h) \in Range(result[Current(h)])
                      /\ pc[h] \in Set => event[Current(h)]
                      /\ pc[h] = "clearOwner" => Current(h) \notin list'
    BY <1>1, <1>2 DEF HandlerProgress, handlerVars, Stored, Set
  <2>1. pc[h] = "clearOwner" => phase[Current(h)] # "new"
    BY <1>3 DEF IInv, OnlyStarted
  <2> QED
    BY <1>1, <2>1 DEF IInv, HandlerProgress
<1>7. OwnerFollowsList'
  BY <1>1, <1>2 DEF IInv, OwnerFollowsList, OnlyStarted, TypeOK, handlerVars
<1>8. WokenHasItsResponse'
  BY <1>1 DEF IInv, WokenHasItsResponse
<1>9. LeavesListOnlyCompleted'
  BY <1>1 DEF IInv, LeavesListOnlyCompleted, TypeOK, Make, Requester, SendRaises,
     StartWait, Wake, Wakes, TimeOut, GivesUp, ticketVars, handlerVars
<1> QED
  BY <1>5, <1>6, <1>7, <1>8, <1>9 DEF IInv

\* A new response: its handler holds no ticket yet.
LEMMA IInvDeliver ==
  ASSUME IInv, TypeOK', NEW h \in Handler, NEW m \in Batch, Deliver(h, m)
  PROVE  IInv'
<1>1. /\ UNCHANGED <<phase, list, owned, event, result, next>>
      /\ pc' = [pc EXCEPT ![h] = "get"]
      /\ msg' = [msg EXCEPT ![h] = m]
      /\ pc[h] = "idle"
      /\ \A o \in Range(m) : phase[o] # "new"
  BY DEF Deliver, ticketVars
<1>2. \A g \in Handler \ {h} :
        pc'[g] = pc[g] /\ Current(g)' = Current(g) /\ msg'[g] = msg[g]
  BY <1>1 DEF Current, IInv, TypeOK
<1>3. pc'[h] = "get" /\ msg'[h] = m
  BY <1>1 DEF IInv, TypeOK
<1>4. OnlyStarted'
  BY <1>1, <1>2, <1>3 DEF IInv, OnlyStarted
<1>5. HandlerProgress'
  BY <1>1, <1>2, <1>3 DEF IInv, HandlerProgress, Stored, Set
<1>6. OwnerFollowsList'
  BY <1>1, <1>2, <1>3 DEF IInv, OwnerFollowsList
<1>7. WokenHasItsResponse' /\ LeavesListOnlyCompleted'
  BY <1>1 DEF IInv, WokenHasItsResponse, LeavesListOnlyCompleted
<1> QED
  BY <1>4, <1>5, <1>6, <1>7 DEF IInv

\* A step of a handler moves no other handler, and starts no operation.
LEMMA HandlerFrame ==
  ASSUME TypeOK, NEW h \in Handler, Handle(h)
  PROVE  /\ \A g \in Handler \ {h} :
              pc'[g] = pc[g] /\ Current(g)' = Current(g) /\ msg'[g] = msg[g]
         /\ msg'[h] \in {msg[h], NoMsg}
         /\ phase' = phase
<1>1. CASE /\ msg' = msg /\ next' = next /\ phase' = phase
           /\ \E s \in Steps : pc' = [pc EXCEPT ![h] = s]
  BY <1>1 DEF TypeOK, Current
<1>2. CASE Advance(h) /\ phase' = phase /\ pc[h] # "idle"
  <2>1. msg'[h] \in {msg[h], NoMsg}
    BY <1>2 DEF Advance, TypeOK
  <2> QED
    BY <1>2, <2>1, AdvanceType DEF Current
<1>3. CASE Recover(h)
  BY <1>3 DEF Recover, TypeOK, Current
<1> QED
  BY <1>1, <1>2, <1>3 DEF Handle, Get, StoreFirst, Assign, SetEvent, ReadOwner, CallOwner,
     RemoveFromList, ClearOwner, OwnedAfter, Steps, ticketVars

\* The steps of a handler.
LEMMA IInvHandler ==
  ASSUME IInv, TypeOK', NEW h \in Handler, Handle(h) PROVE IInv'
<1> DEFINE c == Current(h)
<1>0. TypeOK
  BY DEF IInv
<1>1. /\ \A g \in Handler \ {h} :
           pc'[g] = pc[g] /\ Current(g)' = Current(g) /\ msg'[g] = msg[g]
      /\ msg'[h] \in {msg[h], NoMsg}
      /\ phase' = phase
  BY <1>0, HandlerFrame
<1>2. pc[h] # "idle" => c \in Op /\ c \in Range(msg[h])
  BY <1>0, CurrentIsNamed
<1>3. pc[h] # "idle" => phase[c] # "new"
  BY <1>2 DEF IInv, OnlyStarted
<1>4. Range(NoMsg) = {}
  BY DEF Range, NoMsg
<1> SUFFICES /\ (\A o \in Op : ~owned'[o] => phase[o] # "new") /\ list' \subseteq list
             /\ HandlerProgress'
             /\ OwnerFollowsList'
             /\ WokenHasItsResponse'
             /\ LeavesListOnlyCompleted'
  <2>1. \A g \in Handler : Range(msg'[g]) \subseteq Range(msg[g])
    BY <1>1, <1>4
  <2> QED
    BY <1>1, <2>1 DEF IInv, OnlyStarted
<1>5. CASE UNCHANGED <<list, owned, event, result>> /\ pc[h] # "clearOwner"
           /\ pc'[h] \in {"idle", "get", "assign", "crashed"}
  <2>1. HandlerProgress'
    BY <1>1, <1>5 DEF IInv, HandlerProgress, Stored, Set
  <2>2. OwnerFollowsList'
    BY <1>1, <1>5 DEF IInv, OwnerFollowsList
  <2> QED
    BY <1>1, <1>5, <2>1, <2>2 DEF IInv, OnlyStarted, WokenHasItsResponse,
       LeavesListOnlyCompleted
<1>6. CASE Assign(h)
  <2>1. /\ UNCHANGED <<list, owned, event>> /\ pc[h] = "assign"
        /\ pc'[h] = "setEvent" /\ Current(h)' = c
        /\ result' = [result EXCEPT ![c] = msg[h]]
    BY <1>0, <1>6 DEF Assign, Current, TypeOK
  <2>2. \A o \in Op : o \in Range(result[o]) => o \in Range(result'[o])
    BY <1>0, <1>2, <2>1 DEF TypeOK
  <2>3. c \in Range(result'[c])
    BY <1>0, <1>2, <2>1 DEF TypeOK
  <2>4. \A g \in Handler \ {h} : pc[g] \in Stored => Current(g) \in Op
    BY <1>0, CurrentIsNamed DEF Stored
  <2>5. HandlerProgress'
    BY <1>1, <2>1, <2>2, <2>3, <2>4 DEF IInv, HandlerProgress, Stored, Set
  <2>6. OwnerFollowsList'
    BY <1>1, <2>1 DEF IInv, OwnerFollowsList
  <2> QED
    BY <1>1, <2>1, <2>2, <2>5, <2>6 DEF IInv, OnlyStarted, WokenHasItsResponse,
       LeavesListOnlyCompleted
<1>7. CASE SetEvent(h)
  <2>1. /\ UNCHANGED <<list, owned, result>> /\ pc[h] = "setEvent"
        /\ pc'[h] = "readOwner" /\ Current(h)' = c
        /\ event' = [event EXCEPT ![c] = TRUE]
    BY <1>0, <1>7 DEF SetEvent, Current, TypeOK
  <2>2. \A o \in Op : event[o] => event'[o]
    BY <1>0, <2>1 DEF TypeOK
  <2>3. event'[c] /\ (\A o \in Op \ {c} : event'[o] = event[o])
    BY <1>0, <1>2, <2>1 DEF TypeOK
  <2>4. \A g \in Handler \ {h} : pc[g] \in Stored \cup Set => Current(g) \in Op
    BY <1>0, CurrentIsNamed DEF Stored, Set
  <2>5. HandlerProgress'
    BY <1>1, <2>1, <2>2, <2>3, <2>4 DEF IInv, HandlerProgress, Stored, Set
  <2>6. OwnerFollowsList'
    BY <1>1, <2>1 DEF IInv, OwnerFollowsList
  <2>7. WokenHasItsResponse'
    BY <2>1, <2>3 DEF IInv, WokenHasItsResponse, HandlerProgress, Stored
  <2> QED
    BY <1>1, <2>1, <2>2, <2>5, <2>6, <2>7 DEF IInv, OnlyStarted,
       LeavesListOnlyCompleted
<1>8. CASE /\ UNCHANGED <<list, owned, event, result, msg, next>>
           /\ pc[h] \in Set \ {"clearOwner"}
           /\ pc'[h] \in {"callOwner", "remove"}
  <2>1. Current(h)' = c
    BY <1>8 DEF Current
  <2>2. HandlerProgress'
    BY <1>1, <1>8, <2>1 DEF IInv, HandlerProgress, Stored, Set
  <2>3. OwnerFollowsList'
    BY <1>1, <1>8 DEF IInv, OwnerFollowsList
  <2> QED
    BY <1>1, <1>8, <2>2, <2>3 DEF IInv, OnlyStarted, WokenHasItsResponse,
       LeavesListOnlyCompleted
<1>9. CASE RemoveFromList(h)
  <2>1. /\ UNCHANGED <<owned, event, result>> /\ pc[h] = "remove"
        /\ pc'[h] = "clearOwner" /\ Current(h)' = c /\ list' = list \ {c}
    BY <1>0, <1>9 DEF RemoveFromList, Current, TypeOK
  <2>2. HandlerProgress'
    BY <1>1, <2>1 DEF IInv, HandlerProgress, Stored, Set
  <2>3. OwnerFollowsList'
    BY <1>1, <2>1 DEF IInv, OwnerFollowsList
  <2>4. event[c]
    BY <2>1 DEF IInv, HandlerProgress, Set
  <2> QED
    BY <1>1, <2>1, <2>2, <2>3, <2>4 DEF IInv, OnlyStarted, WokenHasItsResponse,
       LeavesListOnlyCompleted
<1>10. CASE ClearOwner(h)
  <2>1. /\ UNCHANGED <<list, event, result>> /\ pc[h] = "clearOwner"
        /\ pc'[h] \in {"idle", "get"}
        /\ owned' = [owned EXCEPT ![c] = FALSE]
    BY <1>0, <1>10, AdvanceType DEF ClearOwner, OwnedAfter
  <2>2. ~owned'[c] /\ (\A o \in Op \ {c} : owned'[o] = owned[o])
    BY <1>0, <1>2, <2>1 DEF TypeOK
  <2>3. c \notin list
    BY <2>1 DEF IInv, HandlerProgress
  <2>4. HandlerProgress'
    BY <1>1, <2>1 DEF IInv, HandlerProgress, Stored, Set
  <2>5. OwnerFollowsList'
    BY <1>1, <2>1, <2>2, <2>3 DEF IInv, OwnerFollowsList
  <2> QED
    BY <1>1, <1>3, <2>1, <2>2, <2>4, <2>5 DEF IInv, OnlyStarted,
       WokenHasItsResponse, LeavesListOnlyCompleted
<1>11. CASE Get(h)
  <2>1. pc'[h] \in {"idle", "get", "assign"}
    BY <1>0, <1>11, AdvanceType DEF Get, StoreFirst, TypeOK
  <2> QED
    BY <1>5, <1>11, <2>1 DEF Get, StoreFirst, ticketVars
<1>12. CASE ReadOwner(h)
  <2>1. CASE owned[c]
    BY <1>0, <1>8, <1>12, <2>1 DEF ReadOwner, ticketVars, TypeOK, Set
  <2>2. CASE ~owned[c]
    BY <1>0, <1>5, <1>12, <2>2, AdvanceType DEF ReadOwner, ticketVars
  <2> QED  BY <2>1, <2>2
<1>13. CASE CallOwner(h)
  BY <1>0, <1>5, <1>8, <1>13 DEF CallOwner, ticketVars, TypeOK, Set
<1>14. CASE Recover(h)
  BY <1>0, <1>5, <1>14 DEF Recover, ticketVars, TypeOK
<1> QED
  BY <1>6, <1>7, <1>9, <1>10, <1>11, <1>12, <1>13, <1>14 DEF Handle

LEMMA IInvNext == IInv /\ [Next]_vars => IInv'
<1> SUFFICES ASSUME IInv, [Next]_vars PROVE IInv'
  OBVIOUS
<1>1. TypeOK'
  BY TypeNext DEF IInv
<1>2. CASE UNCHANGED vars
  <2>1. \A h \in Handler : Current(h)' = Current(h)
    BY <1>2 DEF Current, vars, handlerVars
  <2> QED
    BY <1>1, <1>2, <2>1 DEF IInv, OnlyStarted, HandlerProgress, OwnerFollowsList,
       WokenHasItsResponse, LeavesListOnlyCompleted, vars, ticketVars, handlerVars
<1> QED
  BY <1>1, <1>2, IInvRequester, IInvDeliver, IInvHandler DEF Next

LEMMA Invariance == Spec => []IInv
<1> QED
  BY IInvInit, IInvNext, PTL DEF Spec

-----------------------------------------------------------------------------
(***************************************************************************)
(* What the app relies on.                                                 *)
(***************************************************************************)

\* However many handlers complete a ticket, a woken thread finds a response
\* that names its operation in result_message.
THEOREM ResponsesArePaired == Spec => []WokenHasItsResponse
<1>1. IInv => WokenHasItsResponse
  BY DEF IInv
<1> QED
  BY <1>1, Invariance, PTL

\* A ticket is dropped from the list only after its event was set: no waiter
\* is cut off from its response.
THEOREM NoWaiterIsCutOff == Spec => []LeavesListOnlyCompleted
<1>1. IInv => LeavesListOnlyCompleted
  BY DEF IInv
<1> QED
  BY <1>1, Invariance, PTL

\* __del__ never finds an owner to be removed from.
THEOREM AbandonmentIsDead == Spec => []FinalizerFindsNoOwner
<1>1. IInv => FinalizerFindsNoOwner
  BY DEF IInv, FinalizerFindsNoOwner, Unreferenced, OwnerFollowsList, Holding
<1> QED
  BY <1>1, Invariance, PTL

-----------------------------------------------------------------------------
(***************************************************************************)
(* Tickets implement RoundTrip.                                            *)
(***************************************************************************)

Completed == {o \in Op : event[o]}
Verdicts  == [o \in Op |-> Verdict(o)]

LEMMA RoundTripInit == Init => Caller!Init
BY DEF Init, Caller!Init, Verdict

\* A step that leaves phase, list and event alone is hidden.
LEMMA HiddenStep ==
  ASSUME UNCHANGED <<phase, list, event>> PROVE UNCHANGED Caller!vars
BY DEF Caller!vars, Verdict

LEMMA RequesterStep ==
  ASSUME IInv, NEW o \in Op, Requester(o) PROVE [Caller!Next]_(Caller!vars)
<1> USE DEF Completed, Verdicts
<1>0. TypeOK /\ Verdicts \in [Op -> {"none", "pending", "verified", "timedOut", "failed"}]
  BY DEF IInv, TypeOK, Verdict, Phases
<1>1. CASE Make(o)
  <2>1. Verdicts[o] = "none" /\ Verdicts' = [Verdicts EXCEPT ![o] = "pending"]
    BY <1>0, <1>1 DEF Make, TypeOK, Verdict, Phases
  <2>2. list' = list \cup {o} /\ Completed' = Completed
    BY <1>1 DEF Make
  <2> QED
    BY <2>1, <2>2 DEF Caller!Next, Caller!Start
<1>2. CASE SendRaises(o)
  <2>1. Verdicts[o] = "pending" /\ Verdicts' = [Verdicts EXCEPT ![o] = "failed"]
    BY <1>0, <1>2 DEF SendRaises, TypeOK, Verdict, Phases
  <2>2. list' = list /\ Completed' = Completed
    BY <1>2 DEF SendRaises, ticketVars
  <2> QED
    BY <2>1, <2>2 DEF Caller!Next, Caller!Conclude, Caller!Final
<1>3. CASE StartWait(o) /\ ~event[o]
  <2>1. Verdicts' = Verdicts
    BY <1>0, <1>3 DEF StartWait, TypeOK, Verdict, Phases
  <2>2. list' = list /\ Completed' = Completed
    BY <1>3 DEF StartWait, ticketVars
  <2> QED
    BY <2>1, <2>2 DEF Caller!vars
<1>4. CASE Wake(o) \/ (StartWait(o) /\ event[o])
  <2>1. Verdicts[o] = "pending" /\ Verdicts' = [Verdicts EXCEPT ![o] = "verified"]
    BY <1>0, <1>4 DEF Wake, Wakes, StartWait, TypeOK, Verdict, Phases
  <2>2. list' = list /\ Completed' = Completed /\ o \in Completed
    BY <1>4 DEF Wake, Wakes, StartWait, ticketVars
  <2> QED
    BY <2>1, <2>2 DEF Caller!Next, Caller!Conclude, Caller!Final
<1>5. CASE TimeOut(o)
  <2>1. Verdicts[o] = "pending" /\ Verdicts' = [Verdicts EXCEPT ![o] = "timedOut"]
    BY <1>0, <1>5 DEF TimeOut, GivesUp, TypeOK, Verdict, Phases
  <2>2. list' = list /\ Completed' = Completed
    BY <1>5 DEF TimeOut, GivesUp, ticketVars
  <2> QED
    BY <2>1, <2>2 DEF Caller!Next, Caller!Conclude, Caller!Final
<1> QED
  BY <1>1, <1>2, <1>3, <1>4, <1>5 DEF Requester

LEMMA HandlerStep ==
  ASSUME IInv, NEW h \in Handler, Handle(h) PROVE [Caller!Next]_(Caller!vars)
<1> DEFINE c == Current(h)
<1> USE DEF Completed, Verdicts
<1>0. TypeOK
  BY DEF IInv
<1>1. pc[h] # "idle" => c \in Op /\ phase[c] # "new"
  BY <1>0, CurrentIsNamed DEF IInv, OnlyStarted
<1>2. phase' = phase /\ Verdicts' = Verdicts
  BY <1>0, HandlerFrame DEF Verdict
<1>3. CASE SetEvent(h)
  <2>1. c \in Op /\ list' = list /\ Completed' = Completed \cup {c}
    BY <1>0, <1>1, <1>3 DEF SetEvent, TypeOK
  <2>2. CASE c \in Completed
    BY <1>2, <2>1, <2>2 DEF Caller!vars
  <2>3. CASE c \notin Completed
    <3>1. c \in list
      BY <1>1, <1>3, <2>3 DEF SetEvent, IInv, LeavesListOnlyCompleted
    <3> QED
      BY <1>2, <2>1, <2>3, <3>1 DEF Caller!Next, Caller!Complete
  <2> QED
    BY <2>2, <2>3
<1>4. CASE RemoveFromList(h)
  <2>1. c \in Completed /\ Completed' = Completed /\ list' = list \ {c}
    BY <1>1, <1>4 DEF RemoveFromList, IInv, HandlerProgress, Set
  <2>2. CASE c \in list
    BY <1>2, <2>1, <2>2 DEF Caller!Next, Caller!Drop
  <2>3. CASE c \notin list
    <3>1. list' = list
      BY <2>1, <2>3
    <3> QED
      BY <1>2, <2>1, <3>1 DEF Caller!vars
  <2> QED
    BY <2>2, <2>3
<1>5. CASE \/ Get(h) \/ Assign(h) \/ ReadOwner(h) \/ CallOwner(h)
           \/ ClearOwner(h) \/ Recover(h)
  BY <1>5, HiddenStep DEF Get, StoreFirst, Assign, ReadOwner, CallOwner, ClearOwner, OwnedAfter, Recover,
     ticketVars
<1> QED
  BY <1>3, <1>4, <1>5 DEF Handle

\* Every behaviour of the tickets, with its races and its dying handlers, is a
\* behaviour of RoundTrip.
THEOREM Implementation == Spec => ImplementsRoundTrip
<1>1. ASSUME IInv, [Next]_vars PROVE [Caller!Next]_(Caller!vars)
  <2>1. ASSUME NEW h \in Handler, NEW m \in Batch, Deliver(h, m)
        PROVE  [Caller!Next]_(Caller!vars)
    BY <2>1, HiddenStep DEF Deliver, ticketVars
  <2>2. CASE UNCHANGED vars
    BY <2>2, HiddenStep DEF vars, ticketVars
  <2> QED
    BY <1>1, <2>1, <2>2, RequesterStep, HandlerStep DEF Next
<1> QED
  BY <1>1, RoundTripInit, Invariance, PTL DEF Spec, ImplementsRoundTrip, Caller!Spec
=============================================================================
