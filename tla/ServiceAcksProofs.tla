-------------------------- MODULE ServiceAcksProofs --------------------------
(***************************************************************************)
(* Proofs about ServiceAcks, for any operations, devices and dispatching   *)
(* threads and any number of deliveries.                                   *)
(***************************************************************************)
EXTENDS ServiceAcks, TLAPS

-----------------------------------------------------------------------------
(***************************************************************************)
(* What the queues hold after an append and after a get.                   *)
(***************************************************************************)

LEMMA RangeOfAppend ==
  ASSUME NEW S, NEW q \in Seq(S), NEW e \in S
  PROVE  Append(q, e) \in Seq(S) /\ Range(Append(q, e)) = Range(q) \cup {e}
<1>1. DOMAIN q = 1..Len(q) /\ DOMAIN Append(q, e) = 1..(Len(q) + 1)
  OBVIOUS
<1>2. \A i \in 1..Len(q) : Append(q, e)[i] = q[i]
  OBVIOUS
<1>3. Append(q, e)[Len(q) + 1] = e
  OBVIOUS
<1>4. Len(q) \in Nat
  OBVIOUS
<1> QED
  BY <1>1, <1>2, <1>3, <1>4 DEF Range

LEMMA RangeOfTail ==
  ASSUME NEW S, NEW q \in Seq(S), q # <<>>
  PROVE  /\ Head(q) \in S /\ Tail(q) \in Seq(S)
         /\ Range(q) = {Head(q)} \cup Range(Tail(q))
<1>1. /\ Len(q) \in Nat \ {0} /\ DOMAIN q = 1..Len(q)
      /\ Tail(q) \in Seq(S) /\ Len(Tail(q)) = Len(q) - 1
      /\ DOMAIN Tail(q) = 1..(Len(q) - 1)
      /\ Head(q) = q[1] /\ Head(q) \in S
  OBVIOUS
<1>2. \A i \in 1..(Len(q) - 1) : Tail(q)[i] = q[i + 1]
  OBVIOUS
<1>3. Range(q) \subseteq {Head(q)} \cup Range(Tail(q))
  <2> SUFFICES ASSUME NEW i \in 1..Len(q), i # 1 PROVE q[i] \in Range(Tail(q))
    BY <1>1 DEF Range
  <2>1. i - 1 \in 1..(Len(q) - 1) /\ Tail(q)[i - 1] = q[i]
    BY <1>1, <1>2
  <2> QED
    BY <1>1, <2>1 DEF Range
<1>4. {Head(q)} \cup Range(Tail(q)) \subseteq Range(q)
  <2>1. \A i \in 1..(Len(q) - 1) : i + 1 \in 1..Len(q)
    BY <1>1
  <2> QED
    BY <1>1, <1>2, <2>1 DEF Range
<1> QED
  BY <1>1, <1>3, <1>4

-----------------------------------------------------------------------------
(***************************************************************************)
(* Type correctness.                                                       *)
(***************************************************************************)

LEMMA TypeInit == Init => TypeOK
<1> SUFFICES ASSUME Init PROVE TypeOK
  OBVIOUS
<1>1. <<>> \in Seq(Operation) /\ <<>> \in Seq(Seq(Operation))
  OBVIOUS
<1>2. \A o \in Operation : 0 <= MaxDeliveries[o]
  BY AcksAssumption
<1> QED
  BY <1>1, <1>2 DEF Init, TypeOK

\* The part of TypeOK a dispatching thread's own step has to keep.
ThreadTypeOK ==
  /\ pc \in [Thread -> {"idle", "lookup", "call", "put", "force"}]
  /\ op \in [Thread -> Operation \cup {NoOp}]
  /\ \A t \in Thread :
       /\ pc[t] # "idle" => op[t] \in Operation
       /\ pc[t] = "force" => op[t] \in Urgent

LEMMA ReturnType ==
  ASSUME ThreadTypeOK, NEW t \in Thread, Return(t) PROVE ThreadTypeOK'
BY DEF ThreadTypeOK, Return

LEMMA TypeNext == TypeOK /\ [Next]_vars => TypeOK'
<1> SUFFICES ASSUME TypeOK, [Next]_vars PROVE TypeOK'
  OBVIOUS
<1> USE AcksAssumption DEF inVars, respVars, c2dVars, outVars
<1>1. ASSUME NEW t \in Thread, Dispatch(t) PROVE TypeOK'
  <2>0. ThreadTypeOK
    BY DEF TypeOK, ThreadTypeOK
  <2>1. CASE LookUp(t)
    <3>1. op[t] \in Operation
      BY <2>1 DEF LookUp, TypeOK
    <3>2. ThreadTypeOK'
      <4>1. ASSUME NEW p \in {"call", "put"}, pc' = [pc EXCEPT ![t] = p], op' = op
            PROVE  ThreadTypeOK'
        BY <2>0, <3>1, <4>1 DEF ThreadTypeOK
      <4> QED
        BY <2>0, <2>1, <4>1, ReturnType DEF LookUp
    <3> QED
      BY <2>1, <3>1, <3>2 DEF LookUp, TypeOK, ThreadTypeOK
  <2>2. CASE Put(t)
    <3>1. op[t] \in Operation /\ respQueue \in Seq(Operation)
          /\ c2dQueue \in Seq(Seq(Operation))
      BY <2>2 DEF Put, TypeOK
    <3>2. <<op[t]>> \in Seq(Operation)
      BY <3>1
    <3>3. Append(respQueue, op[t]) \in Seq(Operation)
      BY <3>1
    <3>4. Append(c2dQueue, <<op[t]>>) \in Seq(Seq(Operation))
      BY <3>1, <3>2
    <3>5. ThreadTypeOK'
      <4>1. CASE op[t] \in Urgent /\ pc' = [pc EXCEPT ![t] = "force"] /\ op' = op
        BY <2>0, <3>1, <4>1 DEF ThreadTypeOK
      <4> QED
        BY <2>0, <2>2, <4>1, ReturnType DEF Put
    <3>6. respQueue' \in Seq(Operation) /\ c2dQueue' \in Seq(Seq(Operation))
      BY <2>2, <3>1, <3>3, <3>4 DEF Put
    <3> QED
      BY <2>2, <3>5, <3>6 DEF Put, TypeOK, ThreadTypeOK
  <2>3. CASE SetForce(t)
    <3>1. ThreadTypeOK'
      BY <2>0, <2>3, ReturnType DEF SetForce
    <3> QED
      BY <2>3, <3>1 DEF SetForce, TypeOK, ThreadTypeOK
  <2> QED
    BY <1>1, <2>1, <2>2, <2>3 DEF Dispatch
<1>2. ASSUME NEW t \in Thread, NEW o \in Operation, Deliver(t, o) PROVE TypeOK'
  <2>1. /\ deliveries' \in [Operation -> Nat]
        /\ \A x \in Operation : deliveries'[x] <= MaxDeliveries[x]
    <3>1. deliveries[o] + 1 \in Nat /\ deliveries[o] + 1 <= MaxDeliveries[o]
      BY <1>2, AcksAssumption DEF Deliver, TypeOK
    <3> QED
      BY <1>2, <3>1 DEF Deliver, TypeOK
  <2>2. ThreadTypeOK'
    BY <1>2 DEF Deliver, TypeOK, ThreadTypeOK
  <2> QED
    BY <1>2, <2>1, <2>2 DEF Deliver, TypeOK, ThreadTypeOK
<1>2a. ASSUME NEW t \in Thread, Invoke(t) PROVE TypeOK'
  <2>0. ThreadTypeOK
    BY DEF TypeOK, ThreadTypeOK
  <2>1. op[t] \in Operation
    BY <1>2a DEF Invoke, CallReturns, CallRaises, TypeOK
  <2>2. ThreadTypeOK'
    <3>1. CASE pc' = [pc EXCEPT ![t] = "put"] /\ op' = op
      BY <2>0, <2>1, <3>1 DEF ThreadTypeOK
    <3> QED
      BY <1>2a, <2>0, <3>1, ReturnType DEF Invoke, CallReturns, CallRaises
  <2> QED
    BY <1>2a, <2>1, <2>2 DEF Invoke, CallReturns, CallRaises, TypeOK, ThreadTypeOK
<1>3. ASSUME NEW d \in Device, ChangePairing(d) PROVE TypeOK'
  BY <1>3 DEF ChangePairing, TypeOK
<1>4. CASE Respond
  <2>1. CASE Drain
    <3> DEFINE o == Head(respQueue)
               e == DeviceOf[o]
    <3>1. o \in Operation /\ respQueue' \in Seq(Operation)
      BY <2>1, RangeOfTail DEF Drain, TypeOK
    <3>2. e \in Device /\ batch[e] \in Seq(Operation)
      BY <3>1 DEF TypeOK
    <3>3. Append(batch[e], o) \in Seq(Operation)
      BY <3>1, <3>2, RangeOfAppend
    <3>4. batch' \in [Device -> Seq(Operation)]
      BY <2>1, <3>2, <3>3 DEF Drain, WithoutCopies, TypeOK
    <3> QED
      BY <2>1, <3>1, <3>4 DEF Drain, TypeOK
  <2>2. CASE Drained
    BY <2>2 DEF Drained, TypeOK
  <2>3. CASE StartWait
    BY <2>3 DEF StartWait, ForceKept, TypeOK
  <2>4. CASE Forced
    BY <2>4 DEF Forced, TypeOK
  <2>5. CASE Clear
    BY <2>5 DEF Clear, TypeOK
  <2>6. ASSUME NEW d \in Device, SendBatch(d) PROVE TypeOK'
    <3>1. batch[d] \in Seq(Operation) /\ <<>> \in Seq(Operation)
      BY DEF TypeOK
    <3>2. Range(batch[d]) \subseteq Operation
      BY <3>1 DEF Range
    <3>3. c2dQueue' \in Seq(Seq(Operation))
      <4>1. c2dQueue \in Seq(Seq(Operation))
        BY DEF TypeOK
      <4>2. Append(c2dQueue, batch[d]) \in Seq(Seq(Operation))
        BY <3>1, <4>1
      <4> QED
        BY <2>6, <4>1, <4>2 DEF SendBatch
    <3>4. batch' \in [Device -> Seq(Operation)]
      BY <2>6, <3>1 DEF SendBatch, Taken, TypeOK
    <3> QED
      BY <2>6, <3>2, <3>3, <3>4 DEF SendBatch, Taken, TypeOK
  <2> QED
    BY <1>4, <2>1, <2>2, <2>3, <2>4, <2>5, <2>6 DEF Respond
<1>5. CASE Elapsed
  BY <1>5 DEF Elapsed, TypeOK
<1>6. CASE Transmit
  <2>1. <<>> \in Seq(Operation)
    OBVIOUS
  <2>2. CASE GetC2d
    <3>1. CASE c2dQueue # <<>>
      <4>1. c2dQueue \in Seq(Seq(Operation))
        BY DEF TypeOK
      <4>2. Head(c2dQueue) \in Seq(Operation) /\ Tail(c2dQueue) \in Seq(Seq(Operation))
        BY <3>1, <4>1
      <4> QED
        BY <2>2, <3>1, <4>2 DEF GetC2d, TypeOK
    <3>2. CASE c2dQueue = <<>>
      BY <2>2, <3>2 DEF GetC2d, TypeOK
    <3> QED  BY <3>1, <3>2
  <2>3. CASE SendC2d
    BY <2>1, <2>3 DEF SendC2d, TypeOK
  <2>4. CASE SendC2dRaises
    <3>1. Range(c2dMsg) \subseteq Operation
      BY DEF TypeOK, Range
    <3> QED
      BY <2>1, <2>4, <3>1 DEF SendC2dRaises, TypeOK
  <2> QED
    BY <1>6, <2>2, <2>3, <2>4 DEF Transmit
<1>7. CASE Finish
  BY <1>7 DEF Finish, TypeOK
<1>8. CASE UNCHANGED vars
  BY <1>8 DEF vars, TypeOK
<1> QED
  BY <1>1, <1>2, <1>2a, <1>3, <1>4, <1>5, <1>6, <1>7, <1>8 DEF Next

\* Every queue and batch only ever holds operation ids, and a batch is empty
\* while the batching thread sleeps.
THEOREM TypeCorrect == Spec => []TypeOK
<1> QED
  BY TypeInit, TypeNext, PTL DEF Spec

-----------------------------------------------------------------------------
(***************************************************************************)
(* No wake-up is lost.  The invariant has to hold from the moment the      *)
(* queue was found empty, not only while the thread waits.                 *)
(***************************************************************************)

Announced ==
  \A o \in Range(respQueue) \cap Urgent :
    \E t \in Thread : pc[t] = "force" /\ op[t] = o

Wakeful == respPc \in {"send", "wait"} /\ ~force => Announced

\* Steps after which every thread that was about to set the event still is.
LEMMA AnnouncedStays ==
  ASSUME Announced, Range(respQueue') \subseteq Range(respQueue),
         \A t \in Thread : pc[t] = "force" => pc'[t] = "force" /\ op'[t] = op[t]
  PROVE  Announced'
BY DEF Announced

LEMMA WakefulNext == TypeOK /\ Wakeful /\ [Next]_vars => Wakeful'
<1> SUFFICES ASSUME TypeOK, Wakeful, [Next]_vars,
                    respPc' \in {"send", "wait"}, ~force'
             PROVE  Announced'
  BY DEF Wakeful
<1> USE DEF inVars, respVars, c2dVars, outVars
<1>1. ASSUME NEW t \in Thread, Dispatch(t) PROVE Announced'
  <2>1. CASE LookUp(t)
    <3>1. \A s \in Thread : pc[s] = "force" => pc'[s] = "force" /\ op'[s] = op[s]
      BY <2>1 DEF LookUp, Return, TypeOK
    <3> QED
      BY <2>1, <3>1, AnnouncedStays DEF LookUp, Wakeful
  <2>2. CASE Put(t)
    <3>1. Announced
      BY <2>2 DEF Put, Wakeful
    <3>2. \A s \in Thread : pc[s] = "force" => pc'[s] = "force" /\ op'[s] = op[s]
      BY <2>2 DEF Put, Return, TypeOK
    <3>3. op[t] \in Operation /\ respQueue \in Seq(Operation)
      BY <2>2 DEF Put, TypeOK
    <3>4. CASE respQueue' = respQueue
      BY <3>1, <3>2, <3>4, AnnouncedStays
    <3>5. CASE respQueue' = Append(respQueue, op[t])
      <4>1. Range(respQueue') = Range(respQueue) \cup {op[t]}
        BY <3>3, <3>5, RangeOfAppend
      <4>2. op[t] \in Urgent => pc'[t] = "force" /\ op'[t] = op[t]
        BY <2>2 DEF Put, TypeOK
      <4> QED
        BY <3>1, <3>2, <4>1, <4>2 DEF Announced
    <3> QED
      BY <2>2, <3>4, <3>5 DEF Put
  <2>3. CASE SetForce(t)
    BY <2>3 DEF SetForce
  <2> QED
    BY <1>1, <2>1, <2>2, <2>3 DEF Dispatch
<1>2. ASSUME NEW t \in Thread, NEW o \in Operation, Deliver(t, o) PROVE Announced'
  <2>1. \A s \in Thread : pc[s] = "force" => pc'[s] = "force" /\ op'[s] = op[s]
    BY <1>2 DEF Deliver, TypeOK
  <2> QED
    BY <1>2, <2>1, AnnouncedStays DEF Deliver, Wakeful
<1>3. CASE Respond
  <2>1. CASE Drained
    BY <2>1 DEF Drained, Announced, Range
  <2>2. CASE StartWait \/ \E d \in Device : SendBatch(d)
    BY <2>2, AnnouncedStays DEF StartWait, ForceKept, SendBatch, Wakeful
  <2> QED
    BY <1>3, <2>1, <2>2 DEF Respond, Drain, Forced, Clear
<1>4. CASE Transmit
  BY <1>4, AnnouncedStays DEF Transmit, GetC2d, SendC2d, SendC2dRaises, Wakeful
<1>5. CASE Elapsed \/ Finish \/ (\E d \in Device : ChangePairing(d)) \/ UNCHANGED vars
  BY <1>5, AnnouncedStays DEF Elapsed, Finish, ChangePairing, vars, Wakeful
<1>6. ASSUME NEW t \in Thread, Invoke(t) PROVE Announced'
  <2>1. \A s \in Thread : pc[s] = "force" => pc'[s] = "force" /\ op'[s] = op[s]
    BY <1>6 DEF Invoke, CallReturns, CallRaises, Return, TypeOK
  <2> QED
    BY <1>6, <2>1, AnnouncedStays DEF Invoke, CallReturns, CallRaises, Wakeful
<1> QED
  BY <1>1, <1>2, <1>3, <1>4, <1>5, <1>6 DEF Next

\* The batching thread never sleeps on an urgent id: force is set before it
\* begins to wait, or will be by the thread that queued the id.
THEOREM NoLostWakeUp == Spec => []UrgentNeverWaits
<1>1. Init => Wakeful
  BY DEF Init, Wakeful
<1>2. Wakeful => UrgentNeverWaits
  BY DEF Wakeful, Announced, UrgentNeverWaits
<1> QED
  BY <1>1, <1>2, WakefulNext, TypeCorrect, PTL DEF Spec

-----------------------------------------------------------------------------
(***************************************************************************)
(* No acknowledgement vanishes.                                            *)
(***************************************************************************)

Accounted(o) == InFlight(o) \/ acks[o] > 0 \/ o \in dropped

Busy(o) == \E t \in Thread : pc[t] \in {"lookup", "call", "put"} /\ op[t] = o

\* The steps of the batching thread and of the sender lose nothing.
LEMMA RespondKeeps ==
  ASSUME TypeOK, Respond, NEW o \in Operation, Accounted(o) PROVE Accounted(o)'
<1> USE DEF inVars, respVars, c2dVars, outVars
<1>1. CASE Drain
  <2> DEFINE h == Head(respQueue)
             e == DeviceOf[h]
  <2>1. respQueue \in Seq(Operation) /\ respQueue # <<>>
        /\ respQueue' = Tail(respQueue)
    BY <1>1 DEF Drain, TypeOK
  <2>2. h \in Operation /\ Range(respQueue) = {h} \cup Range(respQueue')
    BY <2>1, RangeOfTail
  <2>3. e \in Device /\ batch[e] \in Seq(Operation)
    BY <2>2, AcksAssumption DEF TypeOK
  <2>4. Range(Append(batch[e], h)) = Range(batch[e]) \cup {h}
    BY <2>2, <2>3, RangeOfAppend
  <2>5. batch' = [batch EXCEPT ![e] = IF h \in Range(batch[e]) THEN batch[e]
                                      ELSE Append(batch[e], h)]
    BY <1>1 DEF Drain, WithoutCopies
  <2>6. Range(batch'[e]) = Range(batch[e]) \cup {h}
        /\ \A d \in Device \ {e} : batch'[d] = batch[d]
    BY <2>3, <2>4, <2>5 DEF TypeOK
  <2>7. UNCHANGED <<c2dQueue, c2dMsg, acks, dropped>>
    BY <1>1 DEF Drain
  <2> QED
    BY <2>2, <2>3, <2>6, <2>7 DEF Accounted, InFlight
<1>2. ASSUME NEW d \in Device, SendBatch(d) PROVE Accounted(o)'
  <2>1. /\ \A e \in Device \ {d} : batch'[e] = batch[e]
        /\ UNCHANGED <<respQueue, c2dMsg, acks>>
    BY <1>2 DEF SendBatch, Taken, TypeOK
  <2>2. CASE d \in paired
    <3>1. c2dQueue \in Seq(Seq(Operation)) /\ batch[d] \in Seq(Operation)
          /\ c2dQueue' = Append(c2dQueue, batch[d]) /\ dropped' = dropped
      BY <1>2, <2>2 DEF SendBatch, Taken, TypeOK
    <3>2. Range(c2dQueue') = Range(c2dQueue) \cup {batch[d]}
      BY <3>1, RangeOfAppend
    <3> QED
      BY <2>1, <3>1, <3>2 DEF Accounted, InFlight
  <2>3. CASE d \notin paired
    <3>1. dropped' = dropped \cup Range(batch[d]) /\ c2dQueue' = c2dQueue
      BY <1>2, <2>3 DEF SendBatch
    <3> QED
      BY <2>1, <3>1 DEF Accounted, InFlight
  <2> QED
    BY <2>2, <2>3
<1>3. CASE Drained \/ StartWait \/ Forced \/ Clear
  BY <1>3 DEF Drained, StartWait, Forced, Clear, Accounted, InFlight
<1> QED
  BY <1>1, <1>2, <1>3 DEF Respond

LEMMA TransmitKeeps ==
  ASSUME TypeOK, Transmit, NEW o \in Operation, Accounted(o) PROVE Accounted(o)'
<1> USE DEF inVars, respVars, c2dVars, outVars
<1>1. CASE GetC2d /\ c2dQueue # <<>>
  <2>1. c2dQueue \in Seq(Seq(Operation)) /\ c2dQueue' = Tail(c2dQueue)
        /\ c2dMsg = <<>> /\ c2dMsg' = Head(c2dQueue)
        /\ UNCHANGED <<respQueue, batch, acks, dropped>>
    BY <1>1 DEF GetC2d, TypeOK
  <2>2. Range(c2dQueue) = {c2dMsg'} \cup Range(c2dQueue')
    BY <1>1, <2>1, RangeOfTail
  <2>3. Range(c2dMsg) = {}
    BY <2>1 DEF Range
  <2> QED
    BY <2>1, <2>2, <2>3 DEF Accounted, InFlight
<1>2. CASE GetC2d /\ c2dQueue = <<>>
  BY <1>2 DEF GetC2d, Accounted, InFlight
<1>3. CASE SendC2d
  <2>1. acks'[o] = IF o \in Range(c2dMsg) THEN acks[o] + 1 ELSE acks[o]
    BY <1>3 DEF SendC2d
  <2>2. acks[o] \in Nat
    BY DEF TypeOK
  <2>3. UNCHANGED <<respQueue, batch, c2dQueue, dropped>>
    BY <1>3 DEF SendC2d
  <2>4. CASE o \in Range(c2dMsg)
    <3>1. acks'[o] > 0
      BY <2>1, <2>2, <2>4
    <3> QED
      BY <3>1 DEF Accounted
  <2>5. CASE o \notin Range(c2dMsg)
    <3>1. acks'[o] = acks[o]
      BY <2>1, <2>5
    <3>2. Accounted(o) => \/ acks[o] > 0 \/ o \in dropped \/ o \in Range(respQueue)
                          \/ \E d \in Device : o \in Range(batch[d])
                          \/ \E m \in Range(c2dQueue) : o \in Range(m)
      BY <2>5 DEF Accounted, InFlight
    <3> QED
      BY <2>3, <3>1, <3>2 DEF Accounted, InFlight
  <2> QED
    BY <2>4, <2>5
<1>4. CASE SendC2dRaises
  BY <1>4 DEF SendC2dRaises, Accounted, InFlight
<1> QED
  BY <1>1, <1>2, <1>3, <1>4 DEF Transmit

\* A dispatching thread that is done with an operation left it accounted for.
LEMMA DispatchKeeps ==
  ASSUME TypeOK, NEW t \in Thread, Dispatch(t), NEW o \in Operation,
         Accounted(o) \/ Busy(o)
  PROVE  Accounted(o)' \/ Busy(o)'
<1> USE DEF inVars, respVars, c2dVars, outVars
<1>0. \A s \in Thread \ {t} : pc'[s] = pc[s] /\ op'[s] = op[s]
  BY DEF Dispatch, LookUp, Put, SetForce, Return, TypeOK
<1>1. CASE LookUp(t)
  <2>1. /\ dropped \subseteq dropped'
        /\ UNCHANGED <<respQueue, batch, c2dQueue, c2dMsg, acks>>
        /\ pc[t] = "lookup"
        /\ (pc'[t] \in {"call", "put"} /\ op'[t] = op[t]) \/ op[t] \in dropped'
    BY <1>1 DEF LookUp, TypeOK
  <2> QED
    BY <1>0, <2>1 DEF Accounted, InFlight, Busy
<1>2. CASE Put(t)
  <2>1. /\ pc[t] = "put" /\ op[t] \in Operation
        /\ respQueue \in Seq(Operation) /\ c2dQueue \in Seq(Seq(Operation))
        /\ UNCHANGED <<batch, c2dMsg, acks, dropped>>
    BY <1>2 DEF Put, TypeOK
  <2>2. CASE op[t] \in Direct
    <3> DEFINE m == <<op[t]>>
    <3>1. respQueue' = respQueue /\ c2dQueue' = Append(c2dQueue, m)
      BY <1>2, <2>2 DEF Put
    <3>2. m \in Seq(Operation)
      BY <2>1
    <3>3. op[t] \in Range(m)
      <4>1. 1 \in DOMAIN m /\ m[1] = op[t]
        OBVIOUS
      <4> QED
        BY <4>1 DEF Range
    <3> HIDE DEF m
    <3>4. Range(c2dQueue') = Range(c2dQueue) \cup {m}
      BY <2>1, <3>1, <3>2, RangeOfAppend
    <3> QED
      BY <1>0, <2>1, <3>1, <3>3, <3>4 DEF Accounted, InFlight, Busy
  <2>3. CASE op[t] \notin Direct
    <3>1. c2dQueue' = c2dQueue /\ respQueue' = Append(respQueue, op[t])
      BY <1>2, <2>3 DEF Put
    <3>2. Range(respQueue') = Range(respQueue) \cup {op[t]}
      BY <2>1, <3>1, RangeOfAppend
    <3> QED
      BY <1>0, <2>1, <3>1, <3>2 DEF Accounted, InFlight, Busy
  <2> QED
    BY <2>2, <2>3
<1>3. CASE SetForce(t)
  BY <1>0, <1>3 DEF SetForce, Accounted, InFlight, Busy
<1> QED
  BY <1>1, <1>2, <1>3 DEF Dispatch

\* So does a call that returns or raises, unless nobody waits for its answer.
LEMMA CallKeeps ==
  ASSUME TypeOK, NEW t \in Thread, Invoke(t),
         NEW o \in Operation \ Command, Accounted(o) \/ Busy(o)
  PROVE  Accounted(o)' \/ Busy(o)'
<1> USE DEF inVars, respVars, c2dVars, outVars
<1>1. /\ \A s \in Thread \ {t} : pc'[s] = pc[s] /\ op'[s] = op[s]
      /\ dropped \subseteq dropped'
      /\ UNCHANGED <<respQueue, batch, c2dQueue, c2dMsg, acks>>
      /\ \/ pc'[t] = "put" /\ op'[t] = op[t]
         \/ op[t] \in dropped'
         \/ op[t] \in Command
  BY DEF Invoke, CallReturns, CallRaises, Return, TypeOK
<1> QED
  BY <1>1 DEF Accounted, InFlight, Busy

LEMMA AcksNext == TypeOK /\ NoAckVanishes /\ [Next]_vars => NoAckVanishes'
<1> SUFFICES ASSUME TypeOK, NoAckVanishes, [Next]_vars, NEW o \in Operation \ Command,
                    deliveries'[o] > 0
             PROVE  Accounted(o)' \/ Busy(o)'
  BY DEF NoAckVanishes, Accounted, Busy
<1>0. deliveries[o] > 0 => Accounted(o) \/ Busy(o)
  BY DEF NoAckVanishes, Accounted, Busy
<1> USE DEF inVars, respVars, c2dVars, outVars
<1>1. ASSUME NEW t \in Thread, NEW p \in Operation, Deliver(t, p)
      PROVE  Accounted(o)' \/ Busy(o)'
  <2>1. /\ UNCHANGED <<respQueue, batch, c2dQueue, c2dMsg, acks, dropped>>
        /\ pc'[t] = "lookup" /\ op'[t] = p /\ pc[t] = "idle"
        /\ \A s \in Thread \ {t} : pc'[s] = pc[s] /\ op'[s] = op[s]
        /\ o # p => deliveries'[o] = deliveries[o]
    BY <1>1 DEF Deliver, TypeOK
  <2> QED
    BY <1>0, <2>1 DEF Accounted, InFlight, Busy
<1>2. ASSUME NEW t \in Thread, Dispatch(t) PROVE Accounted(o)' \/ Busy(o)'
  <2>1. deliveries' = deliveries
    BY <1>2 DEF Dispatch, LookUp, Put, SetForce
  <2> QED
    BY <1>0, <1>2, <2>1, DispatchKeeps
<1>3. CASE Respond
  <2>1. UNCHANGED <<deliveries, pc, op>>
    BY <1>3 DEF Respond, Drain, Drained, StartWait, Forced, Clear, SendBatch
  <2> QED
    BY <1>0, <1>3, <2>1, RespondKeeps DEF Busy
<1>4. CASE Transmit
  <2>1. UNCHANGED <<deliveries, pc, op>>
    BY <1>4 DEF Transmit, GetC2d, SendC2d, SendC2dRaises
  <2> QED
    BY <1>0, <1>4, <2>1, TransmitKeeps DEF Busy
<1>5. CASE Elapsed \/ Finish \/ (\E d \in Device : ChangePairing(d)) \/ UNCHANGED vars
  BY <1>0, <1>5 DEF Elapsed, Finish, ChangePairing, vars, Accounted, InFlight, Busy
<1>6. ASSUME NEW t \in Thread, Invoke(t)
      PROVE  Accounted(o)' \/ Busy(o)'
  <2>1. deliveries' = deliveries
    BY <1>6 DEF Invoke, CallReturns, CallRaises
  <2> QED
    BY <1>0, <1>6, <2>1, CallKeeps
<1> QED
  BY <1>1, <1>2, <1>3, <1>4, <1>5, <1>6 DEF Next

\* Every event that was dispatched and asks for an answer is accounted for: on its
\* way back, answered, or given up because its device is not paired or a call or
\* the send raised.
THEOREM NothingVanishes == Spec => []NoAckVanishes
<1>1. Init => NoAckVanishes
  BY DEF Init, NoAckVanishes
<1> QED
  BY <1>1, AcksNext, TypeCorrect, PTL DEF Spec

-----------------------------------------------------------------------------
(***************************************************************************)
(* No message repeats an operation: the batches must not either.           *)
(***************************************************************************)

LEMMA AppendDistinct ==
  ASSUME NEW S, NEW q \in Seq(S), NEW e \in S, IsInjective(q), e \notin Range(q)
  PROVE  IsInjective(Append(q, e))
<1>1. /\ DOMAIN q = 1..Len(q) /\ DOMAIN Append(q, e) = 1..(Len(q) + 1) /\ Len(q) \in Nat
      /\ \A i \in 1..Len(q) : Append(q, e)[i] = q[i]
      /\ Append(q, e)[Len(q) + 1] = e
  OBVIOUS
<1>2. \A i \in 1..(Len(q) + 1) : i \in 1..Len(q) \/ i = Len(q) + 1
  BY <1>1
<1>3. \A i \in 1..Len(q) : q[i] # e
  BY <1>1 DEF Range
<1> QED
  BY <1>1, <1>2, <1>3 DEF IsInjective

DistinctInv ==
  /\ \A d \in Device : IsInjective(batch[d])
  /\ \A m \in Range(c2dQueue) : IsInjective(m)
  /\ IsInjective(c2dMsg)

LEMMA DistinctNext == TypeOK /\ DistinctInv /\ [Next]_vars => DistinctInv'
<1> SUFFICES ASSUME TypeOK, DistinctInv, [Next]_vars PROVE DistinctInv'
  OBVIOUS
<1> USE DEF inVars, respVars, c2dVars, outVars
<1>0. /\ respQueue \in Seq(Operation) /\ c2dQueue \in Seq(Seq(Operation))
      /\ batch \in [Device -> Seq(Operation)]
  BY DEF TypeOK
<1>1. IsInjective(<<>>)
  BY DEF IsInjective
<1>2. CASE UNCHANGED <<batch, c2dQueue, c2dMsg>>
  BY <1>2 DEF DistinctInv
<1>3. ASSUME NEW t \in Thread, Dispatch(t) PROVE DistinctInv'
  <2>1. CASE Put(t)
    <3> DEFINE m == <<op[t]>>
    <3>1. op[t] \in Operation
      BY <2>1 DEF Put, TypeOK
    <3>2. m \in Seq(Operation) /\ DOMAIN m = {1}
      BY <3>1
    <3>3. IsInjective(m)
      BY <3>2 DEF IsInjective
    <3>4. CASE c2dQueue' = Append(c2dQueue, m)
      <4> HIDE DEF m
      <4>1. Range(c2dQueue') = Range(c2dQueue) \cup {m}
        BY <1>0, <3>2, <3>4, RangeOfAppend
      <4> QED
        BY <2>1, <3>3, <4>1 DEF Put, DistinctInv
    <3> QED
      BY <1>2, <2>1, <3>4 DEF Put
  <2> QED
    BY <1>2, <1>3, <2>1 DEF Dispatch, LookUp, SetForce
<1>4. CASE Respond
  <2>1. CASE Drain
    <3> DEFINE o == Head(respQueue)
               e == DeviceOf[o]
    <3>1. o \in Operation /\ e \in Device
      BY <1>0, <2>1, RangeOfTail, AcksAssumption DEF Drain
    <3>2. batch' = [batch EXCEPT ![e] = WithoutCopies(batch[e], o)]
      BY <1>0, <2>1, <3>1 DEF Drain
    <3>3. IsInjective(WithoutCopies(batch[e], o))
      BY <1>0, <3>1, AppendDistinct DEF WithoutCopies, DistinctInv
    <3> QED
      BY <1>0, <2>1, <3>1, <3>2, <3>3 DEF Drain, DistinctInv
  <2>2. ASSUME NEW d \in Device, SendBatch(d) PROVE DistinctInv'
    <3>1. batch' = [batch EXCEPT ![d] = <<>>] /\ c2dMsg' = c2dMsg
          /\ c2dQueue' \in {c2dQueue, Append(c2dQueue, batch[d])}
      BY <2>2 DEF SendBatch, Taken
    <3>2. Range(Append(c2dQueue, batch[d])) = Range(c2dQueue) \cup {batch[d]}
      BY <1>0, RangeOfAppend
    <3> QED
      BY <1>0, <1>1, <3>1, <3>2 DEF DistinctInv
  <2> QED
    BY <1>2, <1>4, <2>1, <2>2 DEF Respond, Drained, StartWait, Forced, Clear
<1>5. CASE Transmit
  <2>1. CASE GetC2d /\ c2dQueue # <<>>
    <3>1. Head(c2dQueue) \in Range(c2dQueue) /\ Range(Tail(c2dQueue)) \subseteq Range(c2dQueue)
      BY <1>0, <2>1, RangeOfTail
    <3>2. c2dMsg' = Head(c2dQueue) /\ c2dQueue' = Tail(c2dQueue) /\ batch' = batch
      BY <2>1 DEF GetC2d
    <3> QED
      BY <3>1, <3>2 DEF DistinctInv
  <2>2. CASE SendC2d \/ SendC2dRaises
    BY <1>1, <2>2 DEF SendC2d, SendC2dRaises, DistinctInv
  <2> QED
    BY <1>2, <1>5, <2>1, <2>2 DEF Transmit, GetC2d
<1>6. CASE Elapsed \/ Finish \/ (\E d \in Device : ChangePairing(d)) \/ UNCHANGED vars
  BY <1>2, <1>6 DEF Elapsed, Finish, ChangePairing, vars
<1>7. ASSUME NEW t \in Thread, Invoke(t) \/ \E o \in Operation : Deliver(t, o) PROVE DistinctInv'
  BY <1>2, <1>7 DEF Invoke, CallReturns, CallRaises, Deliver
<1> QED
  BY <1>3, <1>4, <1>5, <1>6, <1>7 DEF Next

\* No message names an operation twice, however often EventHub repeats an event
\* and however many devices and threads there are.
THEOREM NoMessageRepeats == Spec => []MessagesRepeatNothing
<1>1. Init => DistinctInv
  BY DEF Init, DistinctInv, IsInjective, Range
<1>2. DistinctInv => MessagesRepeatNothing
  BY DEF DistinctInv, MessagesRepeatNothing
<1> QED
  BY <1>1, <1>2, DistinctNext, TypeCorrect, PTL DEF Spec
=============================================================================
