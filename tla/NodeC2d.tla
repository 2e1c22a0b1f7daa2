--------------------------------- MODULE NodeC2d --------------------------------
(***************************************************************************)
(* The cloud-to-device test of the Node.js device app: the listener of     *)
(* startListeningC2dMessages in nodejs/device/src/index.ts, which counts   *)
(* the numbered messages that arrive and those that are missing.           *)
(*                                                                         *)
(* The sender is not in the repository.  It numbers its messages from 0;   *)
(* each is delivered at any time, more than once, or never.                *)
(***************************************************************************)
EXTENDS Integers, FiniteSets

CONSTANTS
  NMessages,     \* bound: numbered messages
  MaxCopies      \* bound: deliveries of each

ASSUME C2dAssumption == NMessages \in Nat \ {0} /\ MaxCopies \in Nat

Index == 0..(NMessages - 1)
Undefined == -1

VARIABLES
  sent,              \* messages numbered so far
  copies,            \* [Index -> deliveries so far]
  maxReceivedIndex,  \* the highest index received, or Undefined
  firstIndex,        \* history: the first index received, or Undefined
  received,          \* receiveC2dCountReceived
  missing            \* receiveC2dCountMissing

c2dVars == <<sent, copies, maxReceivedIndex, firstIndex, received, missing>>

C2dInit ==
  /\ sent = 0 /\ copies = [i \in Index |-> 0]
  /\ maxReceivedIndex = Undefined /\ firstIndex = Undefined
  /\ received = 0 /\ missing = 0

-----------------------------------------------------------------------------

Send ==
  /\ sent < NMessages /\ sent' = sent + 1
  /\ UNCHANGED <<copies, maxReceivedIndex, firstIndex, received, missing>>

\* The listener gets a message of this run and completes it.  One that cannot be
\* parsed, is of another run or has no index is rejected and changes nothing; a
\* completion or rejection that raises is one of the other limits of NodeRun.
Deliver(i) ==
  /\ i < sent /\ copies[i] < MaxCopies
  /\ copies' = [copies EXCEPT ![i] = @ + 1]
  /\ UNCHANGED sent

Known == maxReceivedIndex # Undefined

ReceiveInitial(i) ==
  /\ Deliver(i) /\ ~Known
  /\ maxReceivedIndex' = i /\ firstIndex' = i
  /\ received' = received + 1
  /\ UNCHANGED missing

ReceiveNext(i) ==
  /\ Deliver(i) /\ Known
  /\ i = maxReceivedIndex + 1
  /\ maxReceivedIndex' = i
  /\ received' = received + 1
  /\ UNCHANGED <<firstIndex, missing>>

\* Mutant: the index that came is counted among the missing.
GapWithLast(i) == i - maxReceivedIndex

\* The indices between the highest and i.
Gap(i) == i - maxReceivedIndex - 1

\* The indices between are taken for lost.
ReceiveSkipping(i) ==
  /\ Deliver(i) /\ Known
  /\ i > maxReceivedIndex + 1
  /\ missing' = missing + Gap(i)
  /\ maxReceivedIndex' = i
  /\ received' = received + 1
  /\ UNCHANGED firstIndex

ReceiveOld(i) ==
  /\ Deliver(i) /\ Known
  /\ i <= maxReceivedIndex
  /\ UNCHANGED <<maxReceivedIndex, firstIndex, received, missing>>

Receive(i) == ReceiveInitial(i) \/ ReceiveNext(i) \/ ReceiveSkipping(i) \/ ReceiveOld(i)

\* A call of the listener.
C2dMessage == \E i \in Index : Receive(i)

C2dNext == Send \/ C2dMessage

C2dSpec == C2dInit /\ [][C2dNext]_c2dVars

-----------------------------------------------------------------------------

Delivered == {i \in Index : copies[i] > 0}

C2dTypeOK ==
  /\ sent \in 0..NMessages
  /\ copies \in [Index -> 0..MaxCopies]
  /\ maxReceivedIndex \in Index \cup {Undefined}
  /\ firstIndex \in Index \cup {Undefined}
  /\ received \in Nat /\ missing \in Nat

\* Every index from the first to the highest is counted once, as received or as
\* missing, whatever is lost, late or delivered again (index.ts:287-323).
EachIndexCountedOnce ==
  IF Known THEN received + missing = maxReceivedIndex - firstIndex + 1
           ELSE received = 0 /\ missing = 0

\* No message is counted as received that did not come, and a late one stays
\* missing: what was delivered is at least what is counted.
ReceivedWereDelivered == received <= Cardinality(Delivered)
=============================================================================
