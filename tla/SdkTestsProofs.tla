---------------------------- MODULE SdkTestsProofs ----------------------------
(***************************************************************************)
(* Proofs about SdkTests, for any number of tickets and service apps and   *)
(* any rules of other programs.  Two facts are carried along with the type *)
(* invariant.  Earned: a ticket that is on its way to be completed has its *)
(* message stored.  Restored: while reconnect_all looks at a listing, the  *)
(* lines it has still to look at are still the rules with those numbers.   *)
(***************************************************************************)
EXTENDS SdkTests, FiniteSetTheorems, SequenceTheorems, TLAPS

HasMessage(t) == result[t] # None

Earned ==
  /\ \A t \in Ticket : HasMessage(t) => <<t, result[t]>> \in answers
  /\ handling # <<>> => handling \in answers
  /\ stored => handling # <<>> /\ HasMessage(handling[1])
  /\ \A i \in DOMAIN callbacks : HasMessage(callbacks[i])
  /\ \A t \in completed : HasMessage(t)
  /\ stage = "paired" => \E t \in Ticket : <<t, instance>> \in answers

TypesLeft == types \in {<<"DROP", "REJECT">>, <<"REJECT">>, <<>>}

\* What is done is gone: the types still to do are the only ones there are rules of.
DoneIsGone ==
  pc \in {"list", "scan"} =>
    \A i \in DOMAIN rules : rules[i] \in Type => rules[i] \in ToSet(types)

\* The lines to look at are still those of the chain, and none of the type at hand
\* is left behind them.
ListingHolds ==
  pc = "scan" =>
    /\ types # <<>> /\ at <= Len(rules)
    /\ \A i \in 1..at : lines[i] = rules[i]
    /\ \A i \in DOMAIN rules : i > at => rules[i] # Head(types)

Restored == TypesLeft /\ DoneIsGone /\ ListingHolds /\ StartsUnblocked

IInv == TypeOK /\ Earned /\ Restored

-----------------------------------------------------------------------------
(***************************************************************************)
(* Sequences of rules.                                                     *)
(***************************************************************************)

\* Deleting a rule moves those behind it forward by one.
LEMMA RemoveAtMoves ==
  ASSUME NEW S, NEW s \in Seq(S), NEW i \in 1..Len(s)
  PROVE  /\ RemoveAt(s, i) \in Seq(S) /\ Len(RemoveAt(s, i)) = Len(s) - 1
         /\ \A j \in 1..(i - 1) : RemoveAt(s, i)[j] = s[j]
         /\ \A j \in i..(Len(s) - 1) : RemoveAt(s, i)[j] = s[j + 1]
<1>. DEFINE front == SubSeq(s, 1, i - 1)
            back == SubSeq(s, i + 1, Len(s))
<1>1. /\ front \in Seq(S) /\ Len(front) = i - 1
      /\ \A j \in 1..(i - 1) : front[j] = s[j]
  OBVIOUS
<1>2. /\ back \in Seq(S) /\ Len(back) = Len(s) - i
      /\ \A j \in 1..(Len(s) - i) : back[j] = s[i + j]
  OBVIOUS
<1>3. RemoveAt(s, i) = front \o back
  BY DEF RemoveAt
<1>. HIDE DEF front, back
<1>4. /\ front \o back \in Seq(S) /\ Len(front \o back) = Len(s) - 1
      /\ \A j \in 1..(i - 1) : (front \o back)[j] = s[j]
  <2>1. front \o back \in Seq(S) /\ Len(front \o back) = Len(front) + Len(back)
    BY <1>1, <1>2, ConcatProperties
  <2>2. ASSUME NEW j \in 1..(i - 1) PROVE (front \o back)[j] = front[j]
    BY <1>1, <1>2, ConcatProperties
  <2>. QED
    BY <1>1, <1>2, <2>1, <2>2
<1>5. ASSUME NEW j \in i..(Len(s) - 1) PROVE (front \o back)[j] = s[j + 1]
  <2>1. j - (i - 1) \in 1..(Len(s) - i) /\ i + (j - (i - 1)) = j + 1
    OBVIOUS
  <2>2. (front \o back)[j] = back[j - (i - 1)]
    BY <1>1, <1>2, <2>1
  <2>. QED
    BY <1>2, <2>1, <2>2
<1>. QED
  BY <1>3, <1>4, <1>5

\* The rules of other programs, in any order, are a sequence.
LEMMA OthersInOrder == SetToSeqs(Other) \subseteq Seq(Other)
<1>1. Cardinality(Other) \in Nat
  BY DropAssumption, FS_CardinalityType
<1>. QED
  BY <1>1 DEF SetToSeqs

LEMMA TailsOfTypes ==
  /\ Tail(<<"DROP", "REJECT">>) = <<"REJECT">> /\ Tail(<<"REJECT">>) = <<>>
  /\ Head(<<"DROP", "REJECT">>) = "DROP" /\ Head(<<"REJECT">>) = "REJECT"
  /\ ToSet(<<"DROP", "REJECT">>) = {"DROP", "REJECT"}
  /\ ToSet(<<"REJECT">>) = {"REJECT"} /\ ToSet(<<>>) = {}
<1>1. ToSet(<<"DROP", "REJECT">>) = {"DROP", "REJECT"}
  BY DEF ToSet
<1>2. ToSet(<<"REJECT">>) = {"REJECT"} /\ ToSet(<<>>) = {}
  BY DEF ToSet
<1>3. Tail(<<"DROP", "REJECT">>) = <<"REJECT">>
  <2>. DEFINE s == <<"DROP", "REJECT">>
  <2>1. s \in Seq({"DROP", "REJECT"}) /\ s # <<>> /\ Len(s) = 2 /\ s[2] = "REJECT"
    OBVIOUS
  <2>2. Tail(s) \in Seq({"DROP", "REJECT"}) /\ Len(Tail(s)) = 1 /\ Tail(s)[1] = "REJECT"
    BY <2>1, HeadTailProperties
  <2>. QED
    BY <2>2
<1>4. Tail(<<"REJECT">>) = <<>>
  OBVIOUS
<1>. QED
  BY <1>1, <1>2, <1>3, <1>4

LEMMA TypesAreTwo == "DROP" # "REJECT" /\ Type = {"DROP", "REJECT"} /\ Type \cap Other = {}
BY DropAssumption DEF Type

-----------------------------------------------------------------------------
(***************************************************************************)
(* Type correctness.                                                       *)
(***************************************************************************)

LEMMA InitInv == Init => IInv
<1>. SUFFICES ASSUME Init PROVE IInv
  OBVIOUS
<1>1. rules \in Seq(Type \cup Other)
  <2>. DEFINE Rule == Type \cup Other
  <2>1. PICK s \in Seq(Other), left \in {<<>>, <<"DROP">>, <<"DROP", "REJECT">>} :
          \E n \in 0..Len(s) : rules = SubSeq(s, 1, n) \o left \o SubSeq(s, n + 1, Len(s))
    BY OthersInOrder DEF Init, DropInit
  <2>2. s \in Seq(Rule)
    <3>1. Len(s) \in Nat /\ s \in [1..Len(s) -> Other]
      OBVIOUS
    <3>. QED
      BY <3>1
  <2>3. "DROP" \in Rule /\ "REJECT" \in Rule
    BY TypesAreTwo
  <2>. HIDE DEF Rule
  <2>4. left \in Seq(Rule)
    <3>1. <<>> \in Seq(Rule) /\ <<"DROP">> \in Seq(Rule) /\ <<"DROP", "REJECT">> \in Seq(Rule)
      BY <2>3
    <3>. QED
      BY <3>1
  <2>5. PICK n \in 0..Len(s) : rules = SubSeq(s, 1, n) \o left \o SubSeq(s, n + 1, Len(s))
    BY <2>1
  <2>6. SubSeq(s, 1, n) \in Seq(Rule) /\ SubSeq(s, n + 1, Len(s)) \in Seq(Rule)
    BY <2>2
  <2>7. SubSeq(s, 1, n) \o left \in Seq(Rule)
    BY <2>4, <2>6, ConcatProperties
  <2>8. rules \in Seq(Rule)
    BY <2>5, <2>6, <2>7, ConcatProperties
  <2>. QED
    BY <2>8 DEF Rule
<1>2. TypeOK
  <2>1. made = 0 /\ awaited = 0 /\ at = 0 /\ Len(lines) \in Nat
    BY DEF Init, DropInit
  <2>2. made \in 0..MaxTickets /\ awaited \in 0..made /\ at \in 0..Len(lines)
    BY <2>1, SdkAssumption
  <2>3. lines \in Seq(Type \cup Other) /\ types \in Seq(Type) /\ callbacks \in Seq(Ticket)
    BY DEF Init, DropInit
  <2>4. /\ handling \in (Ticket \X Instance) \cup {<<>>}
        /\ result \in [Ticket -> Instance \cup {None}] /\ answers \in SUBSET (Ticket \X Instance)
    BY DEF Init
  <2>5. completed \in SUBSET Ticket /\ unsent \in SUBSET Ticket /\ list \in SUBSET Ticket
    BY DEF Init
  <2>. QED
    BY <1>1, <2>2, <2>3, <2>4, <2>5 DEF Init, DropInit, TypeOK, DropTypeOK
<1>3. Earned
  BY SdkAssumption DEF Init, Earned, HasMessage
<1>4. Restored
  BY DEF Init, DropInit, Restored, TypesLeft, DoneIsGone, ListingHolds, StartsUnblocked
<1>. QED
  BY <1>2, <1>3, <1>4 DEF IInv

-----------------------------------------------------------------------------
(***************************************************************************)
(* The network.                                                            *)
(***************************************************************************)

DropStep ==
  \/ StartSession \/ StartTest \/ (\E type \in Type : Disconnect(type))
  \/ Restore \/ Teardown \/ List \/ Scan \/ Raise \/ Kill

LEMMA StepOfNetwork == [Next]_vars => DropStep \/ UNCHANGED dropVars
BY DEF Next, DropStep, vars, Pair, PairTimesOut, PairResponse, PairFails, Send, Wait, Answered,
       TestStep, EndTest, NewSession, EndSession, Transmit, Answer, GetTicket, Handle, Store,
       Schedule, Complete

LEMMA DropType == DropTypeOK /\ Restored /\ DropStep => DropTypeOK'
<1>. SUFFICES ASSUME DropTypeOK, Restored, DropStep PROVE DropTypeOK'
  OBVIOUS
<1>. USE DEF DropTypeOK, restoreVars
<1>0. <<"DROP", "REJECT">> \in Seq(Type)
  BY TypesAreTwo
<1>1. ASSUME NEW caller \in {"import", "body", "teardown"}, Reconnect(caller),
             UNCHANGED rules, failed' \in BOOLEAN
      PROVE  DropTypeOK'
  BY <1>0, <1>1 DEF Reconnect
<1>2. ASSUME Left, UNCHANGED rules, failed' \in BOOLEAN, pc' \in {"down", "idle", "body"}
      PROVE  DropTypeOK'
  BY <1>2 DEF Left
<1>3. CASE List
  <2>1. CASE types = <<>>
    BY <1>2, <1>3, <2>1 DEF List, Resume
  <2>2. CASE types # <<>>
    <3>1. Len(rules) \in 0..Len(rules)
      OBVIOUS
    <3>. QED
      BY <1>3, <2>2, <3>1 DEF List
  <2>. QED
    BY <2>1, <2>2
<1>4. CASE Scan
  <2>1. CASE at = 0
    <3>1. Tail(types) \in Seq(Type)
      <4>. types # <<>>
        BY <1>4 DEF Restored, ListingHolds, Scan
      <4>. QED
        BY HeadTailProperties
    <3>. QED
      BY <1>4, <2>1, <3>1 DEF Scan
  <2>2. CASE at # 0
    <3>1. at - 1 \in 0..Len(lines) /\ Line \in Nat \ {0}
      BY <2>2 DEF Line
    <3>2. rules' \in Seq(Type \cup Other)
      <4>1. Line <= Len(rules) => Line \in 1..Len(rules)
        BY <3>1
      <4>2. Line <= Len(rules) => RemoveAt(rules, Line) \in Seq(Type \cup Other)
        BY <4>1, RemoveAtMoves
      <4>. QED
        BY <1>4, <2>2, <4>2 DEF Scan
    <3>. QED
      BY <1>4, <2>2, <3>1, <3>2 DEF Scan
  <2>. QED
    BY <2>1, <2>2
<1>5. ASSUME NEW type \in Type, Disconnect(type) PROVE DropTypeOK'
  BY <1>5 DEF Disconnect
<1>6. CASE StartSession
  BY <1>1, <1>6 DEF StartSession
<1>7. CASE StartTest
  BY <1>7 DEF StartTest
<1>8. CASE Restore
  BY <1>1, <1>8 DEF Restore
<1>9. CASE Teardown
  BY <1>1, <1>9 DEF Teardown
<1>10. CASE Raise
  BY <1>1, <1>2, <1>10 DEF Raise
<1>11. CASE Kill
  BY <1>2, <1>11 DEF Kill
<1>. QED
  BY <1>3, <1>4, <1>5, <1>6, <1>7, <1>8, <1>9, <1>10, <1>11 DEF DropStep

\* reconnect_all begins with both types to do, so nothing is done yet.
LEMMA ReconnectRestores ==
  ASSUME DropTypeOK, NEW caller, Reconnect(caller), UNCHANGED rules
  PROVE  Restored'
<1>1. ToSet(<<"DROP", "REJECT">>) = Type
  BY TypesAreTwo DEF ToSet
<1>. QED
  BY <1>1 DEF Reconnect, Restored, TypesLeft, DoneIsGone, ListingHolds, StartsUnblocked

LEMMA DropRestored == DropTypeOK /\ Restored /\ DropStep => Restored'
<1>. SUFFICES ASSUME DropTypeOK, Restored, DropStep PROVE Restored'
  OBVIOUS
<1>1. ASSUME types' = <<>>, pc' \in {"down", "body"} PROVE Restored'
  BY <1>1 DEF Restored, TypesLeft, DoneIsGone, ListingHolds, StartsUnblocked
<1>2. CASE List
  <2>1. CASE types = <<>>
    <3>1. ToSet(types) = {}
      BY <2>1 DEF ToSet
    <3>2. ~Blocked
      BY <1>2, <3>1 DEF Restored, DoneIsGone, List, Blocked
    <3>. QED
      BY <1>2, <2>1, <3>2 DEF List, Resume, Left, Restored, TypesLeft, DoneIsGone, ListingHolds,
         StartsUnblocked, Blocked
  <2>2. CASE types # <<>>
    <3>1. /\ pc = "list" /\ pc' = "scan" /\ lines' = rules /\ at' = Len(rules)
          /\ UNCHANGED <<rules, types>>
      BY <1>2, <2>2 DEF List
    <3>2. \A i \in DOMAIN rules : ~(i > Len(rules))
      BY DEF DropTypeOK
    <3>. QED
      BY <2>2, <3>1, <3>2 DEF DropTypeOK, Restored, TypesLeft, DoneIsGone, ListingHolds, StartsUnblocked
  <2>. QED
    BY <2>1, <2>2
<1>3. CASE Scan
  <2>. at \in Nat /\ Len(rules) \in Nat /\ types # <<>> /\ pc = "scan"
    BY <1>3 DEF DropTypeOK, Restored, ListingHolds, Scan
  <2>1. CASE at = 0
    <3>1. pc' = "list" /\ types' = Tail(types) /\ UNCHANGED rules
      BY <1>3, <2>1 DEF Scan
    <3>2. Tail(types) \in {<<"REJECT">>, <<>>}
      BY TailsOfTypes DEF Restored, TypesLeft
    <3>3. ToSet(types) = {Head(types)} \cup ToSet(Tail(types))
      <4>1. types \in {<<"DROP", "REJECT">>, <<"REJECT">>}
        BY DEF Restored, TypesLeft
      <4>. QED
        BY <4>1, TailsOfTypes
    <3>4. \A i \in DOMAIN rules : rules[i] # Head(types)
      BY <2>1 DEF DropTypeOK, Restored, ListingHolds
    <3>. QED
      BY <3>1, <3>2, <3>3, <3>4
      DEF Restored, TypesLeft, DoneIsGone, ListingHolds, StartsUnblocked
  <2>2. CASE at # 0
    <3>1. /\ at \in 1..Len(rules) /\ lines[at] = rules[at]
          /\ at' = at - 1 /\ UNCHANGED <<pc, types, lines>>
      BY <1>3, <2>2 DEF DropTypeOK, Restored, ListingHolds, Scan
    <3>2. CASE Matches(lines[at])
      <4>1. rules' = RemoveAt(rules, at)
        BY <1>3, <2>2, <3>1, <3>2 DEF Scan, Line
      <4>2. /\ Len(rules') = Len(rules) - 1 /\ DOMAIN rules' = 1..Len(rules')
            /\ \A j \in 1..(at - 1) : rules'[j] = rules[j]
            /\ \A j \in at..(Len(rules) - 1) : rules'[j] = rules[j + 1]
        <5>1. rules \in Seq(Type \cup Other)
          BY DEF DropTypeOK
        <5>2. rules' \in Seq(Type \cup Other)
          BY <3>1, <4>1, <5>1, RemoveAtMoves
        <5>3. DOMAIN rules' = 1..Len(rules')
          BY <5>2
        <5>. QED
          BY <3>1, <4>1, <5>1, <5>3, RemoveAtMoves
      <4>3. \A j \in DOMAIN rules' :
              \E k \in DOMAIN rules : rules'[j] = rules[k] /\ (j > at - 1 => k > at)
        <5>1. \A j \in 1..(at - 1) : j \in DOMAIN rules
          BY <3>1 DEF DropTypeOK
        <5>2. \A j \in at..(Len(rules) - 1) : j + 1 \in DOMAIN rules /\ j + 1 > at
          BY <3>1 DEF DropTypeOK
        <5>. QED
          BY <3>1, <4>2, <5>1, <5>2
      <4>4. DoneIsGone'
        BY <3>1, <4>3 DEF Restored, DoneIsGone
      <4>5. ListingHolds'
        <5>1. \A i \in DOMAIN rules' : i > at - 1 => rules'[i] # Head(types)
          BY <4>3 DEF Restored, ListingHolds
        <5>2. \A i \in 1..(at - 1) : lines[i] = rules'[i]
          BY <3>1, <4>2 DEF Restored, ListingHolds
        <5>. QED
          BY <3>1, <4>2, <5>1, <5>2 DEF ListingHolds
      <4>. QED
        BY <3>1, <4>4, <4>5 DEF Restored, TypesLeft, StartsUnblocked
    <3>3. CASE ~Matches(lines[at])
      <4>1. UNCHANGED rules
        BY <1>3, <2>2, <3>3 DEF Scan, Line
      <4>2. rules[at] # Head(types)
        <5>1. Head(types) \in Type
          BY TypesAreTwo DEF Restored, TypesLeft
        <5>. QED
          BY <3>1, <3>3, <5>1, TypesAreTwo DEF Matches
      <4>3. ListingHolds'
        BY <3>1, <4>1, <4>2 DEF DropTypeOK, Restored, ListingHolds
      <4>. QED
        BY <3>1, <4>1, <4>3 DEF Restored, TypesLeft, DoneIsGone, StartsUnblocked
    <3>. QED
      BY <3>2, <3>3
  <2>. QED
    BY <2>1, <2>2
<1>4. ASSUME NEW type \in Type, Disconnect(type) PROVE Restored'
  BY <1>4 DEF Disconnect, restoreVars, Restored, TypesLeft, DoneIsGone, ListingHolds, StartsUnblocked
<1>5. CASE StartTest
  BY <1>5 DEF StartTest, restoreVars, Restored, TypesLeft, DoneIsGone, ListingHolds, StartsUnblocked
<1>6. CASE StartSession \/ Restore \/ Teardown
  BY <1>6, ReconnectRestores DEF StartSession, Restore, Teardown
<1>7. CASE Raise
  BY <1>7, ReconnectRestores DEF Raise, Left, Restored, TypesLeft, DoneIsGone, ListingHolds,
     StartsUnblocked
<1>8. CASE Kill
  BY <1>1, <1>8 DEF Kill, Left
<1>. QED
  BY <1>2, <1>3, <1>4, <1>5, <1>6, <1>7, <1>8 DEF DropStep

-----------------------------------------------------------------------------
(***************************************************************************)
(* The tickets and their answers.                                          *)
(***************************************************************************)

LEMMA SdkType == TypeOK /\ Earned /\ DropTypeOK' /\ [Next]_vars => TypeOK'
<1>. SUFFICES ASSUME TypeOK, Earned, DropTypeOK', [Next]_vars PROVE TypeOK'
  OBVIOUS
<1>. USE DEF waitVars, loopVars, ticketVars, handlerVars, sdkVars
<1>0. MaxTickets \in Nat /\ Ticket = 1..MaxTickets
  BY SdkAssumption DEF Ticket
<1>. 0 \in 0..made /\ 0 \in 0..0 /\ made \in Nat
  BY DEF TypeOK
<1>1. ASSUME Request, waiting' \in BOOLEAN PROVE TypeOK'
  <2>1. made' = made + 1 /\ awaited' = made' /\ made' \in 1..MaxTickets
    BY <1>0, <1>1 DEF TypeOK, Request
  <2>2. made' \in Ticket /\ awaited' \in 0..made' /\ made' \in 0..MaxTickets
    BY <1>0, <2>1
  <2>. QED
    BY <1>1, <2>2 DEF TypeOK, Request
<1>2. CASE Pair \/ Send
  BY <1>1, <1>2 DEF Pair, Send, TypeOK
<1>3. CASE PairTimesOut \/ PairFails \/ Answered \/ EndTest
  <2>1. made' = made /\ awaited' \in 0..made' /\ waiting' \in BOOLEAN
    BY <1>3 DEF PairTimesOut, PairFails, Answered, EndTest, NoWait
  <2>. QED
    BY <1>3, <2>1 DEF TypeOK, PairTimesOut, PairFails, Answered, EndTest
<1>4. CASE PairResponse
  <2>1. awaited \in Ticket
    BY <1>4 DEF TypeOK, PairResponse
  <2>2. instance' \in Instance \cup {None} /\ awaited' \in 0..made' /\ waiting' \in BOOLEAN
    BY <1>4, <2>1 DEF TypeOK, PairResponse, NoWait
  <2>. QED
    BY <1>4, <2>2 DEF TypeOK, PairResponse
<1>5. CASE Wait \/ TestStep \/ NewSession
  BY <1>5 DEF TypeOK, Wait, TestStep, NewSession
<1>6. CASE EndSession
  <2>1. made' = 0 /\ awaited' = 0 /\ waiting' = FALSE /\ callbacks' = <<>> /\ handling' = <<>>
    BY <1>6 DEF EndSession, NoWait
  <2>2. made' \in 0..MaxTickets /\ awaited' \in 0..made' /\ callbacks' \in Seq(Ticket)
    BY <1>0, <2>1
  <2>3. result' \in [Ticket -> Instance \cup {None}]
    BY <1>6 DEF EndSession
  <2>. QED
    BY <1>6, <2>1, <2>2, <2>3 DEF TypeOK, EndSession
<1>7. ASSUME NEW t \in Ticket, Transmit(t) PROVE TypeOK'
  BY <1>7 DEF TypeOK, Transmit
<1>8. ASSUME NEW t \in Ticket, NEW j \in Instance, Answer(t, j) PROVE TypeOK'
  BY <1>8 DEF TypeOK, Answer
<1>9. ASSUME NEW a \in answers, GetTicket(a) PROVE TypeOK'
  BY <1>9 DEF TypeOK, GetTicket
<1>10. CASE Store
  BY <1>10 DEF TypeOK, Store
<1>11. CASE Schedule
  <2>1. handling[1] \in Ticket
    BY <1>11 DEF Schedule, Stored, Earned, TypeOK
  <2>2. callbacks' \in Seq(Ticket)
    BY <1>11, <2>1 DEF Schedule, TypeOK
  <2>. QED
    BY <1>11, <2>2 DEF TypeOK, Schedule
<1>12. CASE Complete
  <2>1. Head(callbacks) \in Ticket /\ Tail(callbacks) \in Seq(Ticket)
    BY <1>12, HeadTailProperties DEF TypeOK, Complete
  <2>2. completed' \in SUBSET Ticket /\ list' \in SUBSET Ticket /\ callbacks' \in Seq(Ticket)
    BY <1>12, <2>1 DEF TypeOK, Complete, NextCallback
  <2>. QED
    BY <1>12, <2>2 DEF TypeOK, Complete
<1>13. CASE UNCHANGED vars
  BY <1>13 DEF TypeOK, vars
<1>. QED
  BY <1>2, <1>3, <1>4, <1>5, <1>6, <1>7, <1>8, <1>9, <1>10, <1>11, <1>12, <1>13 DEF Next, Handle

LEMMA NextEarned == TypeOK /\ Earned /\ [Next]_vars => Earned'
<1>. SUFFICES ASSUME TypeOK, Earned, [Next]_vars PROVE Earned'
  OBVIOUS
<1>. USE DEF waitVars, loopVars, ticketVars, handlerVars, sdkVars, HasMessage
<1>1. ASSUME UNCHANGED <<completed, result, answers, handling, stored, callbacks>>,
             stage' = "paired" => stage = "paired" /\ UNCHANGED instance
      PROVE  Earned'
  BY <1>1 DEF Earned
<1>2. CASE Pair \/ PairTimesOut \/ PairFails \/ Send \/ Wait \/ Answered \/ TestStep \/ EndTest \/ NewSession
  BY <1>1, <1>2 DEF Pair, PairTimesOut, PairFails, Send, Wait, Answered, TestStep, EndTest, NewSession, Request
<1>3. CASE PairResponse
  <2>1. awaited \in Ticket /\ <<awaited, result[awaited]>> \in answers
    BY <1>3 DEF TypeOK, Earned, PairResponse
  <2>. QED
    BY <1>3, <2>1 DEF Earned, PairResponse
<1>4. CASE EndSession
  BY <1>4, SdkAssumption DEF EndSession, Earned
<1>5. ASSUME NEW t \in Ticket, Transmit(t) PROVE Earned'
  BY <1>1, <1>5 DEF Transmit
<1>6. ASSUME NEW t \in Ticket, NEW j \in Instance, Answer(t, j) PROVE Earned'
  BY <1>6 DEF Answer, Earned
<1>7. ASSUME NEW a \in answers, GetTicket(a) PROVE Earned'
  <2>1. ~stored
    BY <1>7 DEF GetTicket, Earned
  <2>. QED
    BY <1>7, <2>1 DEF GetTicket, Earned
<1>8. CASE Store
  <2>1. PICK t \in Ticket, j \in Instance : handling = <<t, j>> /\ <<t, j>> \in answers
    BY <1>8 DEF Store, TypeOK, Earned
  <2>2. result' = [result EXCEPT ![t] = j] /\ j # None
    BY <1>8, <2>1, SdkAssumption DEF Store
  <2>3. \A u \in Ticket : result'[u] = IF u = t THEN j ELSE result[u]
    BY <2>2 DEF TypeOK
  <2>4. \A i \in DOMAIN callbacks : callbacks[i] \in Ticket
    BY DEF TypeOK
  <2>5. \A u \in Ticket : HasMessage(u)' => <<u, result'[u]>> \in answers
    BY <2>1, <2>3 DEF Earned
  <2>6. \A u \in Ticket : HasMessage(u) \/ u = t => HasMessage(u)'
    BY <2>2, <2>3
  <2>7. completed \subseteq Ticket /\ handling[1] = t
    BY <2>1 DEF TypeOK
  <2>. QED
    BY <1>8, <2>4, <2>5, <2>6, <2>7 DEF Earned, Store
<1>9. CASE Schedule
  <2>1. HasMessage(handling[1]) /\ handling[1] \in Ticket
    BY <1>9 DEF Schedule, Stored, TypeOK, Earned
  <2>2. callbacks' = Append(callbacks, handling[1]) /\ callbacks \in Seq(Ticket)
    BY <1>9 DEF Schedule, TypeOK
  <2>3. \A i \in DOMAIN callbacks' : HasMessage(callbacks'[i])
    <3>1. ASSUME NEW i \in DOMAIN callbacks' PROVE HasMessage(callbacks'[i])
      <4>1. \/ i \in DOMAIN callbacks /\ callbacks'[i] = callbacks[i]
            \/ callbacks'[i] = handling[1]
        BY <2>1, <2>2
      <4>. QED
        BY <2>1, <4>1 DEF Earned
    <3>. QED
      BY <3>1
  <2>. QED
    BY <1>9, <2>3 DEF Schedule, Earned
<1>10. CASE Complete
  <2>1. /\ callbacks \in Seq(Ticket) /\ callbacks # <<>> /\ callbacks' = Tail(callbacks)
        /\ completed' = completed \cup {Head(callbacks)}
        /\ UNCHANGED <<stage, instance, result, answers, handling, stored>>
    BY <1>10 DEF TypeOK, Complete, NextCallback
  <2>2. 1 \in DOMAIN callbacks /\ Head(callbacks) = callbacks[1]
    BY <2>1
  <2>3. \A i \in DOMAIN callbacks' : i + 1 \in DOMAIN callbacks /\ callbacks'[i] = callbacks[i + 1]
    BY <2>1
  <2>. QED
    BY <2>1, <2>2, <2>3 DEF Earned
<1>11. CASE UNCHANGED vars
  BY <1>1, <1>11 DEF vars
<1>. QED
  BY <1>2, <1>3, <1>4, <1>5, <1>6, <1>7, <1>8, <1>9, <1>10, <1>11 DEF Next, Handle

-----------------------------------------------------------------------------
(***************************************************************************)
(* The theorems.                                                           *)
(***************************************************************************)

LEMMA NextInv == IInv /\ [Next]_vars => IInv'
<1>. SUFFICES ASSUME IInv, [Next]_vars PROVE IInv'
  OBVIOUS
<1>1. DropTypeOK' /\ Restored'
  <2>1. CASE DropStep
    BY <2>1, DropType, DropRestored DEF IInv, TypeOK
  <2>2. CASE UNCHANGED dropVars
    BY <2>2 DEF IInv, TypeOK, dropVars, restoreVars, DropTypeOK, Restored, TypesLeft, DoneIsGone,
       ListingHolds, StartsUnblocked, Blocked
  <2>. QED
    BY <2>1, <2>2, StepOfNetwork
<1>. QED
  BY <1>1, SdkType, NextEarned DEF IInv

\* The type invariant.
THEOREM TypeCorrect == Spec => []TypeOK
<1>. IInv => TypeOK
  BY DEF IInv
<1>. QED
  BY InitInv, NextInv, PTL DEF Spec

\* No test starts on a network that an earlier one cut off, whatever the rules of
\* other programs are and wherever a session was killed: reconnect_all removes every
\* rule of the tests, although its line numbers are of a listing that changes.
THEOREM TestsStartConnected == Spec => []StartsUnblocked
<1>. IInv => StartsUnblocked
  BY DEF IInv, Restored
<1>. QED
  BY InitInv, NextInv, PTL DEF Spec

\* A rule that is deleted is one of the tests', or taken for one: the line at hand is
\* still that of the rule with its number.
THEOREM OthersAreKept == Spec => OthersStay
<1>. DEFINE Kept ==
       \/ rules' = rules
       \/ \E type \in Type : rules' = Append(rules, type)
       \/ \E i \in DOMAIN rules : OfTests(rules[i]) /\ rules' = RemoveAt(rules, i)
<1>1. ASSUME IInv, [Next]_vars PROVE Kept
  <2>1. CASE Scan
    <3>1. CASE at = 0 \/ ~Matches(lines[at])
      BY <2>1, <3>1 DEF Scan, Line
    <3>2. CASE at # 0 /\ Matches(lines[at])
      <4>1. at \in 1..Len(rules) /\ lines[at] = rules[at] /\ types # <<>>
        BY <1>1, <2>1, <3>2 DEF IInv, TypeOK, DropTypeOK, Restored, ListingHolds, Scan
      <4>2. rules' = RemoveAt(rules, at) /\ at \in DOMAIN rules
        BY <1>1, <2>1, <3>2, <4>1 DEF IInv, TypeOK, DropTypeOK, Scan, Line
      <4>3. Head(types) \in Type
        BY <1>1, <4>1, TypesAreTwo, TailsOfTypes DEF IInv, Restored, TypesLeft
      <4>4. rules[at] \in Type \cup Other
        BY <1>1, <4>1 DEF IInv, TypeOK, DropTypeOK
      <4>5. OfTests(rules[at])
        BY <3>2, <4>1, <4>3, <4>4, TypesAreTwo DEF Matches, OfTests
      <4>. QED
        BY <4>2, <4>5
    <3>. QED
      BY <3>1, <3>2
  <2>2. ASSUME NEW type \in Type, Disconnect(type) PROVE Kept
    BY <2>2 DEF Disconnect
  <2>3. CASE StartSession \/ StartTest \/ Restore \/ Teardown \/ List \/ Raise \/ Kill
    BY <2>3 DEF StartSession, StartTest, Restore, Teardown, List, Raise, Kill
  <2>4. CASE UNCHANGED dropVars
    BY <2>4 DEF dropVars
  <2>. QED
    BY <1>1, <2>1, <2>2, <2>3, <2>4, StepOfNetwork DEF DropStep
<1>. QED
  BY <1>1, InitInv, NextInv, PTL DEF Spec, OthersStay

\* A coroutine that resumes finds the message that answers its own request, for any
\* number of requests and of service apps that answer.
THEOREM WaitsAreAnswered == Spec => []ResumesWithItsAnswer
<1>. IInv => ResumesWithItsAnswer
  BY DEF IInv, TypeOK, Earned, HasMessage, ResumesWithItsAnswer
<1>. QED
  BY InitInv, NextInv, PTL DEF Spec
===============================================================================
