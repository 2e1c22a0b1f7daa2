------------------------------- MODULE SdkTests -------------------------------
(***************************************************************************)
(* A session of the SDK tests (python/sdk_e2e): the fixtures that connect, *)
(* pair and talk to the service app (client_fixtures.py,                   *)
(* service_app_fixtures.py), on the network that the tests cut off         *)
(* (NetworkDrop).  Tests run on one event loop.  C2D messages are handled  *)
(* on a thread of the SDK, which finds the ticket, stores the message and  *)
(* has the loop complete the ticket.                                       *)
(***************************************************************************)
EXTENDS NetworkDrop, FiniteSets

CONSTANTS
  Instance,     \* the service apps of the requested pool
  None,         \* no instance
  MaxTickets,   \* bound: the tickets of a session
  MaxCallbacks  \* bound: the callbacks that wait for the loop

ASSUME SdkAssumption == None \notin Instance /\ MaxTickets \in Nat /\ MaxCallbacks \in Nat

Ticket == 1..MaxTickets

VARIABLES
  stage,       \* "unpaired", "paired", or "failed" for good
  instance,    \* the service instance paired_client returns
  made,        \* the tickets made so far
  awaited,     \* the ticket of the attempt to pair or of the test, or 0
  waiting,     \* its coroutine waits for the ticket's event
  list,        \* operation_ticket_list
  completed,   \* the tickets whose event is set
  result,      \* [Ticket -> the sender of its result_message, or None]
  unsent,      \* the tickets whose message the client has still to send
  answers,     \* <<ticket, instance>>: the answers the service apps have sent
  handling,    \* the answer handle_c2d works on, or <<>>
  stored,      \* it has stored the message
  callbacks    \* what call_soon_threadsafe has queued

waitVars == <<awaited, waiting>>
loopVars == <<stage, instance, made, waitVars>>
ticketVars == <<list, completed, result>>
handlerVars == <<handling, stored, callbacks>>
sdkVars == <<loopVars, ticketVars, unsent, answers, handlerVars>>
vars == <<dropVars, sdkVars>>

Init ==
  /\ DropInit
  /\ stage = "unpaired" /\ instance = None /\ made = 0 /\ awaited = 0 /\ waiting = FALSE
  /\ list = {} /\ completed = {} /\ result = [t \in Ticket |-> None]
  /\ unsent = {} /\ answers = {} /\ handling = <<>> /\ stored = FALSE /\ callbacks = <<>>

\* reconnect_all blocks the loop.
LoopRuns == pc \in {"idle", "body"}

-----------------------------------------------------------------------------
(***************************************************************************)
(* The tests.                                                              *)
(***************************************************************************)

NoWait == awaited' = 0 /\ waiting' = FALSE

\* A ticket is made and a message with its id is given to the client.
Request ==
  /\ awaited = 0 /\ made < MaxTickets
  /\ made' = made + 1 /\ awaited' = made'
  /\ list' = list \cup {made'} /\ unsent' = unsent \cup {made'}
  /\ UNCHANGED <<stage, instance, completed, result, answers, handlerVars>>

\* paired_client: a request, and a wait of 10 seconds ...
Pair == pc = "idle" /\ stage = "unpaired" /\ Request /\ waiting' = TRUE /\ UNCHANGED dropVars

\* ... that passes, even if the event is set in the end, ...
PairTimesOut ==
  /\ pc = "idle" /\ waiting /\ NoWait
  /\ UNCHANGED <<dropVars, stage, instance, made, ticketVars, unsent, answers, handlerVars>>

\* ... or the response: the service instance is the sender of result_message.
PairResponse ==
  /\ pc = "idle" /\ waiting /\ awaited \in completed /\ NoWait
  /\ stage' = "paired" /\ instance' = result[awaited]
  /\ UNCHANGED <<dropVars, made, ticketVars, unsent, answers, handlerVars>>

\* After 180 seconds paired_client raises, or pytest's timeout comes.
PairFails ==
  /\ pc = "idle" /\ stage = "unpaired" /\ made > 0
  /\ stage' = "failed" /\ NoWait
  /\ UNCHANGED <<dropVars, instance, made, ticketVars, unsent, answers, handlerVars>>

\* The request of a test ...
Send == pc = "body" /\ Request /\ UNCHANGED <<dropVars, waiting>>

\* ... for which invoke_method, invoke_pnp_command, get_pnp_properties and
\* test_message wait, without a timeout, and set_desired_props and
\* update_pnp_properties do not.
Wait ==
  /\ pc = "body" /\ awaited # 0 /\ ~waiting /\ waiting' = TRUE
  /\ UNCHANGED <<dropVars, stage, instance, made, awaited, ticketVars, unsent, answers, handlerVars>>

\* The wait returns, and the test reads result_message.
Answered ==
  /\ pc = "body" /\ waiting /\ awaited \in completed /\ NoWait
  /\ UNCHANGED <<dropVars, stage, instance, made, ticketVars, unsent, answers, handlerVars>>

\* The function scope: the dropper, and the test.  The send is a task of its own
\* where the test drops and restores before it waits.
TestStep ==
  /\ \/ StartTest /\ stage = "paired"
     \/ ~waiting /\ ((\E type \in Type : Disconnect(type)) \/ Restore)
     \/ List \/ Scan
  /\ UNCHANGED sdkVars

\* The test ends, by pytest's timeout if it waits.
EndTest ==
  /\ Teardown \/ Raise
  /\ NoWait
  /\ UNCHANGED <<stage, instance, made, ticketVars, unsent, answers, handlerVars>>

\* A new process has a new run id: it ignores what answers the old one.
NewSession == StartSession /\ UNCHANGED sdkVars

EndSession ==
  /\ Kill
  /\ stage' = "unpaired" /\ instance' = None /\ made' = 0 /\ NoWait
  /\ list' = {} /\ completed' = {} /\ result' = [t \in Ticket |-> None]
  /\ unsent' = {} /\ answers' = {} /\ handling' = <<>> /\ stored' = FALSE /\ callbacks' = <<>>

-----------------------------------------------------------------------------
(***************************************************************************)
(* The client and the service apps.                                        *)
(***************************************************************************)

Transmit(t) ==
  /\ t \in unsent /\ ~Blocked /\ pc # "down"
  /\ unsent' = unsent \ {t}
  /\ UNCHANGED <<dropVars, loopVars, ticketVars, answers, handlerVars>>

\* Every instance of the pool answers a pairing request, and the one the tests are
\* paired with answers the others.
Answer(t, i) ==
  /\ t \in 1..made \ unsent /\ instance \in {i, None}
  /\ answers' = answers \cup {<<t, i>>}
  /\ UNCHANGED <<dropVars, loopVars, ticketVars, unsent, handlerVars>>

\* handle_c2d looks for the ticket.  A message may come again.
GetTicket(a) ==
  /\ a \in answers /\ handling = <<>> /\ pc # "down"
  /\ a[1] \in list /\ Len(callbacks) < MaxCallbacks
  /\ handling' = a
  /\ UNCHANGED <<dropVars, loopVars, ticketVars, unsent, answers, stored, callbacks>>

\* operation_ticket.result_message = msg
Store ==
  /\ handling # <<>> /\ ~stored
  /\ stored' = TRUE
  /\ result' = [result EXCEPT ![handling[1]] = handling[2]]
  /\ UNCHANGED <<dropVars, loopVars, list, completed, unsent, answers, handling, callbacks>>

\* Mutant: the loop is called before the message is stored.
AtOnce == handling # <<>>

Stored == stored

\* event_loop.call_soon_threadsafe(operation_ticket.complete)
Schedule ==
  /\ Stored
  /\ callbacks' = Append(callbacks, handling[1])
  /\ handling' = <<>> /\ stored' = FALSE
  /\ UNCHANGED <<dropVars, loopVars, ticketVars, unsent, answers>>

\* Mutant: complete() is called on the ticket of the last message.
LastCallback == callbacks[Len(callbacks)]

NextCallback == Head(callbacks)

\* The loop completes a ticket: its event is set and it leaves the list.
Complete ==
  /\ LoopRuns /\ callbacks # <<>>
  /\ completed' = completed \cup {NextCallback}
  /\ list' = list \ {NextCallback}
  /\ callbacks' = Tail(callbacks)
  /\ UNCHANGED <<dropVars, loopVars, result, unsent, answers, handling, stored>>

-----------------------------------------------------------------------------

Handle == Store \/ Schedule

Next ==
  \/ Pair \/ PairTimesOut \/ PairResponse \/ PairFails
  \/ Send \/ Wait \/ Answered \/ TestStep \/ EndTest \/ NewSession \/ EndSession
  \/ \E t \in Ticket : Transmit(t)
  \/ \E t \in Ticket, i \in Instance : Answer(t, i)
  \/ \E a \in answers : GetTicket(a)
  \/ Handle \/ Complete

Spec == Init /\ [][Next]_vars

\* The SDK's thread and the loop are scheduled, reconnect_all goes on, and a
\* coroutine whose event is set resumes.
FairSpec ==
  /\ Spec
  /\ WF_vars(Handle) /\ WF_vars(Complete) /\ WF_vars((List \/ Scan) /\ UNCHANGED sdkVars)
  /\ WF_vars(PairResponse \/ Answered)

-----------------------------------------------------------------------------

TypeOK ==
  /\ DropTypeOK
  /\ stage \in {"unpaired", "paired", "failed"} /\ instance \in Instance \cup {None}
  /\ made \in 0..MaxTickets /\ awaited \in 0..made /\ waiting \in BOOLEAN
  /\ list \in SUBSET Ticket /\ completed \in SUBSET Ticket /\ unsent \in SUBSET Ticket
  /\ result \in [Ticket -> Instance \cup {None}] /\ answers \in SUBSET (Ticket \X Instance)
  /\ handling \in (Ticket \X Instance) \cup {<<>>} /\ stored \in BOOLEAN
  /\ callbacks \in Seq(Ticket)

\* No test starts on a network that a test before it has cut off, in this
\* session or in one that was killed, unless a teardown raised (drop_fixtures.py:
\* 10, 27-32).
StartsUnblocked == pc = "idle" /\ ~failed => ~Blocked

\* A rule of the tests, or one that reconnect_all takes for one.
OfTests(rule) == rule \in Type \/ TakenFor[rule] # "none"

\* Whatever is deleted, and wherever a restore is broken off, the rules of other
\* programs that are not taken for one of the tests' stay in place: although the
\* numbers are those of a listing, what leaves the chain is a rule of the tests
\* (drop.py:88-97).
OthersStay ==
  [][\/ rules' = rules
     \/ \E type \in Type : rules' = Append(rules, type)
     \/ \E i \in DOMAIN rules : OfTests(rules[i]) /\ rules' = RemoveAt(rules, i)]_vars

\* A wait that returns finds the message that answers it, from an instance that
\* sent it, and the tests are paired with an instance that answered
\* (client_fixtures.py:77-82, 113-124).
ResumesWithItsAnswer ==
  /\ \A t \in completed : <<t, result[t]>> \in answers
  /\ stage = "paired" => \E t \in Ticket : <<t, instance>> \in answers

\* A wait without a timeout ends once the answer has been handled, also if that was
\* before it began, while reconnect_all blocked the loop (service_app_fixtures.py:37,
\* client_fixtures.py:82).
HandledWaitEnds ==
  \A t \in Ticket :
    (waiting /\ awaited = t /\ t \in ToSet(callbacks)) ~> ~(waiting /\ awaited = t)
=============================================================================
