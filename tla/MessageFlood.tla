------------------------------ MODULE MessageFlood ------------------------------
(***************************************************************************)
(* The message floods of the Python device app: test_flood_thread,         *)
(* do_flood and send_flood_message in device/device.py, on the threads of  *)
(* the outgoing executor, with the events of their operation tickets.      *)
(* A flood submits its sends one by one and then scans their tickets while *)
(* handler threads set the events; floods may overlap, and their sends     *)
(* share the MetricsReporter with the tests that report.                   *)
(***************************************************************************)
EXTENDS MetricsReporter, Sequences

CONSTANTS
  MaxOps,   \* for each flood of a run, the most messages it may have: a bound
            \* for SEND_MESSAGE_FLOOD_MAX_MESSAGE_COUNT
  Workers   \* threads of the outgoing executor

ASSUME FloodAssumption ==
  /\ MaxOps \in Seq(Nat \ {0}) /\ Workers \in Nat \ {0}
  /\ "none" \notin Reporter

Flood == DOMAIN MaxOps
Op == UNION {{f} \X (1..MaxOps[f]) : f \in Flood}

\* The tasks of the executor: a flood, and the send of a message of one.
DoFlood(f) == <<f, 0>>

VARIABLES
  submitted,  \* floods submitted so far
  tasks,      \* tasks no thread has taken yet
  running,    \* tasks that a thread runs
  recording,  \* sends among them that have sent and record their latency
  flood,      \* [Flood -> the local variables of do_flood, and its size]
  answered,   \* tickets whose event is set
  verified,   \* send_message_count_verified
  timedOut    \* send_message_count_timed_out

poolVars == <<submitted, tasks, running, recording>>
counterVars == <<verified, timedOut>>
floodVars == <<metricsVars, poolVars, answered, flood, counterVars>>

FloodInit ==
  /\ MetricsInit
  /\ submitted = 0 /\ tasks = <<>> /\ running = {} /\ recording = {}
  /\ flood = [f \in Flood |-> [pc |-> "new", size |-> 0, allOps |-> {}, toSubmit |-> {},
                               toScan |-> {}, remaining |-> {}, late |-> FALSE]]
  /\ answered = {}
  /\ verified = 0 /\ timedOut = 0

\* do_flood leaves a place with new values of its variables.
Becomes(f, from, new) == flood[f].pc = from /\ flood' = [flood EXCEPT ![f] = new]

-----------------------------------------------------------------------------
(***************************************************************************)
(* The executor, test_flood_thread and send_flood_message.                 *)
(***************************************************************************)

\* The executor's submit returns when a thread has taken the task.
SubmitTask(t) ==
  /\ tasks' = Append(tasks, t)
  /\ UNCHANGED <<running, recording, metricsVars, answered, counterVars>>

Waits(t) == \E i \in 1..Len(tasks) : tasks[i] = t

\* The thread that submits the floods ends when a submit raises: then there are no more.
SubmitFlood ==
  /\ submitted < Len(MaxOps) /\ ~Waits(DoFlood(submitted))
  /\ submitted' = submitted + 1
  /\ SubmitTask(DoFlood(submitted')) /\ UNCHANGED flood

TakeTask ==
  /\ tasks # <<>> /\ Cardinality(running) < Workers
  /\ running' = running \cup {Head(tasks)}
  /\ tasks' = Tail(tasks)
  /\ LET f == Head(tasks)[1]
     IN  IF Head(tasks) = DoFlood(f) THEN Becomes(f, "new", [flood[f] EXCEPT !.pc = "making"])
                                     ELSE UNCHANGED flood
  /\ UNCHANGED <<submitted, recording, metricsVars, answered, counterVars>>

\* send_message returns ...
SendReturns(o) ==
  /\ o \in running \ recording /\ recording' = recording \cup {o}
  /\ UNCHANGED <<metricsVars, submitted, tasks, running, flood, answered, counterVars>>

\* ... or it raises, and the send is over.
SendRaises(o) ==
  /\ o \in running \ recording /\ running' = running \ {o}
  /\ UNCHANGED <<metricsVars, submitted, tasks, recording, flood, answered, counterVars>>

\* What was sent has its latency recorded when the reporter is free.
SendRecords(o) ==
  /\ o \in recording /\ recording' = recording \ {o} /\ running' = running \ {o}
  /\ RecordLatency
  /\ UNCHANGED <<submitted, tasks, flood, answered, counterVars>>

\* A handler thread completes the ticket of a message that send_message has or had,
\* if the flood still waits for it.
Answer(o) ==
  /\ o \in flood[o[1]].allOps \ (flood[o[1]].toSubmit \cup answered)
  /\ ~Waits(o) /\ flood[o[1]].pc \notin {"done", "raised"}
  /\ answered' = answered \cup {o}
  /\ UNCHANGED <<metricsVars, poolVars, flood, counterVars>>

\* A test that reports, on a thread of its own.
SendMetrics(r) == Report(r) /\ UNCHANGED <<poolVars, answered, flood, counterVars>>

-----------------------------------------------------------------------------
(***************************************************************************)
(* do_flood.                                                               *)
(***************************************************************************)

others == <<metricsVars, answered>>

First(ops) == CHOOSE o \in ops : \A p \in ops : o[2] <= p[2]

\* The tickets are made.
Make(f) ==
  /\ \E n \in 1..MaxOps[f] :
       LET ops == {f} \X (1..n)
       IN  Becomes(f, "making", [flood[f] EXCEPT !.pc = "submitting", !.size = n,
                                                  !.allOps = ops, !.toSubmit = ops])
  /\ UNCHANGED <<others, poolVars, counterVars>>

\* Their sends are submitted one by one, each when a thread has taken the one
\* before; then the time starts.
AllTaken(f) == \A o \in flood[f].allOps : ~Waits(o)

Submit(f) ==
  /\ flood[f].toSubmit # {} /\ AllTaken(f)
  /\ LET o == First(flood[f].toSubmit)
     IN  SubmitTask(o) /\ Becomes(f, "submitting", [flood[f] EXCEPT !.toSubmit = @ \ {o}])
  /\ UNCHANGED submitted

\* The send that was submitted last.
Latest(f) ==
  LET sent == flood[f].allOps \ flood[f].toSubmit
  IN  CHOOSE o \in sent : \A p \in sent : p[2] <= o[2]

\* submit names the thread of the task if it still has one; a task that ends between
\* the test and the naming makes it raise, and do_flood ends with it: its messages are
\* neither verified nor timed out, ever.
SubmitRaises(f) ==
  /\ flood[f].allOps # flood[f].toSubmit /\ AllTaken(f) /\ Latest(f) \notin running
  /\ Becomes(f, "submitting", [flood[f] EXCEPT !.pc = "raised", !.toSubmit = {}])
  /\ running' = running \ {DoFlood(f)}
  /\ UNCHANGED <<others, submitted, tasks, recording, counterVars>>

Submitted(f) ==
  /\ flood[f].toSubmit = {} /\ AllTaken(f)
  /\ Becomes(f, "submitting", [flood[f] EXCEPT !.pc = "checking"])
  /\ UNCHANGED <<others, poolVars, counterVars>>

PassDeadline(f) ==
  /\ flood[f].pc \in {"checking", "waiting"} /\ ~flood[f].late
  /\ flood' = [flood EXCEPT ![f].late = TRUE]
  /\ UNCHANGED <<others, poolVars, counterVars>>

\* The condition of the loop holds.
Loop(f) ==
  /\ flood[f].allOps # {} /\ ~flood[f].late
  /\ Becomes(f, "checking", [flood[f] EXCEPT !.pc = "waiting"])
  /\ UNCHANGED <<others, poolVars, counterVars>>

Over(f) == flood[f].allOps = {} \/ flood[f].late

\* It does not: the messages that are left have timed out.
Finish(f) ==
  /\ Over(f) /\ Becomes(f, "checking", [flood[f] EXCEPT !.pc = "done"])
  /\ timedOut' = timedOut + Cardinality(flood[f].allOps)
  /\ running' = running \ {DoFlood(f)}
  /\ UNCHANGED <<others, submitted, tasks, recording, verified>>

\* Mutant: only the time ends the wait.
TimeIsUp(f) == flood[f].late

WaitEnds(f) == First(flood[f].allOps) \in answered \/ flood[f].late

\* all_ops[0].event.wait returns, with the event set or at the timeout.
Wait(f) ==
  /\ flood[f].pc = "waiting" /\ WaitEnds(f)
  /\ Becomes(f, "waiting", [flood[f] EXCEPT !.pc = "scanning", !.toScan = flood[f].allOps,
                                               !.remaining = {}])
  /\ UNCHANGED <<others, poolVars, counterVars>>

\* The comprehension looks at the next ticket.
Scan(f) ==
  /\ flood[f].toScan # {}
  /\ LET o == First(flood[f].toScan)
     IN  Becomes(f, "scanning", [flood[f] EXCEPT !.toScan = @ \ {o},
                                                  !.remaining = @ \cup ({o} \ answered)])
  /\ UNCHANGED <<others, poolVars, counterVars>>

\* Mutant: what is verified is asked of the events again.
VerifiedNow(f) == Cardinality(flood[f].allOps \cap answered)

CountVerified(f) == Cardinality(flood[f].allOps) - Cardinality(flood[f].remaining)

Count(f) ==
  /\ flood[f].toScan = {}
  /\ Becomes(f, "scanning", [flood[f] EXCEPT !.pc = "checking", !.allOps = flood[f].remaining])
  /\ verified' = verified + CountVerified(f)
  /\ UNCHANGED <<others, poolVars, timedOut>>

-----------------------------------------------------------------------------

FloodStep(f) ==
  Make(f) \/ Submit(f) \/ Submitted(f) \/ Loop(f) \/ Finish(f) \/ Wait(f) \/ Scan(f) \/ Count(f)

Send(o) == SendReturns(o) \/ SendRaises(o) \/ SendRecords(o)

FloodNext ==
  \/ SubmitFlood \/ TakeTask
  \/ \E o \in Op : Send(o) \/ Answer(o)
  \/ \E f \in Flood : FloodStep(f) \/ SubmitRaises(f) \/ PassDeadline(f)
  \/ \E r \in Reporter : SendMetrics(r)

FloodSpec == FloodInit /\ [][FloodNext]_floodVars

\* The threads run and calls return or raise; no flood is sure to time out, and no submit
\* to raise.  A thread that waits for reporter_lock gets it: there are finitely many to
\* take it first.
FloodFairSpec ==
  /\ FloodSpec
  /\ WF_floodVars(TakeTask)
  /\ \A o \in Op : WF_floodVars(Send(o))
  /\ \A f \in Flood : WF_floodVars(FloodStep(f))
  /\ \A r \in Reporter : WF_floodVars(SendMetrics(r))

-----------------------------------------------------------------------------

Task == Op \cup {DoFlood(f) : f \in Flood}

FloodState ==
  [pc : {"new", "making", "submitting", "checking", "waiting", "scanning", "done",
         "raised"},
   size : Nat, allOps : SUBSET Op, toSubmit : SUBSET Op, toScan : SUBSET Op,
   remaining : SUBSET Op, late : BOOLEAN]

FloodTypeOK ==
  /\ step \in [Reporter -> {"complete", "locked", "recorded"}]
  /\ {holder, health, test} \subseteq Reporter \cup {"none"}
  /\ submitted \in 0..Len(MaxOps)
  /\ tasks \in Seq(Task) /\ running \subseteq Task /\ recording \subseteq Op
  /\ flood \in [Flood -> FloodState]
  /\ answered \subseteq Op
  /\ verified \in Nat /\ timedOut \in Nat

\* The messages of the floods so far, and those that are not counted yet.
Made == {o \in Op : o[2] <= flood[o[1]].size}
Open == {o \in Op : flood[o[1]].pc # "done" /\ o \in flood[o[1]].allOps}

\* Each message of a flood is counted once, as verified or as timed out, however
\* its answer falls into the scan, into the timeout or into the next flood; those
\* of a flood whose submit raised stay uncounted (device.py:656-686).
EachMessageCountedOnce == verified + timedOut + Cardinality(Open) = Cardinality(Made)

\* Whoever takes the lock, a send that records its latency included, finds the
\* metrics of one report in the map and pushes no mixture (device.py:537-540,
\* 557-561).
RecordsOneReport == holder = "none" => health = test

\* Floods that submit their sends come to the end of them, or of themselves: each submit
\* needs a free thread, and a send keeps its thread until it has had the lock that
\* other sends and the reports take (device.py:537-561, 656-659).
SubmittingFloodsGoOn == []<>(\A f \in Flood : flood[f].pc # "submitting")

\* Floods whose messages are all answered end without their timeout: a flood stays one of
\* them until it is done, as answers are never taken back (device.py:666-670).
AllAnswered(f) ==
  flood[f].pc \in {"checking", "waiting", "scanning"} /\ flood[f].allOps \subseteq answered

AnsweredFloodEnds == []<>(\A f \in Flood : ~AllAnswered(f))
=============================================================================
