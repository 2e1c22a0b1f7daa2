------------------------------- MODULE Executor -------------------------------
(***************************************************************************)
(* BetterThreadPoolExecutor (python/common/executor.py) and the loop of    *)
(* main() that watches it (service.py:798-803, device.py:1081-1107).       *)
(*                                                                         *)
(* submit() hands a function to the thread pool, waits until a worker has  *)
(* started it and only then enters it in outstanding_futures.  When the    *)
(* function ends, its worker forgets its thread, wakes whoever waits for a *)
(* thread to die, and last of all completes the future.  The main loop     *)
(* sleeps until a thread dies, checks the watchdogs and collects the       *)
(* failures.  No lock spans these steps, so each is an action here.        *)
(***************************************************************************)
EXTENDS Naturals, Sequences, FiniteSets, SequencesExt

CONSTANTS
  Job,         \* the functions submitted in a run, each one once
  Main,        \* the main thread
  Parent,      \* who submits a job: the main thread, or another job
  Critical,    \* the jobs submitted with critical=True
  MaxWorkers,  \* max_workers of the thread pool
  PlannedEnd   \* the main loop's wait has a timeout, the planned end of the
               \* run (the device app); the service app waits without one

ASSUME ExecutorAssumption ==
  /\ Main \notin Job
  /\ Parent \in [Job -> Job \cup {Main}]
  /\ Critical \in SUBSET Job
  /\ MaxWorkers \in Nat
  /\ PlannedEnd \in BOOLEAN

VARIABLES
  \* The pool and its workers.
  workQueue,    \* the jobs no worker has taken yet
  status,       \* how far the worker of a job is
  failed,       \* the jobs whose function raised
  overdue,      \* the running jobs whose reset_watchdog call is overdue
  \* submit().
  hand,         \* how far the submission of a job is
  \* outstanding_futures and the main loop.
  outstanding,  \* outstanding_futures
  mainPc,       \* where the main loop is
  todo,         \* the futures a check still has to look at
  completed,    \* completed_futures: what check_for_failures still has to report
  reported,     \* the futures it has reported
  first,        \* first_exception is not None
  expired       \* planned_end_time has passed

poolVars == <<workQueue, status, failed, overdue>>
checkVars == <<todo, completed, reported, first, expired>>
mainVars == <<mainPc, checkVars>>
vars     == <<poolVars, hand, outstanding, mainVars>>

Init ==
  /\ workQueue = <<>> /\ status = [j \in Job |-> "new"]
  /\ failed = {} /\ overdue = {}
  /\ hand = [j \in Job |-> "none"] /\ outstanding = {}
  /\ mainPc = "setup" /\ todo = {} /\ completed = {} /\ reported = {}
  /\ first = FALSE /\ expired = FALSE

-----------------------------------------------------------------------------
(***************************************************************************)
(* Submission.                                                             *)
(***************************************************************************)

\* info.thread is set from the start of a job until its worker clears it.
HasThread(j) == status[j] \in {"running", "returned"}

\* p is inside a call of submit().
Submitting(p) ==
  \E j \in Job : Parent[j] = p /\ hand[j] \in {"starting", "checking", "naming", "appending"}

\* p is executing code that may call submit().
Active(p) ==
  /\ ~Submitting(p)
  /\ IF p = Main THEN mainPc = "setup" ELSE status[p] = "running"

\* ThreadPoolExecutor.submit, and then started.wait().
Submit(j) ==
  /\ hand[j] = "none" /\ Active(Parent[j])
  /\ hand' = [hand EXCEPT ![j] = "starting"]
  /\ status' = [status EXCEPT ![j] = "queued"]
  /\ workQueue' = Append(workQueue, j)
  /\ UNCHANGED <<failed, overdue, outstanding, mainVars>>

\* started.wait() returns.
Started(j) ==
  /\ hand[j] = "starting" /\ status[j] \notin {"new", "queued"}
  /\ hand' = [hand EXCEPT ![j] = "checking"]
  /\ UNCHANGED <<poolVars, outstanding, mainVars>>

\* if future_thread_info.thread: the first read of the attribute.
CheckThread(j) ==
  /\ hand[j] = "checking"
  /\ hand' = [hand EXCEPT ![j] = IF HasThread(j) THEN "naming" ELSE "appending"]
  /\ UNCHANGED <<poolVars, outstanding, mainVars>>

\* An exception leaves the function of p, or main() before its loop.
Raise(p) ==
  IF p = Main
    THEN mainPc' = "stopped" /\ UNCHANGED <<status, failed>>
    ELSE /\ status' = [status EXCEPT ![p] = "returned"]
         /\ failed' = failed \cup {p}
         /\ UNCHANGED mainPc

\* future_thread_info.thread.name = ...: the second read.  If the worker has
\* cleared the attribute meanwhile, submit() raises AttributeError and the
\* future is never entered in outstanding_futures.
NameThread(j) ==
  /\ hand[j] = "naming"
  /\ IF HasThread(j)
       THEN hand' = [hand EXCEPT ![j] = "appending"] /\ UNCHANGED <<status, failed, mainPc>>
       ELSE hand' = [hand EXCEPT ![j] = "lost"] /\ Raise(Parent[j])
  /\ UNCHANGED <<workQueue, overdue, outstanding, checkVars>>

\* The main loop holds outstanding_futures_lock.
Locked == mainPc = "partition" \/ (mainPc = "watchdogs" /\ todo # {})

\* outstanding_futures.append, under the lock.
AppendInfo(j) ==
  /\ hand[j] = "appending" /\ ~Locked
  /\ hand' = [hand EXCEPT ![j] = "appended"]
  /\ outstanding' = outstanding \cup {j}
  /\ UNCHANGED <<poolVars, mainVars>>

-----------------------------------------------------------------------------
(***************************************************************************)
(* The workers.                                                            *)
(***************************************************************************)

Occupied == {j \in Job : status[j] \notin {"new", "queued", "done"}}

\* Mutant: one worker too few.
OneShort == Cardinality(Occupied) + 1 < MaxWorkers

WorkerFree == Cardinality(Occupied) < MaxWorkers

\* A free worker takes the oldest job; _thread_outer_proc sets thread and
\* critical, and then started.  Only a submitter that waits for started reads
\* them before, so this is one step.
Start(j) ==
  /\ workQueue # <<>> /\ j = Head(workQueue) /\ WorkerFree
  /\ workQueue' = Tail(workQueue)
  /\ status' = [status EXCEPT ![j] = "running"]
  /\ UNCHANGED <<failed, overdue, hand, outstanding, mainVars>>

\* The function returns or raises; not while it is inside submit().
EndJob(j) ==
  /\ status[j] = "running" /\ ~Submitting(j)
  /\ status' = [status EXCEPT ![j] = "returned"]
  /\ failed' \in {failed, failed \cup {j}}
  /\ UNCHANGED <<workQueue, overdue, hand, outstanding, mainVars>>

\* The interval passes without a call of reset_watchdog ...
MissWatchdog(j) ==
  /\ status[j] = "running" /\ j \notin overdue
  /\ overdue' = overdue \cup {j}
  /\ UNCHANGED <<workQueue, status, failed, hand, outstanding, mainVars>>

\* ... and the job calls it after all.
ResetWatchdog(j) ==
  /\ status[j] = "running" /\ j \in overdue
  /\ overdue' = overdue \ {j}
  /\ UNCHANGED <<workQueue, status, failed, hand, outstanding, mainVars>>

\* future_thread_info.thread = None
ClearThread(j) ==
  /\ status[j] = "returned"
  /\ status' = [status EXCEPT ![j] = "cleared"]
  /\ overdue' = overdue \ {j}
  /\ UNCHANGED <<workQueue, failed, hand, outstanding, mainVars>>

\* trigger_thread_death_event: notify_all wakes the main loop if it waits.
Trigger(j) ==
  /\ status[j] = "cleared"
  /\ status' = [status EXCEPT ![j] = "notified"]
  /\ mainPc' = IF mainPc = "waiting" THEN "woken" ELSE mainPc
  /\ UNCHANGED <<workQueue, failed, overdue, hand, outstanding, checkVars>>

\* Back in the pool's own code the future is completed, and the worker is free.
CompleteFuture(j) ==
  /\ status[j] = "notified"
  /\ status' = [status EXCEPT ![j] = "done"]
  /\ UNCHANGED <<workQueue, failed, overdue, hand, outstanding, mainVars>>

-----------------------------------------------------------------------------
(***************************************************************************)
(* The main loop.                                                          *)
(***************************************************************************)

\* The main thread has submitted its jobs and enters the loop.
EnterLoop ==
  /\ mainPc = "setup"
  /\ \A j \in Job : Parent[j] = Main => hand[j] = "appended"
  /\ mainPc' = "loop"
  /\ UNCHANGED <<poolVars, hand, outstanding, checkVars>>

\* The loop's condition; wait_for_thread_death_event, which asks for nothing
\* but a notification that comes while it waits.
StartWait ==
  /\ mainPc = "loop"
  /\ mainPc' = IF expired THEN "complete" ELSE "waiting"
  /\ UNCHANGED <<poolVars, hand, outstanding, checkVars>>

\* planned_end_time passes.
Expire ==
  /\ PlannedEnd /\ ~expired
  /\ expired' = TRUE
  /\ UNCHANGED <<poolVars, hand, outstanding, mainPc, todo, completed, reported, first>>

WaitTimesOut ==
  /\ mainPc = "waiting" /\ expired
  /\ mainPc' = "woken"
  /\ UNCHANGED <<poolVars, hand, outstanding, checkVars>>

\* Mutant: the loop ends at the planned end without a last look at the jobs.
NoLastLook == IF expired THEN "complete" ELSE "watchdogs"

AfterWait == "watchdogs"

\* check_watchdogs: it only looks at the jobs that have a thread.
CheckWatchdogs ==
  /\ mainPc = "woken" /\ mainPc' = AfterWait
  /\ todo' = outstanding
  /\ UNCHANGED <<poolVars, hand, outstanding, completed, reported, first, expired>>

CheckWatchdog(j) ==
  /\ mainPc = "watchdogs" /\ j \in todo
  /\ todo' = todo \ {j}
  /\ first' = (first \/ (HasThread(j) /\ j \in overdue /\ j \in Critical))
  /\ UNCHANGED <<poolVars, hand, outstanding, mainPc, completed, reported, expired>>

\* Mutant: the list is not emptied before it is rebuilt.
StillListed == outstanding

Emptied == {}

\* check_for_failures takes the lock and the list, unless check_watchdogs
\* raises.
TakeList ==
  /\ mainPc = "watchdogs" /\ todo = {}
  /\ IF first
       THEN mainPc' = "stopped" /\ UNCHANGED <<todo, outstanding>>
       ELSE mainPc' = "partition" /\ todo' = outstanding /\ outstanding' = Emptied
  /\ UNCHANGED <<poolVars, hand, completed, reported, first, expired>>

\* A future whose job has no thread any more counts as completed.
Partition(j) ==
  /\ mainPc = "partition" /\ j \in todo
  /\ todo' = todo \ {j}
  /\ IF HasThread(j)
       THEN outstanding' = outstanding \cup {j} /\ UNCHANGED completed
       ELSE completed' = completed \cup {j} /\ UNCHANGED outstanding
  /\ UNCHANGED <<poolVars, hand, mainPc, reported, first, expired>>

ReleaseLock ==
  /\ mainPc = "partition" /\ todo = {}
  /\ mainPc' = "report"
  /\ UNCHANGED <<poolVars, hand, outstanding, checkVars>>

\* Mutant: a later future overwrites first_exception.
LastFailed(j) == j \in failed \cap Critical

AnyFailed(j) == first \/ j \in failed \cap Critical

\* assert info.future.done(), and then its exception, if any.
Report(j) ==
  /\ mainPc = "report" /\ j \in completed
  /\ IF status[j] = "done"
       THEN /\ completed' = completed \ {j} /\ reported' = reported \cup {j}
            /\ first' = AnyFailed(j)
            /\ UNCHANGED mainPc
       ELSE mainPc' = "stopped" /\ UNCHANGED <<completed, reported, first>>
  /\ UNCHANGED <<poolVars, hand, outstanding, todo, expired>>

\* Raise the first exception of a critical job, or go round again.
EndCheck ==
  /\ mainPc = "report" /\ completed = {}
  /\ mainPc' = IF first THEN "stopped" ELSE "loop"
  /\ UNCHANGED <<poolVars, hand, outstanding, checkVars>>

-----------------------------------------------------------------------------

Submission(j) ==
  Submit(j) \/ Started(j) \/ CheckThread(j) \/ NameThread(j) \/ AppendInfo(j)

\* What a worker does outside the function it runs.
Worker(j) == Start(j) \/ ClearThread(j) \/ Trigger(j) \/ CompleteFuture(j)

Function(j) == EndJob(j) \/ MissWatchdog(j) \/ ResetWatchdog(j)

MainLoop ==
  \/ EnterLoop \/ StartWait \/ WaitTimesOut \/ CheckWatchdogs \/ TakeList
  \/ ReleaseLock \/ EndCheck
  \/ \E j \in Job : CheckWatchdog(j) \/ Partition(j) \/ Report(j)

Next ==
  \/ \E j \in Job : Submission(j) \/ Worker(j) \/ Function(j)
  \/ MainLoop \/ Expire

Spec == Init /\ [][Next]_vars

\* Threads are scheduled, and submit() is called for every job that can be.
\* Nothing makes a job's own function end or reset its watchdog.
FairSpec ==
  /\ Spec
  /\ WF_vars(MainLoop)
  /\ \A j \in Job : WF_vars(Submission(j)) /\ WF_vars(Worker(j))

\* Every function ends.  The property that rests on it says so.
FunctionsEnd == \A j \in Job : WF_vars(EndJob(j))

-----------------------------------------------------------------------------
(***************************************************************************)
(* Correctness.                                                            *)
(***************************************************************************)

TypeOK ==
  /\ workQueue \in Seq(Job)
  /\ status \in [Job -> {"new", "queued", "running", "returned", "cleared",
                         "notified", "done"}]
  /\ hand \in [Job -> {"none", "starting", "checking", "naming", "appending",
                       "appended", "lost"}]
  /\ {failed, overdue, outstanding, todo, completed, reported} \subseteq SUBSET Job
  /\ mainPc \in {"setup", "loop", "waiting", "woken", "watchdogs", "partition",
                 "report", "stopped", "complete"}
  /\ {first, expired} \subseteq BOOLEAN
  /\ mainPc \notin {"watchdogs", "partition", "stopped"} => todo = {}
  /\ mainPc \in {"setup", "loop", "waiting", "woken", "watchdogs"} => completed = {}

\* What the main loop reads of a future exists: critical, start_time and
\* long_run are only set once the job runs, and check_for_failures would find
\* no thread on a job that waits for a worker and take it for a dead one.
NoneTooEarly ==
  \A j \in outstanding \cup todo \cup completed :
    hand[j] = "appended" /\ status[j] \notin {"new", "queued"}

\* Every future that was entered is in one place: still outstanding, in the
\* hands of the running check, or reported.  None is reported twice and none
\* gets lost while submit() appends and check_for_failures swaps the list.
AccountedOnce ==
  /\ \A j \in Job : hand[j] = "appended" =>
       j \in outstanding \cup todo \cup completed \cup reported
  /\ completed \cap reported = {}
  /\ outstanding \cap (completed \cup reported) = {}
  /\ todo \cap (completed \cup reported) = {}
  /\ mainPc = "partition" => todo \cap outstanding = {}

\* A run never goes on, and never counts as complete, past the report of a
\* critical failure.
NoRunAfterCriticalFailure ==
  mainPc \in {"loop", "waiting", "woken", "watchdogs", "complete"} =>
    reported \cap failed \cap Critical = {}

\* A critical job that has failed and is outstanding when the main loop is
\* awake stops the run, also if its planned end has passed.
FailureSeenStopsRun ==
  \A j \in Critical :
    mainPc = "woken" /\ j \in outstanding \cap failed /\ status[j] = "done"
      ~> mainPc = "stopped"

\* submit() returns if functions end: started.wait() is no deadlock unless the
\* job of every worker waits in submit().
SubmitReturns ==
  FunctionsEnd => \A j \in Job : hand[j] = "starting" ~> hand[j] # "starting"
=============================================================================
