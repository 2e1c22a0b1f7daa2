--------------------------- MODULE ExecutorProofs ---------------------------
(***************************************************************************)
(* Proofs about Executor, for any jobs, any parents and any number of      *)
(* workers, with and without a planned end.                                *)
(***************************************************************************)
EXTENDS Executor, TLAPS

-----------------------------------------------------------------------------
(***************************************************************************)
(* Type correctness.                                                       *)
(***************************************************************************)

LEMMA TypeInit == Init => TypeOK
<1>1. <<>> \in Seq(Job)
  OBVIOUS
<1> QED
  BY <1>1 DEF Init, TypeOK

LEMMA TypeNext == TypeOK /\ [Next]_vars => TypeOK'
<1> SUFFICES ASSUME TypeOK, [Next]_vars PROVE TypeOK'
  OBVIOUS
<1> USE ExecutorAssumption DEF poolVars, mainVars, checkVars, AfterWait, Emptied, AnyFailed
<1>1. ASSUME NEW j \in Job, Submission(j) PROVE TypeOK'
  <2>1. CASE Submit(j)
    <3>1. workQueue' \in Seq(Job)
      <4>1. workQueue \in Seq(Job)
        BY DEF TypeOK
      <4> QED
        BY <2>1, <4>1 DEF Submit
    <3> QED
      BY <2>1, <3>1 DEF Submit, TypeOK
  <2>2. CASE Started(j)
    BY <2>2 DEF Started, TypeOK
  <2>3. CASE CheckThread(j)
    BY <2>3 DEF CheckThread, TypeOK
  <2>4. CASE NameThread(j)
    <3>1. CASE HasThread(j)
      BY <2>4, <3>1 DEF NameThread, TypeOK
    <3>2. CASE ~HasThread(j) /\ Parent[j] = Main
      BY <2>4, <3>2 DEF NameThread, Raise, TypeOK
    <3>3. CASE ~HasThread(j) /\ Parent[j] \in Job
      BY <2>4, <3>3 DEF NameThread, Raise, TypeOK
    <3> QED
      BY <3>1, <3>2, <3>3
  <2>5. CASE AppendInfo(j)
    BY <2>5 DEF AppendInfo, TypeOK
  <2> QED
    BY <1>1, <2>1, <2>2, <2>3, <2>4, <2>5 DEF Submission
<1>2. ASSUME NEW j \in Job, Worker(j) PROVE TypeOK'
  <2>1. CASE Start(j)
    <3>1. workQueue' \in Seq(Job)
      <4>1. workQueue \in Seq(Job) /\ workQueue # <<>>
        BY <2>1 DEF TypeOK, Start
      <4> QED
        BY <2>1, <4>1 DEF Start
    <3> QED
      BY <2>1, <3>1 DEF Start, TypeOK
  <2>2. CASE ClearThread(j)
    BY <2>2 DEF ClearThread, TypeOK
  <2>3. CASE Trigger(j)
    BY <2>3 DEF Trigger, TypeOK
  <2>4. CASE CompleteFuture(j)
    BY <2>4 DEF CompleteFuture, TypeOK
  <2> QED
    BY <1>2, <2>1, <2>2, <2>3, <2>4 DEF Worker
<1>3. ASSUME NEW j \in Job, Function(j) PROVE TypeOK'
  BY <1>3 DEF Function, EndJob, MissWatchdog, ResetWatchdog, TypeOK
<1>4. ASSUME NEW j \in Job, CheckWatchdog(j) \/ Partition(j) \/ Report(j)
      PROVE  TypeOK'
  <2>1. CASE CheckWatchdog(j)
    BY <2>1 DEF CheckWatchdog, TypeOK
  <2>2. CASE Partition(j)
    BY <2>2 DEF Partition, TypeOK
  <2>3. CASE Report(j)
    <3>1. CASE status[j] = "done"
      BY <2>3, <3>1 DEF Report, TypeOK
    <3>2. CASE status[j] # "done"
      BY <2>3, <3>2 DEF Report, TypeOK
    <3> QED
      BY <3>1, <3>2
  <2> QED
    BY <1>4, <2>1, <2>2, <2>3
<1>5. CASE EnterLoop \/ StartWait \/ WaitTimesOut \/ Expire
  BY <1>5 DEF EnterLoop, StartWait, WaitTimesOut, Expire, TypeOK
<1>6. CASE CheckWatchdogs \/ TakeList \/ ReleaseLock \/ EndCheck
  BY <1>6 DEF CheckWatchdogs, TakeList, ReleaseLock, EndCheck, TypeOK
<1>7. CASE UNCHANGED vars
  BY <1>7 DEF vars, TypeOK
<1> QED
  BY <1>1, <1>2, <1>3, <1>4, <1>5, <1>6, <1>7 DEF Next, MainLoop

\* The main loop only has futures in hand while a check runs.
THEOREM TypeCorrect == Spec => []TypeOK
<1> QED
  BY TypeInit, TypeNext, PTL DEF Spec

-----------------------------------------------------------------------------
(***************************************************************************)
(* The bookkeeping of the futures.                                         *)
(***************************************************************************)

\* submit() only goes on once a worker has started the job, and a job is never
\* queued again.
StartedFirst ==
  \A j \in Job :
    /\ hand[j] \in {"checking", "naming", "appending", "appended"} =>
         status[j] \notin {"new", "queued"}
    /\ hand[j] # "none" => status[j] # "new"

Entered == outstanding \cup todo \cup completed \cup reported

OnlyAppended ==
  /\ \A j \in Entered : hand[j] = "appended"
  /\ mainPc = "watchdogs" => todo \subseteq outstanding

IInv == TypeOK /\ StartedFirst /\ OnlyAppended /\ AccountedOnce

LEMMA StartedFirstNext == TypeOK /\ StartedFirst /\ [Next]_vars => StartedFirst'
<1> SUFFICES ASSUME TypeOK, StartedFirst, [Next]_vars PROVE StartedFirst'
  OBVIOUS
<1> USE ExecutorAssumption DEF poolVars, mainVars, checkVars, AfterWait, Emptied, AnyFailed
<1>1. ASSUME NEW j \in Job, Submission(j) PROVE StartedFirst'
  <2>1. CASE Submit(j)
    BY <2>1 DEF Submit, TypeOK, StartedFirst
  <2>2. CASE Started(j) \/ CheckThread(j) \/ AppendInfo(j)
    BY <2>2 DEF Started, CheckThread, AppendInfo, TypeOK, StartedFirst
  <2>3. CASE NameThread(j)
    BY <2>3 DEF NameThread, Raise, TypeOK, StartedFirst
  <2> QED
    BY <1>1, <2>1, <2>2, <2>3 DEF Submission
<1>2. ASSUME NEW j \in Job, Worker(j) PROVE StartedFirst'
  BY <1>2 DEF Worker, Start, ClearThread, Trigger, CompleteFuture, TypeOK,
              StartedFirst
<1>3. ASSUME NEW j \in Job, Function(j) PROVE StartedFirst'
  BY <1>3 DEF Function, EndJob, MissWatchdog, ResetWatchdog, TypeOK, StartedFirst
<1>4. CASE MainLoop \/ Expire \/ UNCHANGED vars
  BY <1>4 DEF MainLoop, EnterLoop, StartWait, WaitTimesOut, CheckWatchdogs, TakeList,
     ReleaseLock, EndCheck, CheckWatchdog, Partition, Report, Expire, vars,
     StartedFirst
<1> QED
  BY <1>1, <1>2, <1>3, <1>4 DEF Next

LEMMA EnteredNext ==
  ASSUME IInv, [Next]_vars PROVE OnlyAppended' /\ AccountedOnce'
<1> USE ExecutorAssumption DEF poolVars, mainVars, checkVars, AfterWait, Emptied, AnyFailed
<1>0. TypeOK
  BY DEF IInv
<1>1. CASE /\ UNCHANGED <<outstanding, todo, completed, reported>>
           /\ \A j \in Job : hand'[j] = "appended" <=> hand[j] = "appended"
           /\ mainPc' \in {"partition", "watchdogs"} => mainPc' = mainPc
  BY <1>0, <1>1 DEF IInv, OnlyAppended, AccountedOnce, Entered, TypeOK
<1>2. ASSUME NEW j \in Job, Submission(j) PROVE OnlyAppended' /\ AccountedOnce'
  <2>1. CASE AppendInfo(j)
    <3>1. /\ hand[j] # "appended" /\ hand' = [hand EXCEPT ![j] = "appended"]
          /\ outstanding' = outstanding \cup {j}
          /\ UNCHANGED <<todo, completed, reported, mainPc>>
      BY <2>1 DEF AppendInfo
    <3> QED
      BY <1>0, <3>1 DEF IInv, OnlyAppended, AccountedOnce, Entered, TypeOK
  <2>2. CASE NameThread(j)
    <3>1. \A i \in Job : hand'[i] = "appended" <=> hand[i] = "appended"
      BY <1>0, <2>2 DEF NameThread, TypeOK
    <3>2. /\ UNCHANGED <<outstanding, todo, completed, reported>>
          /\ mainPc' \in {"partition", "watchdogs"} => mainPc' = mainPc
      BY <2>2 DEF NameThread, Raise
    <3> QED
      BY <1>1, <3>1, <3>2
  <2>3. CASE Submit(j) \/ Started(j) \/ CheckThread(j)
    BY <1>0, <1>1, <2>3 DEF Submit, Started, CheckThread, TypeOK
  <2> QED
    BY <1>2, <2>1, <2>2, <2>3 DEF Submission
<1>3. ASSUME NEW j \in Job, Worker(j) \/ Function(j)
      PROVE  OnlyAppended' /\ AccountedOnce'
  BY <1>1, <1>3 DEF Worker, Function, Start, ClearThread, Trigger, CompleteFuture,
     EndJob, MissWatchdog, ResetWatchdog
<1>4. CASE EnterLoop \/ StartWait \/ WaitTimesOut \/ Expire \/ EndCheck \/ ReleaseLock
           \/ UNCHANGED vars
  BY <1>1, <1>4 DEF EnterLoop, StartWait, WaitTimesOut, Expire, EndCheck, ReleaseLock,
     vars
<1>5. CASE CheckWatchdogs
  BY <1>0, <1>5 DEF CheckWatchdogs, IInv, OnlyAppended, AccountedOnce, Entered, TypeOK
<1>6. ASSUME NEW j \in Job, CheckWatchdog(j) PROVE OnlyAppended' /\ AccountedOnce'
  <2>1. /\ todo' = todo \ {j} /\ mainPc' = "watchdogs" /\ mainPc = "watchdogs"
        /\ UNCHANGED <<hand, outstanding, completed, reported>>
    BY <1>6 DEF CheckWatchdog
  <2> QED
    BY <1>0, <2>1 DEF IInv, OnlyAppended, AccountedOnce, Entered, TypeOK
<1>7. CASE TakeList
  BY <1>0, <1>7 DEF TakeList, IInv, OnlyAppended, AccountedOnce, Entered, TypeOK
<1>8. ASSUME NEW j \in Job, Partition(j) PROVE OnlyAppended' /\ AccountedOnce'
  BY <1>0, <1>8 DEF Partition, IInv, OnlyAppended, AccountedOnce, Entered, TypeOK
<1>9. ASSUME NEW j \in Job, Report(j) PROVE OnlyAppended' /\ AccountedOnce'
  BY <1>0, <1>9 DEF Report, IInv, OnlyAppended, AccountedOnce, Entered, TypeOK
<1> QED
  BY <1>2, <1>3, <1>4, <1>5, <1>6, <1>7, <1>8, <1>9 DEF Next, MainLoop

LEMMA Invariance == Spec => []IInv
<1>1. Init => IInv
  BY TypeInit DEF Init, IInv, StartedFirst, OnlyAppended, AccountedOnce, Entered
<1>2. IInv /\ [Next]_vars => IInv'
  BY TypeNext, StartedFirstNext, EnteredNext DEF IInv
<1> QED
  BY <1>1, <1>2, PTL DEF Spec

\* A check never meets a future whose job has not started, so it finds the
\* attributes it reads and takes no waiting job for a dead one.
THEOREM NoFutureTooEarly == Spec => []NoneTooEarly
<1>1. IInv => NoneTooEarly
  BY DEF IInv, TypeOK, StartedFirst, OnlyAppended, Entered, NoneTooEarly
<1> QED
  BY <1>1, Invariance, PTL

\* No future is lost or reported twice, however submissions and checks
\* interleave.
THEOREM EveryFutureAccounted == Spec => []AccountedOnce
<1>1. IInv => AccountedOnce
  BY DEF IInv
<1> QED
  BY <1>1, Invariance, PTL

-----------------------------------------------------------------------------
(***************************************************************************)
(* The failures.                                                           *)
(***************************************************************************)

InSubmit == {"starting", "checking", "naming", "appending"}

\* A job waits in the queue once, from its submission to its start.
Queued ==
  /\ \A n \in 1..Len(workQueue) : status[workQueue[n]] = "queued"
  /\ \A m, n \in 1..Len(workQueue) : workQueue[m] = workQueue[n] => m = n
  /\ \A j \in Job : hand[j] = "none" => status[j] = "new"

\* A function is inside one call of submit() at a time, and runs meanwhile, so a
\* failed submission can only fail a job that has not ended.
OneSubmission ==
  \A i, j \in Job :
    /\ hand[j] \in InSubmit /\ Parent[j] \in Job => status[Parent[j]] = "running"
    /\ hand[i] \in InSubmit /\ hand[j] \in InSubmit /\ Parent[i] = Parent[j] => i = j

\* What was reported is final, and a critical failure among it is remembered
\* in first_exception.
Remembered ==
  /\ \A j \in reported : status[j] = "done"
  /\ (\E j \in reported : j \in failed /\ j \in Critical) => first
  /\ mainPc = "setup" => reported = {}

FInv == TypeOK /\ Queued /\ OneSubmission /\ Remembered /\ NoRunAfterCriticalFailure

LEMMA QueuedNext == ASSUME FInv, [Next]_vars PROVE Queued'
<1> USE ExecutorAssumption DEF poolVars, mainVars, checkVars, InSubmit
<1>0. TypeOK /\ Queued /\ OneSubmission /\ workQueue \in Seq(Job)
  BY DEF FInv, TypeOK
<1>1. ASSUME NEW k \in Job, Submit(k) PROVE Queued'
  <2>1. /\ hand[k] = "none" /\ hand' = [hand EXCEPT ![k] = "starting"]
        /\ status' = [status EXCEPT ![k] = "queued"]
        /\ workQueue' = Append(workQueue, k)
    BY <1>1 DEF Submit
  <2>2. \A n \in 1..Len(workQueue) : workQueue[n] # k
    BY <1>0, <2>1 DEF Queued
  <2>3. /\ Len(workQueue') = Len(workQueue) + 1 /\ workQueue'[Len(workQueue')] = k
        /\ \A n \in 1..Len(workQueue) : workQueue'[n] = workQueue[n]
    BY <1>0, <2>1
  <2>4. \A n \in 1..Len(workQueue') :
          (n \in 1..Len(workQueue) /\ workQueue'[n] = workQueue[n]) \/ workQueue'[n] = k
    BY <1>0, <2>3
  <2> QED
    BY <1>0, <2>1, <2>2, <2>3, <2>4 DEF Queued, TypeOK
<1>2. ASSUME NEW k \in Job, Start(k) PROVE Queued'
  <2>1. /\ workQueue # <<>> /\ k = workQueue[1] /\ workQueue' = Tail(workQueue)
        /\ status' = [status EXCEPT ![k] = "running"] /\ hand' = hand
    BY <1>2 DEF Start
  <2>2. /\ Len(workQueue') = Len(workQueue) - 1 /\ 1 \in 1..Len(workQueue)
        /\ \A n \in 1..Len(workQueue') :
              n + 1 \in 1..Len(workQueue) /\ workQueue'[n] = workQueue[n + 1]
    BY <1>0, <2>1
  <2>3. \A n \in 1..Len(workQueue') : workQueue[n + 1] # k
    BY <1>0, <2>1, <2>2 DEF Queued
  <2>4. hand[k] # "none"
    BY <1>0, <2>1, <2>2 DEF Queued
  <2> QED
    BY <1>0, <2>1, <2>2, <2>3, <2>4 DEF Queued, TypeOK
<1>3. ASSUME workQueue' = workQueue,
             \A j \in Job : hand'[j] = "none" => hand[j] = "none",
             \A j \in Job : status[j] \in {"new", "queued"} => status'[j] = status[j]
      PROVE  Queued'
  <2>1. \A n \in 1..Len(workQueue) : workQueue[n] \in Job
    BY <1>0
  <2> QED
    BY <1>0, <1>3, <2>1 DEF Queued
<1>4. ASSUME NEW k \in Job, Started(k) \/ CheckThread(k) \/ NameThread(k) \/ AppendInfo(k)
      PROVE  Queued'
  <2>1. CASE NameThread(k)
    <3>1. Parent[k] \in Job => status[Parent[k]] = "running"
      BY <1>0, <2>1 DEF OneSubmission, NameThread
    <3> QED
      BY <1>0, <1>3, <2>1, <3>1 DEF NameThread, Raise, TypeOK
  <2> QED
    BY <1>0, <1>3, <1>4, <2>1 DEF Started, CheckThread, AppendInfo, TypeOK
<1>5. ASSUME NEW k \in Job, ClearThread(k) \/ Trigger(k) \/ CompleteFuture(k) \/ Function(k)
      PROVE  Queued'
  BY <1>0, <1>3, <1>5 DEF ClearThread, Trigger, CompleteFuture, Function, EndJob,
     MissWatchdog, ResetWatchdog, TypeOK
<1>6. CASE MainLoop \/ Expire \/ UNCHANGED vars
  BY <1>3, <1>6 DEF MainLoop, EnterLoop, StartWait, WaitTimesOut, CheckWatchdogs, TakeList,
     ReleaseLock, EndCheck, CheckWatchdog, Partition, Report, Expire, vars
<1> QED
  BY <1>1, <1>2, <1>4, <1>5, <1>6 DEF Next, Submission, Worker

LEMMA OneSubmissionNext == ASSUME FInv, [Next]_vars PROVE OneSubmission'
<1> USE ExecutorAssumption DEF poolVars, mainVars, checkVars, InSubmit
<1>0. TypeOK /\ Queued /\ OneSubmission
  BY DEF FInv
<1>1. ASSUME NEW k \in Job, Submit(k) PROVE OneSubmission'
  <2>1. /\ hand' = [hand EXCEPT ![k] = "starting"]
        /\ status' = [status EXCEPT ![k] = "queued"] /\ status[k] = "new"
    BY <1>0, <1>1 DEF Submit, Queued
  <2>2. \A i \in Job : hand[i] \in InSubmit => Parent[i] # Parent[k]
    BY <1>1 DEF Submit, Active, Submitting
  <2>3. Parent[k] \in Job => status[Parent[k]] = "running"
    BY <1>1 DEF Submit, Active
  <2> QED
    BY <1>0, <2>1, <2>2, <2>3 DEF TypeOK, OneSubmission
<1>2. ASSUME \A j \in Job : hand'[j] \in InSubmit => hand[j] \in InSubmit,
             \A p \in Job : status[p] = "running" => status'[p] = "running"
                            \/ \A j \in Job : hand'[j] \in InSubmit => Parent[j] # p
      PROVE  OneSubmission'
  BY <1>0, <1>2 DEF OneSubmission
<1>3. ASSUME NEW k \in Job, Started(k) \/ CheckThread(k) \/ NameThread(k) \/ AppendInfo(k)
      PROVE  OneSubmission'
  <2>1. CASE NameThread(k)
    <3>1. CASE HasThread(k)
      BY <1>0, <1>2, <2>1, <3>1 DEF NameThread, TypeOK
    <3>2. CASE ~HasThread(k)
      <4>1. hand' = [hand EXCEPT ![k] = "lost"] /\ hand[k] = "naming"
        BY <2>1, <3>2 DEF NameThread
      <4>2. \A p \in Job : p # Parent[k] => status'[p] = status[p]
        BY <1>0, <2>1, <3>2 DEF NameThread, Raise, TypeOK
      <4>3. \A j \in Job : hand'[j] \in InSubmit => Parent[j] # Parent[k]
        BY <1>0, <4>1 DEF OneSubmission, TypeOK
      <4> QED
        BY <1>0, <1>2, <4>1, <4>2, <4>3 DEF TypeOK
    <3> QED
      BY <3>1, <3>2
  <2> QED
    BY <1>0, <1>2, <1>3, <2>1 DEF Started, CheckThread, AppendInfo, TypeOK
<1>4. ASSUME NEW k \in Job, Worker(k) PROVE OneSubmission'
  BY <1>0, <1>2, <1>4 DEF Worker, Start, ClearThread, Trigger, CompleteFuture, TypeOK
<1>5. ASSUME NEW k \in Job, Function(k) PROVE OneSubmission'
  <2>1. CASE EndJob(k)
    BY <1>0, <1>2, <2>1 DEF EndJob, Submitting, TypeOK
  <2> QED
    BY <1>2, <1>5, <2>1 DEF Function, MissWatchdog, ResetWatchdog
<1>6. CASE MainLoop \/ Expire \/ UNCHANGED vars
  BY <1>2, <1>6 DEF MainLoop, EnterLoop, StartWait, WaitTimesOut, CheckWatchdogs, TakeList,
     ReleaseLock, EndCheck, CheckWatchdog, Partition, Report, Expire, vars
<1> QED
  BY <1>1, <1>3, <1>4, <1>5, <1>6 DEF Next, Submission

LEMMA FailureNext ==
  ASSUME FInv, [Next]_vars PROVE Remembered' /\ NoRunAfterCriticalFailure'
<1> USE ExecutorAssumption DEF poolVars, mainVars, checkVars, InSubmit
<1>0. /\ TypeOK /\ Queued /\ OneSubmission /\ Remembered
      /\ NoRunAfterCriticalFailure /\ workQueue \in Seq(Job)
  BY DEF FInv, TypeOK
<1> DEFINE Good == {"loop", "waiting", "woken", "watchdogs", "complete"}
<1>1. ASSUME reported' = reported, first => first',
             \A j \in reported : status'[j] = "done" /\ (j \in failed' => j \in failed),
             mainPc' = "setup" => mainPc = "setup",
             mainPc' \in Good => mainPc \in Good \/ ~first
      PROVE  Remembered' /\ NoRunAfterCriticalFailure'
  BY <1>0, <1>1 DEF Remembered, NoRunAfterCriticalFailure, TypeOK
<1>2. ASSUME NEW k \in Job, Submission(k)
      PROVE  Remembered' /\ NoRunAfterCriticalFailure'
  <2>1. CASE NameThread(k)
    <3>1. Parent[k] \in Job => Parent[k] \notin reported
      BY <1>0, <2>1 DEF NameThread, OneSubmission, Remembered
    <3> QED
      BY <1>0, <1>1, <2>1, <3>1 DEF NameThread, Raise, TypeOK, Remembered
  <2>2. CASE Submit(k)
    <3>1. k \notin reported
      BY <1>0, <2>2 DEF Submit, Queued, Remembered
    <3> QED
      BY <1>0, <1>1, <2>2, <3>1 DEF Submit, TypeOK, Remembered
  <2> QED
    BY <1>0, <1>1, <1>2, <2>1, <2>2 DEF Submission, Started, CheckThread, AppendInfo, Remembered
<1>3. ASSUME NEW k \in Job, Worker(k) \/ Function(k)
      PROVE  Remembered' /\ NoRunAfterCriticalFailure'
  <2>1. CASE Start(k)
    <3>1. k \notin reported
      BY <1>0, <2>1 DEF Start, Queued, Remembered
    <3> QED
      BY <1>0, <1>1, <2>1, <3>1 DEF Start, TypeOK, Remembered
  <2>2. CASE Function(k)
    BY <1>0, <1>1, <2>2 DEF Function, EndJob, MissWatchdog, ResetWatchdog, TypeOK, Remembered
  <2> QED
    BY <1>0, <1>1, <1>3, <2>1, <2>2 DEF Worker, ClearThread, Trigger, CompleteFuture, TypeOK,
       Remembered
<1>4. ASSUME NEW k \in Job, Report(k)
      PROVE  Remembered' /\ NoRunAfterCriticalFailure'
  <2>1. CASE status[k] = "done"
    <3>1. /\ reported' = reported \cup {k} /\ failed' = failed /\ status' = status
          /\ mainPc' = "report"
      BY <1>4, <2>1 DEF Report
    <3>2. first \/ (k \in failed /\ k \in Critical) => first'
      BY <1>4, <2>1 DEF Report, AnyFailed
    <3> QED
      BY <1>0, <2>1, <3>1, <3>2 DEF Remembered, NoRunAfterCriticalFailure
  <2>2. CASE status[k] # "done"
    BY <1>0, <1>1, <1>4, <2>2 DEF Report, Remembered
  <2> QED
    BY <2>1, <2>2
<1>5. CASE EnterLoop
  BY <1>0, <1>5 DEF EnterLoop, Remembered, NoRunAfterCriticalFailure
<1>6. CASE EndCheck
  BY <1>0, <1>1, <1>6 DEF EndCheck, Remembered
<1>7. ASSUME NEW k \in Job, CheckWatchdog(k) \/ Partition(k)
      PROVE  Remembered' /\ NoRunAfterCriticalFailure'
  BY <1>0, <1>1, <1>7 DEF CheckWatchdog, Partition, Remembered, TypeOK
<1>8. CASE StartWait \/ WaitTimesOut \/ CheckWatchdogs \/ TakeList \/ ReleaseLock \/ Expire
           \/ UNCHANGED vars
  BY <1>0, <1>1, <1>8 DEF StartWait, WaitTimesOut, CheckWatchdogs, AfterWait, TakeList,
     ReleaseLock, Expire, vars, Remembered
<1> QED
  BY <1>2, <1>3, <1>4, <1>5, <1>6, <1>7, <1>8 DEF Next, MainLoop

\* A run never goes on or completes past the report of a critical failure, also
\* if jobs submit jobs and any of the calls of submit() fails.
THEOREM FailureStopsRun == Spec => []NoRunAfterCriticalFailure
<1>1. Init => FInv
  BY TypeInit, ExecutorAssumption
     DEF Init, FInv, Queued, OneSubmission, InSubmit, Remembered, NoRunAfterCriticalFailure
<1>2. FInv /\ [Next]_vars => FInv'
  BY TypeNext, QueuedNext, OneSubmissionNext, FailureNext DEF FInv
<1>3. FInv => NoRunAfterCriticalFailure
  BY DEF FInv
<1> QED
  BY <1>1, <1>2, <1>3, PTL DEF Spec
=============================================================================
