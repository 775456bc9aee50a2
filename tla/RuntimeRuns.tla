------------------------------ MODULE RuntimeRuns ------------------------------
(***************************************************************************)
(* Runs of the runtime and the durable jobs that execute them: start,      *)
(* cancellation, the job worker, executeRun with its awaits, retry with    *)
(* backoff and dead-lettering, and recovery when the daemon restarts.      *)
(*                                                                         *)
(* The daemon is one JavaScript thread.  `frame' is the synchronous code   *)
(* under way and what it will do next; Crash is enabled between any two of *)
(* its SQL statements.  An execution that awaits has left the frame and    *)
(* stands in `executing', which is also the runtime's `controllers' map.   *)
(*                                                                         *)
(* The clock is abstracted to the one thing it decides here: a job that    *)
(* failJob put back waits out its backoff before it is due.  A batch takes *)
(* any due jobs, not the oldest ones.  One worker polls and awaits every   *)
(* handler it started, so a lease is never taken over.  Jobs of other      *)
(* types, project deletion and the evidence a run saves are left out.      *)
(***************************************************************************)
EXTENDS Naturals, FiniteSets

CONSTANTS
    Runs,           \* rows of runs
    Jobs,           \* rows of jobs, type run.execute, by number
    NoRun, NoJob,   \* null values
    MaxAttempts,    \* jobs.max_attempts, 3 for run.execute
    Concurrency,    \* jobs a worker claims at once
    MaxCrashes      \* bound: daemon crashes in one behaviour

ASSUME ConstantsAssumption ==
    /\ NoRun \notin Runs
    /\ Jobs \subseteq Nat
    /\ NoJob \notin Jobs
    /\ MaxAttempts \in Nat \ {0}
    /\ Concurrency \in Nat \ {0}
    /\ MaxCrashes \in Nat

VARIABLES
    up,         \* the daemon is running
    crashes,    \* crashes so far
    runs,       \* runs.status
    jobs,       \* jobs: state, run_id, attempts
    frame,      \* the synchronous code under way (volatile)
    starting,   \* claimed jobs whose handler has yet to be called (volatile)
    executing,  \* executeRun calls at an await, with their AbortController (volatile)
    revoked     \* history: runs for which cancel was answered

vars == <<up, crashes, runs, jobs, frame, starting, executing, revoked>>

Finished == {"succeeded", "partial"}

\* Statuses from which cancel and the event stream take a run to be over.
Terminal == Finished \cup {"failed", "cancelled"}

Status == {"absent", "queued", "running"} \cup Terminal

\* "backoff" is a queued job whose available_at lies ahead.
Active == {"queued", "backoff", "leased"}

JobState == {"none"} \cup Active \cup {"succeeded", "dead_letter", "cancelled"}

Pc == {"idle", "enqueue", "cancel", "returned", "complete", "fail",
       "recover_runs", "recover_jobs", "resume"}

Job == [state: JobState, run: Runs \cup {NoRun}, attempts: Nat]
Frame == [pc: Pc, run: Runs \cup {NoRun}, job: Jobs \cup {NoJob}]
\* "plan": executePlan; "artifacts": an audit's saveReportArtifacts.
Execution == [run: Runs, job: Jobs, stage: {"plan", "artifacts"}, aborted: BOOLEAN]

NoFrame == [pc |-> "idle", run |-> NoRun, job |-> NoJob]

NoRow == [state |-> "none", run |-> NoRun, attempts |-> 0]

Init ==
    /\ up = TRUE
    /\ crashes = 0
    /\ runs = [r \in Runs |-> "absent"]
    /\ jobs = [j \in Jobs |-> NoRow]
    /\ frame = NoFrame
    /\ starting = {}
    /\ executing = {}
    /\ revoked = {}

\* The event loop is between two turns: a request, a timer or a reply may run.
LoopFree == up /\ frame.pc = "idle" /\ starting = {}

At(pc) == up /\ frame.pc = pc

ActiveJobs(r) == {j \in Jobs : jobs[j].run = r /\ jobs[j].state \in Active}

SetState(j, state) == jobs' = [jobs EXCEPT ![j].state = state]

\* Only a job still leased is settled; one cancelled meanwhile is left as it is.
Settle(j, state) ==
    jobs' = [k \in Jobs |-> IF k = j /\ jobs[k].state = "leased"
                            THEN [jobs[k] EXCEPT !.state = state]
                            ELSE jobs[k]]

\* A job's id is random; the model numbers the rows as they are inserted.
Enqueue(r) ==
    \E j \in Jobs :
        /\ jobs[j].state = "none"
        /\ \A i \in Jobs : jobs[i].state = "none" => j <= i
        /\ jobs' = [jobs EXCEPT ![j] = [state |-> "queued", run |-> r, attempts |-> 0]]

-----------------------------------------------------------------------------
(* Requests: start or replay a run, cancel one.                            *)

\* runs.start and runs.replay under a fresh key: the row, then its job.  A key
\* used before returns the existing run and writes nothing.
Start(r) ==
    /\ LoopFree
    /\ runs[r] = "absent"
    /\ runs' = [runs EXCEPT ![r] = "queued"]
    /\ frame' = [NoFrame EXCEPT !.pc = "enqueue", !.run = r]
    /\ UNCHANGED <<up, crashes, jobs, starting, executing, revoked>>

EnqueueJob ==
    /\ At("enqueue")
    /\ Enqueue(frame.run)
    /\ frame' = NoFrame
    /\ UNCHANGED <<up, crashes, runs, starting, executing, revoked>>

\* Mutant: cancel does not look at the run's status.
CancelAnyStatus(r) ==
    /\ LoopFree
    /\ runs[r] # "absent"
    /\ executing' = {IF e.run = r THEN [e EXCEPT !.aborted = TRUE] ELSE e :
                        e \in executing}
    /\ jobs' = [j \in Jobs |-> IF j \in ActiveJobs(r)
                               THEN [jobs[j] EXCEPT !.state = "cancelled"]
                               ELSE jobs[j]]
    /\ frame' = [NoFrame EXCEPT !.pc = "cancel", !.run = r]
    /\ UNCHANGED <<up, crashes, runs, starting, revoked>>

\* runs.cancel: abort the execution and cancel the job; then the run's row.
Cancel(r) ==
    /\ LoopFree
    /\ runs[r] \in {"queued", "running"}
    /\ executing' = {IF e.run = r THEN [e EXCEPT !.aborted = TRUE] ELSE e :
                        e \in executing}
    /\ jobs' = [j \in Jobs |-> IF j \in ActiveJobs(r)
                               THEN [jobs[j] EXCEPT !.state = "cancelled"]
                               ELSE jobs[j]]
    /\ frame' = [NoFrame EXCEPT !.pc = "cancel", !.run = r]
    /\ UNCHANGED <<up, crashes, runs, starting, revoked>>

CancelRun ==
    /\ At("cancel")
    /\ runs' = [runs EXCEPT ![frame.run] = "cancelled"]
    /\ revoked' = revoked \cup {frame.run}
    /\ frame' = NoFrame
    /\ UNCHANGED <<up, crashes, jobs, starting, executing>>

-----------------------------------------------------------------------------
(* The job worker.                                                         *)

\* runOnce claims a batch once every handler of the last one has returned.
WorkerPoll ==
    /\ LoopFree
    /\ executing = {}
    /\ \E S \in SUBSET {j \in Jobs : jobs[j].state = "queued"} :
          /\ S # {}
          /\ Cardinality(S) <= Concurrency
          /\ jobs' = [j \in Jobs |->
                        IF j \in S
                        THEN [jobs[j] EXCEPT !.state = "leased",
                                             !.attempts = jobs[j].attempts + 1]
                        ELSE jobs[j]]
          /\ starting' = S
    /\ UNCHANGED <<up, crashes, runs, frame, executing, revoked>>

\* The run.execute handler and executeRun up to its first await.  Whatever the
\* run's status was, it is now running: a finished one too, when its job comes back
\* after a crash.  The early returns for a cancelled run and for one already
\* executing are not modelled: ClaimedRunIsStartable shows them unreachable.
BeginExecution(j) ==
    LET r == jobs[j].run IN
    /\ At("idle")
    /\ j \in starting
    /\ runs[r] # "cancelled"
    /\ \A e \in executing : e.run # r
    /\ runs' = [runs EXCEPT ![r] = "running"]
    /\ executing' = executing \cup {[run |-> r, job |-> j, stage |-> "plan",
                                     aborted |-> FALSE]}
    /\ starting' = starting \ {j}
    /\ UNCHANGED <<up, crashes, jobs, frame, revoked>>

\* The execution is over: executeRun returns to the job's handler.
Returns(e) ==
    /\ executing' = executing \ {e}
    /\ frame' = [pc |-> "returned", run |-> e.run, job |-> e.job]
    /\ UNCHANGED <<up, crashes, jobs, starting, revoked>>

\* The abort was seen before anything was saved: the status is left alone.
AbortSeen(e) ==
    /\ LoopFree
    /\ e \in executing
    /\ e.aborted
    /\ UNCHANGED runs
    /\ Returns(e)

\* Mutant: the signal is not asked once the plan has ended.
ExecutionEndsUnasked(e, status) ==
    /\ LoopFree
    /\ e \in executing
    /\ \/ status = "failed"
       \/ status \in Finished /\ e.stage = "plan"
    /\ runs' = [runs EXCEPT ![e.run] = status]
    /\ Returns(e)

\* The plan or the saving of an audit's artifacts fails, or a research workflow
\* ends after its plan: the run's status is written in the same turn.
ExecutionEnds(e, status) ==
    /\ LoopFree
    /\ e \in executing
    /\ ~ e.aborted
    /\ \/ status = "failed"
       \/ status \in Finished /\ e.stage = "plan"
    /\ runs' = [runs EXCEPT ![e.run] = status]
    /\ Returns(e)

\* An audit's plan succeeded and nothing was aborted: the evidence is saved and
\* saveReportArtifacts awaited.
SaveArtifacts(e) ==
    /\ LoopFree
    /\ e \in executing
    /\ e.stage = "plan"
    /\ ~ e.aborted
    /\ executing' = (executing \ {e}) \cup {[e EXCEPT !.stage = "artifacts"]}
    /\ UNCHANGED <<up, crashes, runs, jobs, frame, starting, revoked>>

\* The artifacts are saved: the audit's own assessment becomes the status, and
\* neither the signal nor the run's row is asked again.
AuditEnds(e, status) ==
    /\ LoopFree
    /\ e \in executing
    /\ e.stage = "artifacts"
    /\ runs' = [runs EXCEPT ![e.run] = status]
    /\ Returns(e)

\* Mutant: a failed run is requeued on its last attempt too.
RetryOnceMore ==
    /\ At("returned")
    /\ runs[frame.run] = "failed"
    /\ jobs[frame.job].attempts <= MaxAttempts
    /\ runs' = [runs EXCEPT ![frame.run] = "queued"]
    /\ frame' = [frame EXCEPT !.pc = "fail"]
    /\ UNCHANGED <<up, crashes, jobs, starting, executing, revoked>>

\* The handler finds the run failed with attempts left: it requeues the run.
RetryRun ==
    /\ At("returned")
    /\ runs[frame.run] = "failed"
    /\ jobs[frame.job].attempts < MaxAttempts
    /\ runs' = [runs EXCEPT ![frame.run] = "queued"]
    /\ frame' = [frame EXCEPT !.pc = "fail"]
    /\ UNCHANGED <<up, crashes, jobs, starting, executing, revoked>>

\* With no attempt left it throws all the same; otherwise it just returns.
HandlerEnds ==
    /\ At("returned")
    /\ \/ /\ runs[frame.run] = "failed"
          /\ jobs[frame.job].attempts >= MaxAttempts
          /\ frame' = [frame EXCEPT !.pc = "fail"]
       \/ /\ runs[frame.run] # "failed"
          /\ frame' = [frame EXCEPT !.pc = "complete"]
    /\ UNCHANGED <<up, crashes, runs, jobs, starting, executing, revoked>>

CompleteJob ==
    /\ At("complete")
    /\ Settle(frame.job, "succeeded")
    /\ frame' = NoFrame
    /\ UNCHANGED <<up, crashes, runs, starting, executing, revoked>>

\* Mutant: the worker never gives a job up.
FailJobForever ==
    /\ At("fail")
    /\ Settle(frame.job, "backoff")
    /\ frame' = NoFrame
    /\ UNCHANGED <<up, crashes, runs, starting, executing, revoked>>

\* failJob: back to the queue after a delay, or dead-lettered.
FailJob ==
    /\ At("fail")
    /\ Settle(frame.job, IF jobs[frame.job].attempts >= MaxAttempts
                         THEN "dead_letter" ELSE "backoff")
    /\ frame' = NoFrame
    /\ UNCHANGED <<up, crashes, runs, starting, executing, revoked>>

-----------------------------------------------------------------------------
(* Time, crashes and recovery.                                             *)

BackoffEnds(j) ==
    /\ LoopFree \/ ~ up
    /\ jobs[j].state = "backoff"
    /\ SetState(j, "queued")
    /\ UNCHANGED <<up, crashes, runs, frame, starting, executing, revoked>>

Crash ==
    /\ up
    /\ crashes < MaxCrashes
    /\ crashes' = crashes + 1
    /\ up' = FALSE
    /\ frame' = NoFrame
    /\ starting' = {}
    /\ executing' = {}
    /\ UNCHANGED <<runs, jobs, revoked>>

\* The constructor: recoverInterruptedRuns, two statements, then resumeQueuedRuns.
Restart ==
    /\ ~ up
    /\ up' = TRUE
    /\ frame' = [NoFrame EXCEPT !.pc = "recover_runs"]
    /\ UNCHANGED <<crashes, runs, jobs, starting, executing, revoked>>

\* Mutant: recovery leaves the interrupted runs as they are.
RecoverNoRuns ==
    /\ At("recover_runs")
    /\ frame' = [NoFrame EXCEPT !.pc = "recover_jobs"]
    /\ UNCHANGED <<up, crashes, runs, jobs, starting, executing, revoked>>

RecoverRuns ==
    /\ At("recover_runs")
    /\ runs' = [r \in Runs |-> IF runs[r] = "running" THEN "queued" ELSE runs[r]]
    /\ frame' = [NoFrame EXCEPT !.pc = "recover_jobs"]
    /\ UNCHANGED <<up, crashes, jobs, starting, executing, revoked>>

\* Mutant: recovery forgets the leased jobs.
RecoverNoJobs ==
    /\ At("recover_jobs")
    /\ frame' = [NoFrame EXCEPT !.pc = "resume"]
    /\ UNCHANGED <<up, crashes, runs, jobs, starting, executing, revoked>>

\* Every leased job is queued again, however many attempts it has had.
RecoverJobs ==
    /\ At("recover_jobs")
    /\ jobs' = [j \in Jobs |-> IF jobs[j].state = "leased"
                               THEN [jobs[j] EXCEPT !.state = "queued"]
                               ELSE jobs[j]]
    /\ frame' = [NoFrame EXCEPT !.pc = "resume"]
    /\ UNCHANGED <<up, crashes, runs, starting, executing, revoked>>

\* Mutant: no run is resumed.
NoneJobless == {}

\* Mutant: every queued run is taken to have lost its job.
EveryQueuedRun == {r \in Runs : runs[r] = "queued"}

\* Queued runs that no job would execute.
Jobless == {r \in Runs : runs[r] = "queued" /\ ActiveJobs(r) = {}}

ResumeRun(r) ==
    /\ At("resume")
    /\ r \in Jobless
    /\ Enqueue(r)
    /\ UNCHANGED <<up, crashes, runs, frame, starting, executing, revoked>>

\* The worker and the scheduler start.
Ready ==
    /\ At("resume")
    /\ Jobless = {}
    /\ frame' = NoFrame
    /\ UNCHANGED <<up, crashes, runs, jobs, starting, executing, revoked>>

-----------------------------------------------------------------------------

Request == \E r \in Runs : Start(r) \/ Cancel(r)

Synchronous ==
    \/ EnqueueJob \/ CancelRun
    \/ \E j \in Jobs : BeginExecution(j)
    \/ RetryRun \/ HandlerEnds \/ CompleteJob \/ FailJob
    \/ RecoverRuns \/ RecoverJobs \/ Ready
    \/ \E r \in Runs : ResumeRun(r)

\* An await of the execution ends.
Progress(e) ==
    \/ AbortSeen(e)
    \/ SaveArtifacts(e)
    \/ \E status \in Finished \cup {"failed"} :
          ExecutionEnds(e, status) \/ AuditEnds(e, status)

Next ==
    \/ Request
    \/ Synchronous
    \/ WorkerPoll
    \/ \E e \in executing : Progress(e)
    \/ \E j \in Jobs : BackoffEnds(j)
    \/ Crash
    \/ Restart

(***************************************************************************)
(* Fairness.  Synchronous code runs on unless the process dies.  Timers    *)
(* and replies share the event loop with any number of requests, and libuv *)
(* serves each phase in every turn: strong fairness of the poll, of an     *)
(* await's end and of a backoff.  A job is claimed in its turn because     *)
(* claimJobs takes the oldest available_at first.  That an engine call     *)
(* ends is assumed of its timeouts; that a dead daemon is started again,   *)
(* of its supervisor.                                                      *)
(***************************************************************************)
Fairness ==
    /\ WF_vars(Synchronous)
    /\ \A j \in Jobs : SF_vars(WorkerPoll /\ j \in starting')
    /\ \A r \in Runs : SF_vars(\E e \in executing : e.run = r /\ Progress(e))
    /\ \A j \in Jobs : SF_vars(BackoffEnds(j))
    /\ WF_vars(Restart)

Spec == Init /\ [][Next]_vars
FairSpec == Spec /\ Fairness

-----------------------------------------------------------------------------
(* Properties.                                                             *)

\* Every variable holds a row, a frame or an execution of the declared shape.
TypeOK ==
    /\ up \in BOOLEAN
    /\ crashes \in 0 .. MaxCrashes
    /\ runs \in [Runs -> Status]
    /\ jobs \in [Jobs -> Job]
    /\ frame \in Frame
    /\ starting \in SUBSET Jobs
    /\ executing \in SUBSET Execution
    /\ revoked \in SUBSET Runs

\* Start, retry, recovery and resumption between them never leave a run with two
\* jobs to execute it: its evidence is never written by two executions.
OneActiveJob ==
    \A r \in Runs, i, j \in Jobs :
        i \in ActiveJobs(r) /\ j \in ActiveJobs(r) => i = j

\* A run the dashboard shows as running is being executed: no crash, abort or
\* failure leaves one running with nobody to finish it.
RunningIsExecuted ==
    \A r \in Runs :
        (LoopFree /\ runs[r] = "running") => \E e \in executing : e.run = r

\* A queued run has a job that will execute it, unless somebody cancelled it.
QueuedHasJob ==
    \A r \in Runs :
        (LoopFree /\ runs[r] = "queued" /\ r \notin revoked) => ActiveJobs(r) # {}

\* A job given up leaves its run failed, never queued for a retry that no job
\* will make; a job done leaves it over.
SettledJobSettlesRun ==
    \A j \in Jobs :
        /\ jobs[j].state = "dead_letter" => runs[jobs[j].run] = "failed"
        /\ jobs[j].state = "succeeded" =>
              runs[jobs[j].run] \in Finished \cup {"cancelled"}

\* Only a crash buys a job an attempt beyond its maximum, one for each crash.
AttemptsBounded == \A j \in Jobs : jobs[j].attempts <= MaxAttempts + crashes

\* Without a crash a finished run is never touched again: not by a late cancel, a
\* second job or a retry.
FinishedStaysWithoutCrash ==
    [][\A r \in Runs :
          (runs[r] \in Finished /\ runs'[r] # runs[r]) => crashes > 0]_vars

\* A cancelled run stays cancelled, and a late status overwrites it in one case only:
\* its audit was past the last look at the signal, saving its report files.
CancelLostOnlyToReport ==
    [][\A r \in Runs :
          (runs[r] = "cancelled" /\ runs'[r] # "cancelled") =>
              \E e \in executing :
                  e.run = r /\ e.aborted /\ e.stage = "artifacts"]_vars

\* A run nobody cancels comes to an end, through retries, backoff and restarts.
QueuedRunEnds ==
    \A r \in Runs :
        (runs[r] = "queued" /\ r \notin revoked) ~> runs[r] \in Terminal

-----------------------------------------------------------------------------
(* The inductive invariant behind them.                                    *)

\* Between a crash and the start of the worker.
Recovering == ~ up \/ frame.pc \in {"recover_runs", "recover_jobs", "resume"}

OnRun == frame.pc \in {"enqueue", "cancel", "returned", "complete", "fail"}

OnJob == frame.pc \in {"returned", "complete", "fail"}

\* A down or recovering daemon executes nothing, and a frame names its run and job.
FrameFits ==
    /\ ~ up => frame.pc = "idle"
    /\ Recovering => starting = {} /\ executing = {}
    /\ frame.pc # "idle" => starting = {}
    /\ OnRun => frame.run \in Runs
    /\ OnJob => frame.job \in Jobs /\ jobs[frame.job].run = frame.run
    /\ frame.pc = "enqueue" => runs[frame.run] = "queued" /\ ActiveJobs(frame.run) = {}
    /\ frame.pc = "cancel" =>
          runs[frame.run] \in {"queued", "running"} /\ ActiveJobs(frame.run) = {}

\* A row of jobs belongs to a run that was started, and an active one to a run
\* that is not cancelled.
JobsNameRuns ==
    \A j \in Jobs :
        /\ jobs[j].state = "none" => jobs[j].attempts = 0
        /\ jobs[j].state # "none" => jobs[j].run \in Runs /\ runs[jobs[j].run] # "absent"
        /\ jobs[j].state \in Active => runs[jobs[j].run] # "cancelled"

\* What BeginExecution takes for granted of a claimed job.
ClaimedRunIsStartable ==
    \A j \in starting :
        /\ jobs[j].state = "leased"
        /\ \A e \in executing : e.run # jobs[j].run

\* An execution owns its run and its job until it is aborted.
ExecutionOwnsRun ==
    /\ \A e \in executing :
          /\ jobs[e.job].run = e.run
          /\ ~ e.aborted => jobs[e.job].state = "leased" /\ runs[e.run] = "running"
          /\ e.aborted =>
                /\ jobs[e.job].state = "cancelled"
                /\ \/ runs[e.run] = "cancelled" /\ e.run \in revoked
                   \/ frame.pc = "cancel" /\ frame.run = e.run
          /\ OnJob \/ frame.pc = "enqueue" => frame.run # e.run
    /\ \A e, f \in executing : e.run = f.run => e = f

\* So does a handler that is returning.
HandlerOwnsRun ==
    OnJob =>
        LET job == jobs[frame.job] IN
        /\ job.state \in {"leased", "cancelled"}
        /\ job.state = "cancelled" => frame.run \in revoked
        /\ frame.pc = "returned" => runs[frame.run] \in Terminal
        /\ frame.pc = "complete" => runs[frame.run] \in Finished \cup {"cancelled"}
        /\ frame.pc = "fail" =>
              runs[frame.run] = IF job.attempts >= MaxAttempts THEN "failed" ELSE "queued"

\* RunningIsExecuted and QueuedHasJob between the statements of a call.
RunIsInHand ==
    \A r \in Runs :
        ~ Recovering /\ ~ (frame.pc \in {"enqueue", "cancel"} /\ frame.run = r) =>
            /\ runs[r] = "running" => \E e \in executing : e.run = r
            /\ runs[r] = "queued" /\ r \notin revoked => ActiveJobs(r) # {}

\* Nothing more happens to a run whose job was settled.
SettledIsQuiet ==
    \A j \in Jobs :
        jobs[j].state \in {"succeeded", "dead_letter"} =>
            /\ ActiveJobs(jobs[j].run) = {}
            /\ \A e \in executing : e.run # jobs[j].run
            /\ OnRun => frame.run # jobs[j].run

\* A job not yet claimed again has an attempt left, or a crash that pays for one.
AttemptsLeft ==
    \A j \in Jobs :
        \/ jobs[j].state \in {"queued", "backoff"}
        \/ jobs[j].state = "leased" /\ Recovering
        => jobs[j].attempts < MaxAttempts + crashes

\* Without a crash only its own handler finds a run over before the job is settled.
ActiveRunUnfinished ==
    crashes = 0 =>
        \A j \in Jobs :
            jobs[j].state \in Active /\ ~ (OnJob /\ frame.job = j) =>
                runs[jobs[j].run] \in {"queued", "running"}

\* What the statements of recovery have done so far.
RecoveredSoFar ==
    /\ frame.pc \in {"recover_jobs", "resume"} => \A r \in Runs : runs[r] # "running"
    /\ frame.pc = "resume" => \A j \in Jobs : jobs[j].state # "leased"

\* Holds throughout: each run, job, execution and frame agrees with the others on
\* who has the run in hand.
IndInv ==
    /\ TypeOK
    /\ FrameFits
    /\ JobsNameRuns
    /\ ClaimedRunIsStartable
    /\ ExecutionOwnsRun
    /\ HandlerOwnsRun
    /\ RunIsInHand
    /\ RecoveredSoFar
    /\ SettledIsQuiet
    /\ AttemptsLeft
    /\ ActiveRunUnfinished
    /\ OneActiveJob
    /\ SettledJobSettlesRun
    /\ AttemptsBounded

-----------------------------------------------------------------------------
(* Properties that no run lists: RuntimeRunsProofs proves them.            *)

\* Once the worker polls, every leased job is somebody's: its handler is about to be
\* called, awaits its execution or is returning.  No run's end leaves a lease behind.
LeasedIsInHand ==
    ~ Recovering =>
        \A j \in Jobs :
            jobs[j].state = "leased" =>
                \/ j \in starting
                \/ \E e \in executing : e.job = j
                \/ OnJob /\ frame.job = j

\* Jobs ever enqueued for a run.
RowsOf(r) == {j \in Jobs : jobs[j].state # "none" /\ jobs[j].run = r}

\* A run is enqueued once when it is started, and again only by a recovery that finds it
\* without a job: at most once for each crash, whatever cancels and retries there were.
EnqueuedOncePerCrash ==
    \A r \in Runs : Cardinality(RowsOf(r)) <= 1 + crashes
=============================================================================
