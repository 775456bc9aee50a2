--------------------------- MODULE RuntimeRunsProofs ---------------------------
(***************************************************************************)
(* Proofs about RuntimeRuns, for every set of runs and jobs, every maximum *)
(* of attempts, every batch size and number of crashes.                    *)
(***************************************************************************)
EXTENDS RuntimeRuns, FiniteSetTheorems, TLAPS

-----------------------------------------------------------------------------
(* Rows, frames and executions, so that the steps need not look inside.    *)

LEMMA JobRow ==
  ASSUME NEW row \in Job
  PROVE  /\ row.state \in JobState /\ row.run \in Runs \cup {NoRun} /\ row.attempts \in Nat
         /\ \A s \in JobState :
              LET new == [row EXCEPT !.state = s] IN
              /\ new \in Job
              /\ new.state = s /\ new.run = row.run /\ new.attempts = row.attempts
  BY DEF Job

LEMMA NewJobRow ==
  ASSUME NEW r \in Runs
  PROVE  LET new == [state |-> "queued", run |-> r, attempts |-> 0] IN
         /\ new \in Job
         /\ new.state = "queued" /\ new.run = r /\ new.attempts = 0
  BY DEF Job, JobState, Active

LEMMA ClaimedJobRow ==
  ASSUME NEW row \in Job
  PROVE  LET new == [row EXCEPT !.state = "leased", !.attempts = row.attempts + 1] IN
         /\ new \in Job
         /\ new.state = "leased" /\ new.run = row.run
         /\ new.attempts = row.attempts + 1 /\ row.attempts \in Nat
<1> DEFINE n == row.attempts + 1
<1>1. "leased" \in JobState
  BY DEF JobState, Active
<1>2. row.attempts \in Nat /\ n \in Nat
  BY DEF Job
<1> HIDE DEF n
<1>3. LET new == [row EXCEPT !.state = "leased", !.attempts = n] IN
      new \in Job /\ new.state = "leased" /\ new.run = row.run /\ new.attempts = n
  BY <1>1, <1>2 DEF Job
<1> QED BY <1>2, <1>3 DEF n

LEMMA FrameMoves ==
  ASSUME NEW f \in Frame, NEW pc \in Pc, NEW g, g = [f EXCEPT !.pc = pc]
  PROVE  g \in Frame /\ g.pc = pc /\ g.run = f.run /\ g.job = f.job
  BY DEF Frame

LEMMA NoFrameRow ==
  NoFrame \in Frame /\ NoFrame.pc = "idle" /\ NoFrame.run = NoRun /\ NoFrame.job = NoJob
  BY DEF NoFrame, Frame, Pc

LEMMA ExecutionRow ==
  ASSUME NEW e \in Execution
  PROVE  /\ e.run \in Runs /\ e.job \in Jobs /\ e.aborted \in BOOLEAN
         /\ LET new == [e EXCEPT !.aborted = TRUE] IN
            /\ new \in Execution
            /\ new.run = e.run /\ new.job = e.job /\ new.aborted
         /\ LET new == [e EXCEPT !.stage = "artifacts"] IN
            /\ new \in Execution
            /\ new.run = e.run /\ new.job = e.job /\ new.aborted = e.aborted
  BY DEF Execution

LEMMA NewExecutionRow ==
  ASSUME NEW r \in Runs, NEW j \in Jobs
  PROVE  LET new == [run |-> r, job |-> j, stage |-> "plan", aborted |-> FALSE] IN
         /\ new \in Execution
         /\ new.run = r /\ new.job = j /\ ~ new.aborted
  BY DEF Execution

-----------------------------------------------------------------------------
(* Each action keeps the invariant.                                        *)

LEMMA ActiveNone ==
  \A r : /\ ActiveJobs(r) = {} <=>
              \A j \in Jobs : ~ (jobs[j].run = r /\ jobs[j].state \in Active)
         /\ ActiveJobs(r)' = {} <=>
              \A j \in Jobs : ~ (jobs'[j].run = r /\ jobs'[j].state \in Active)
  BY DEF ActiveJobs

LEMMA StartKeeps ==
  ASSUME IndInv, NEW r \in Runs, Start(r)
  PROVE  IndInv'
<1>1. /\ up /\ frame.pc = "idle" /\ starting = {} /\ runs[r] = "absent"
      /\ UNCHANGED <<up, crashes, jobs, starting, executing, revoked>>
  BY DEF Start, LoopFree
<1>2. /\ frame' \in Frame /\ frame'.pc = "enqueue" /\ frame'.run = r
  BY DEF Start, NoFrame, Frame, Pc
<1>3. /\ runs' \in [Runs -> Status]
      /\ \A x \in Runs : runs'[x] = IF x = r THEN "queued" ELSE runs[x]
  BY DEF Start, IndInv, TypeOK, Status
<1>4. /\ \A j \in Jobs : jobs[j].state # "none" => jobs[j].run \in Runs /\ jobs[j].run # r
      /\ \A j \in Jobs : jobs[j].state \in Active => jobs[j].state # "none"
      /\ \A e \in executing : e \in Execution /\ e.run # r
  BY <1>1 DEF IndInv, TypeOK, JobsNameRuns, ExecutionOwnsRun, Active
<1> HIDE DEF NoFrame
<1>type. TypeOK'
  BY <1>1, <1>2, <1>3 DEF IndInv, TypeOK
<1>frame. FrameFits'
  BY <1>1, <1>2, <1>3, <1>4, ActiveNone DEF IndInv, FrameFits, Recovering, OnRun, OnJob
<1>names. JobsNameRuns'
  BY <1>1, <1>2, <1>3, <1>4 DEF IndInv, JobsNameRuns, Active
<1>claimed. ClaimedRunIsStartable'
  BY <1>1 DEF ClaimedRunIsStartable
<1>owns. ExecutionOwnsRun'
  <2>1. ASSUME NEW e \in executing
        PROVE  /\ runs'[e.run] = runs[e.run]
               /\ e.run # r /\ e.run \in Runs
    BY <1>3, <1>4, ExecutionRow
  <2> QED BY <1>1, <1>2, <2>1 DEF IndInv, ExecutionOwnsRun, OnJob
<1>handler. HandlerOwnsRun'
  BY <1>1, <1>2 DEF HandlerOwnsRun, OnJob
<1>hand. RunIsInHand'
  BY <1>1, <1>2, <1>3, <1>4, ActiveNone DEF IndInv, RunIsInHand, Recovering
<1>rec. RecoveredSoFar'
  BY <1>1, <1>2 DEF RecoveredSoFar
<1>quiet. SettledIsQuiet'
  BY <1>1, <1>2, <1>3, <1>4, ActiveNone DEF IndInv, SettledIsQuiet, OnRun, SettledJobSettlesRun
<1>left. AttemptsLeft'
  BY <1>1, <1>2 DEF IndInv, AttemptsLeft, Recovering
<1>unf. ActiveRunUnfinished'
  BY <1>1, <1>2, <1>3, <1>4 DEF IndInv, ActiveRunUnfinished, OnJob
<1>one. OneActiveJob'
  BY <1>1 DEF IndInv, OneActiveJob, ActiveJobs
<1>set. SettledJobSettlesRun'
  BY <1>1, <1>3, <1>4 DEF IndInv, SettledJobSettlesRun
<1>bound. AttemptsBounded'
  BY <1>1 DEF IndInv, AttemptsBounded
<1> QED
  BY <1>type, <1>frame, <1>names, <1>claimed, <1>owns, <1>handler, <1>hand, <1>rec, <1>quiet,
     <1>left, <1>unf, <1>one, <1>set, <1>bound DEF IndInv

\* A fresh job for a queued run that has none, from start or from recovery.
LEMMA EnqueueKeeps ==
  ASSUME IndInv, NEW r \in Runs, runs[r] = "queued", ActiveJobs(r) = {},
         Enqueue(r), UNCHANGED <<up, crashes, runs, starting, executing, revoked>>,
         \/ frame.pc = "enqueue" /\ frame.run = r /\ frame' = NoFrame
         \/ frame.pc = "resume" /\ frame' = frame
  PROVE  IndInv'
<1>1. PICK j \in Jobs :
        /\ jobs[j].state = "none"
        /\ jobs' = [jobs EXCEPT ![j] = [state |-> "queued", run |-> r, attempts |-> 0]]
  BY DEF Enqueue
<1>2. /\ jobs' \in [Jobs -> Job]
      /\ jobs'[j].state = "queued" /\ jobs'[j].run = r /\ jobs'[j].attempts = 0
      /\ \A k \in Jobs \ {j} : jobs'[k] = jobs[k]
  BY <1>1, NewJobRow DEF IndInv, TypeOK
<1>3. /\ frame' \in Frame
      /\ (frame'.pc = "idle" \/ (frame'.pc = "resume" /\ frame.pc = "resume"))
      /\ up /\ starting = {}
  <2>1. frame' \in Frame /\ up /\ starting = {}
    BY NoFrameRow DEF IndInv, TypeOK, FrameFits
  <2>2. CASE frame.pc = "enqueue" /\ frame' = NoFrame
    BY <2>1, <2>2, NoFrameRow
  <2>3. CASE frame.pc = "resume" /\ frame' = frame
    BY <2>1, <2>3
  <2> QED BY <2>2, <2>3
<1>8. Recovering' <=> Recovering
  <2>1. CASE frame.pc = "enqueue" /\ frame' = NoFrame
    <3>1. ~ Recovering /\ ~ Recovering'
      BY <1>3, <2>1, NoFrameRow DEF Recovering
    <3> QED BY <3>1, Zenon
  <2>2. CASE frame.pc = "resume" /\ frame' = frame
    <3>1. Recovering /\ Recovering'
      BY <1>3, <2>2 DEF Recovering
    <3> QED BY <3>1, Zenon
  <2> QED BY <2>1, <2>2
<1>4. \A e \in executing : e.run \in Runs /\ e.job \in Jobs /\ e.run # r /\ e.job # j
  BY <1>1, ExecutionRow DEF IndInv, TypeOK, FrameFits, Recovering, ExecutionOwnsRun
<1>5. /\ \A k \in Jobs : jobs[k].run = r => jobs[k].state \notin Active
      /\ \A k \in Jobs : jobs[k].state \in {"succeeded", "dead_letter"} => jobs[k].run # r
      /\ "none" \notin Active /\ "succeeded" \notin Active /\ "dead_letter" \notin Active
      /\ "queued" \in Active
  BY ActiveNone DEF IndInv, SettledJobSettlesRun, Finished, Active
<1>6. ASSUME NEW x \in Runs \ {r}
      PROVE  ActiveJobs(x)' = {} <=> ActiveJobs(x) = {}
  BY <1>1, <1>2, <1>5, ActiveNone
<1>7. ActiveJobs(r)' # {}
  BY <1>2, <1>5, ActiveNone
<1>type. TypeOK'
  BY <1>2, <1>3 DEF IndInv, TypeOK
<1>frame. FrameFits'
  BY <1>3 DEF IndInv, FrameFits, Recovering, OnRun, OnJob
<1>names. JobsNameRuns'
  BY <1>2 DEF IndInv, JobsNameRuns
<1>owns. ClaimedRunIsStartable' /\ ExecutionOwnsRun'
  BY <1>2, <1>3, <1>4 DEF IndInv, ClaimedRunIsStartable, ExecutionOwnsRun, OnJob
<1>handler. HandlerOwnsRun' /\ RecoveredSoFar'
  BY <1>2, <1>3 DEF IndInv, HandlerOwnsRun, RecoveredSoFar, OnJob
<1>hand. RunIsInHand'
  BY <1>3, <1>6, <1>7, <1>8 DEF IndInv, RunIsInHand
<1>quiet. SettledIsQuiet' /\ SettledJobSettlesRun'
  BY <1>2, <1>3, <1>5, <1>6 DEF IndInv, SettledIsQuiet, OnRun, SettledJobSettlesRun,
     JobsNameRuns
<1>left. AttemptsLeft' /\ AttemptsBounded'
  BY <1>2, <1>3, <1>8, ConstantsAssumption DEF IndInv, TypeOK, AttemptsLeft, AttemptsBounded
<1>active. ActiveRunUnfinished'
  BY <1>2, <1>3 DEF IndInv, ActiveRunUnfinished, OnJob
<1>one. OneActiveJob'
  BY <1>2, <1>5 DEF IndInv, OneActiveJob, ActiveJobs
<1> QED
  BY <1>type, <1>frame, <1>names, <1>owns, <1>handler, <1>hand, <1>quiet, <1>left,
     <1>active, <1>one DEF IndInv

LEMMA CancelKeeps ==
  ASSUME IndInv, NEW r \in Runs, Cancel(r)
  PROVE  IndInv'
<1>1. /\ up /\ frame.pc = "idle" /\ starting = {} /\ runs[r] \in {"queued", "running"}
      /\ UNCHANGED <<up, crashes, runs, starting, revoked>>
  BY DEF Cancel, LoopFree
<1>2. frame' \in Frame /\ frame'.pc = "cancel" /\ frame'.run = r
  BY DEF Cancel, NoFrame, Frame, Pc
<1>3. /\ jobs' \in [Jobs -> Job]
      /\ \A k \in Jobs :
            /\ jobs'[k].run = jobs[k].run /\ jobs'[k].attempts = jobs[k].attempts
            /\ jobs'[k].state = IF jobs[k].run = r /\ jobs[k].state \in Active
                                THEN "cancelled" ELSE jobs[k].state
  <2>1. \A k \in Jobs : jobs[k] \in Job /\ "cancelled" \in JobState
    BY DEF IndInv, TypeOK, JobState
  <2> QED BY <2>1, JobRow DEF Cancel, ActiveJobs
<1>4. /\ executing' \in SUBSET Execution
      /\ \A e \in executing' : \E f \in executing :
            /\ e.run = f.run /\ e.job = f.job
            /\ e.run = r => e.aborted
            /\ e.run # r => e = f
      /\ \A f \in executing : \E e \in executing' : e.run = f.run
      /\ \A e, f \in executing' : e.run = f.run => e = f
  <2> DEFINE seen(e) == IF e.run = r THEN [e EXCEPT !.aborted = TRUE] ELSE e
  <2>1. executing' = {seen(e) : e \in executing}
    BY DEF Cancel
  <2>2. \A e \in executing :
           /\ seen(e) \in Execution /\ seen(e).run = e.run /\ seen(e).job = e.job
           /\ e.run = r => seen(e).aborted
           /\ e.run # r => seen(e) = e
    BY ExecutionRow DEF IndInv, TypeOK
  <2>3. \A e, f \in executing : e.run = f.run => e = f
    BY DEF IndInv, ExecutionOwnsRun
  <2> HIDE DEF seen
  <2> QED BY <2>1, <2>2, <2>3
<1>5. \A x \in Runs \ {r} : ActiveJobs(x)' = {} <=> ActiveJobs(x) = {}
  BY <1>3, ActiveNone
<1>6. ActiveJobs(r)' = {} /\ "cancelled" \notin Active
  BY <1>3, ActiveNone DEF Active
<1>7. \A e \in executing : e.run \in Runs /\ e.job \in Jobs
  BY ExecutionRow DEF IndInv, TypeOK
<1>type. TypeOK'
  BY <1>1, <1>2, <1>3, <1>4 DEF IndInv, TypeOK
<1>frame. FrameFits'
  BY <1>1, <1>2, <1>6 DEF FrameFits, Recovering, OnRun, OnJob
<1>names. JobsNameRuns'
  BY <1>1, <1>3, <1>6 DEF IndInv, JobsNameRuns
<1>owns. ClaimedRunIsStartable' /\ ExecutionOwnsRun'
  BY <1>1, <1>2, <1>3, <1>4, <1>7
  DEF IndInv, ClaimedRunIsStartable, ExecutionOwnsRun, OnJob, Active
<1>handler. HandlerOwnsRun' /\ RecoveredSoFar'
  BY <1>2 DEF HandlerOwnsRun, RecoveredSoFar, OnJob
<1>hand. RunIsInHand'
  BY <1>1, <1>2, <1>4, <1>5 DEF IndInv, RunIsInHand, Recovering
<1>quiet. SettledIsQuiet' /\ SettledJobSettlesRun'
  <2>1. ASSUME NEW j \in Jobs, jobs'[j].state \in {"succeeded", "dead_letter"}
        PROVE  /\ jobs[j].state = jobs'[j].state
               /\ jobs'[j].run = jobs[j].run /\ jobs[j].run \in Runs \ {r}
    BY <1>1, <1>3, <2>1 DEF IndInv, SettledJobSettlesRun, JobsNameRuns, Finished
  <2> QED BY <1>1, <1>2, <1>4, <1>5, <2>1
      DEF IndInv, SettledIsQuiet, OnRun, SettledJobSettlesRun
<1>left. AttemptsLeft' /\ AttemptsBounded'
  BY <1>1, <1>2, <1>3, <1>6 DEF IndInv, AttemptsLeft, AttemptsBounded, Recovering
<1>active. ActiveRunUnfinished'
  BY <1>1, <1>2, <1>3, <1>6 DEF IndInv, ActiveRunUnfinished, OnJob
<1>one. OneActiveJob'
  BY <1>3, <1>6 DEF IndInv, OneActiveJob, ActiveJobs
<1> QED
  BY <1>type, <1>frame, <1>names, <1>owns, <1>handler, <1>hand, <1>quiet, <1>left,
     <1>active, <1>one DEF IndInv

LEMMA CancelRunKeeps ==
  ASSUME IndInv, CancelRun
  PROVE  IndInv'
<1> DEFINE r == frame.run
<1>1. /\ up /\ frame.pc = "cancel" /\ starting = {} /\ r \in Runs
      /\ runs[r] \in {"queued", "running"} /\ ActiveJobs(r) = {}
      /\ UNCHANGED <<up, crashes, jobs, starting, executing>>
  BY DEF CancelRun, At, IndInv, FrameFits, OnRun
<1>2. frame' = NoFrame /\ frame' \in Frame /\ frame'.pc = "idle"
  BY NoFrameRow DEF CancelRun
<1>3. /\ runs' \in [Runs -> Status]
      /\ \A x \in Runs : runs'[x] = IF x = r THEN "cancelled" ELSE runs[x]
      /\ revoked' = revoked \cup {r}
  BY <1>1 DEF CancelRun, IndInv, TypeOK, Status, Terminal
<1>4. /\ \A j \in Jobs : jobs[j].state \in Active => jobs[j].run # r
      /\ \A j \in Jobs : jobs[j].state \in {"succeeded", "dead_letter"} => jobs[j].run # r
      /\ \A j \in Jobs : jobs[j].state # "none" => jobs[j].run \in Runs
      /\ "none" \notin Active
  BY <1>1, ActiveNone DEF IndInv, JobsNameRuns, SettledJobSettlesRun, Finished, Active
<1>5. \A e \in executing : e.run \in Runs /\ e.job \in Jobs /\ e.aborted \in BOOLEAN
  BY ExecutionRow DEF IndInv, TypeOK
<1> HIDE DEF r
<1>type. TypeOK'
  BY <1>1, <1>2, <1>3 DEF IndInv, TypeOK
<1>frame. FrameFits'
  BY <1>1, <1>2 DEF FrameFits, Recovering, OnRun, OnJob
<1>names. JobsNameRuns'
  BY <1>1, <1>3, <1>4 DEF IndInv, JobsNameRuns
<1>owns. ClaimedRunIsStartable' /\ ExecutionOwnsRun'
  <2>1. ASSUME NEW e \in executing, e.run = r
        PROVE  e.aborted
    BY <1>1, <1>4, <1>5, <2>1 DEF IndInv, ExecutionOwnsRun, Active
  <2>2. ASSUME NEW e \in executing
        PROVE  /\ ~ e.aborted => runs'[e.run] = runs[e.run]
               /\ e.aborted => runs'[e.run] = "cancelled" /\ e.run \in revoked'
    BY <1>1, <1>3, <1>5, <2>1, <2>2 DEF IndInv, ExecutionOwnsRun, r
  <2> QED BY <1>1, <1>2, <1>5, <2>2
      DEF IndInv, ClaimedRunIsStartable, ExecutionOwnsRun, OnJob
<1>handler. HandlerOwnsRun' /\ RecoveredSoFar'
  BY <1>2 DEF HandlerOwnsRun, RecoveredSoFar, OnJob
<1>hand. RunIsInHand'
  <2>1. \A x : ActiveJobs(x)' = ActiveJobs(x)
    BY <1>1 DEF ActiveJobs
  <2> QED BY <1>1, <1>2, <1>3, <2>1 DEF IndInv, RunIsInHand, Recovering, r
<1>quiet. SettledIsQuiet' /\ SettledJobSettlesRun'
  BY <1>1, <1>2, <1>3, <1>4, ActiveNone
  DEF IndInv, SettledIsQuiet, OnRun, SettledJobSettlesRun
<1>left. AttemptsLeft' /\ AttemptsBounded'
  BY <1>1, <1>2 DEF IndInv, AttemptsLeft, AttemptsBounded, Recovering
<1>active. ActiveRunUnfinished'
  BY <1>1, <1>2, <1>3, <1>4 DEF IndInv, ActiveRunUnfinished, OnJob
<1>one. OneActiveJob'
  BY <1>1 DEF IndInv, OneActiveJob, ActiveJobs
<1> QED
  BY <1>type, <1>frame, <1>names, <1>owns, <1>handler, <1>hand, <1>quiet, <1>left,
     <1>active, <1>one DEF IndInv

LEMMA WorkerPollKeeps ==
  ASSUME IndInv, WorkerPoll
  PROVE  IndInv'
<1>1. /\ up /\ frame.pc = "idle" /\ starting = {} /\ executing = {}
      /\ UNCHANGED <<up, crashes, runs, frame, executing, revoked>>
  BY DEF WorkerPoll, LoopFree
<1>2. PICK S \in SUBSET {j \in Jobs : jobs[j].state = "queued"} :
        /\ starting' = S
        /\ jobs' = [j \in Jobs |->
                      IF j \in S
                      THEN [jobs[j] EXCEPT !.state = "leased",
                                           !.attempts = jobs[j].attempts + 1]
                      ELSE jobs[j]]
  BY DEF WorkerPoll
<1>3. /\ jobs' \in [Jobs -> Job]
      /\ \A j \in S : /\ jobs'[j].run = jobs[j].run /\ jobs'[j].state = "leased"
                      /\ jobs'[j].attempts = jobs[j].attempts + 1
                      /\ jobs[j].attempts \in Nat
      /\ \A j \in Jobs \ S : jobs'[j] = jobs[j]
  <2>1. \A j \in Jobs : jobs[j] \in Job
    BY DEF IndInv, TypeOK
  <2> QED BY <1>2, <2>1, ClaimedJobRow
<1>4. \A j \in S : j \in Jobs /\ jobs[j].state = "queued"
  BY <1>2
<1>5. /\ "queued" \in Active /\ "leased" \in Active
      /\ \A x \in Runs : ActiveJobs(x)' = {} <=> ActiveJobs(x) = {}
  <2>1. "queued" \in Active /\ "leased" \in Active
    BY DEF Active
  <2> QED BY <1>3, <1>4, <2>1, ActiveNone
<1>type. TypeOK'
  BY <1>1, <1>2, <1>3, <1>4 DEF IndInv, TypeOK
<1>frame. FrameFits'
  BY <1>1 DEF FrameFits, Recovering, OnRun, OnJob
<1>names. JobsNameRuns'
  BY <1>1, <1>3, <1>4, <1>5 DEF IndInv, JobsNameRuns
<1>owns. ClaimedRunIsStartable' /\ ExecutionOwnsRun'
  BY <1>1, <1>2, <1>3 DEF ClaimedRunIsStartable, ExecutionOwnsRun
<1>handler. HandlerOwnsRun' /\ RecoveredSoFar'
  BY <1>1 DEF HandlerOwnsRun, RecoveredSoFar, OnJob
<1>hand. RunIsInHand'
  BY <1>1, <1>5 DEF IndInv, RunIsInHand, Recovering
<1>quiet. SettledIsQuiet' /\ SettledJobSettlesRun'
  <2>1. ASSUME NEW j \in Jobs, jobs'[j].state \in {"succeeded", "dead_letter"}
        PROVE  jobs'[j] = jobs[j] /\ jobs[j].run \in Runs
    BY <1>3, <2>1 DEF IndInv, JobsNameRuns
  <2> QED BY <1>1, <1>5, <2>1 DEF IndInv, SettledIsQuiet, OnRun, SettledJobSettlesRun
<1>left. AttemptsLeft' /\ AttemptsBounded'
  <2>1. MaxAttempts \in Nat /\ crashes \in Nat
    BY ConstantsAssumption DEF IndInv, TypeOK
  <2>2. ASSUME NEW j \in S
        PROVE  jobs'[j].attempts <= MaxAttempts + crashes
    BY <1>3, <1>4, <2>1 DEF IndInv, AttemptsLeft
  <2> QED BY <1>1, <1>3, <2>2 DEF IndInv, AttemptsLeft, AttemptsBounded, Recovering
<1>active. ActiveRunUnfinished'
  BY <1>1, <1>3, <1>4, <1>5 DEF IndInv, ActiveRunUnfinished, OnJob
<1>one. OneActiveJob'
  BY <1>3, <1>4, <1>5 DEF IndInv, OneActiveJob, ActiveJobs
<1> QED
  BY <1>type, <1>frame, <1>names, <1>owns, <1>handler, <1>hand, <1>quiet, <1>left,
     <1>active, <1>one DEF IndInv

LEMMA BeginKeeps ==
  ASSUME IndInv, NEW j \in Jobs, BeginExecution(j)
  PROVE  IndInv'
<1> DEFINE r == jobs[j].run
           new == [run |-> r, job |-> j, stage |-> "plan", aborted |-> FALSE]
<1>1. /\ up /\ frame.pc = "idle" /\ j \in starting /\ runs[r] # "cancelled"
      /\ \A e \in executing : e.run # r
      /\ UNCHANGED <<up, crashes, jobs, frame, revoked>>
  BY DEF BeginExecution, At
<1>2. jobs[j].state = "leased" /\ r \in Runs
  BY <1>1 DEF IndInv, ClaimedRunIsStartable, JobsNameRuns
<1>3. /\ runs' \in [Runs -> Status]
      /\ \A x \in Runs : runs'[x] = IF x = r THEN "running" ELSE runs[x]
      /\ starting' = starting \ {j}
  BY <1>2 DEF BeginExecution, IndInv, TypeOK, Status
<1>4. /\ executing' = executing \cup {new}
      /\ new \in Execution /\ new.run = r /\ new.job = j /\ ~ new.aborted
  BY <1>2, NewExecutionRow DEF BeginExecution
<1>5. \A e \in executing : e.run \in Runs /\ e.job \in Jobs /\ e.run # r
  BY <1>1, ExecutionRow DEF IndInv, TypeOK
<1>6. /\ "leased" \in Active /\ "none" \notin Active
      /\ \A i \in Jobs : jobs[i].run = r /\ jobs[i].state \in Active => i = j
      /\ \A x : ActiveJobs(x)' = ActiveJobs(x)
      /\ ActiveJobs(r) # {}
  <2>1. "leased" \in Active /\ "none" \notin Active
    BY DEF Active
  <2> QED BY <1>1, <1>2, <2>1 DEF IndInv, OneActiveJob, ActiveJobs
<1>7. \A i \in Jobs : jobs[i].state \in {"succeeded", "dead_letter"} =>
                        jobs[i].run \in Runs \ {r}
  BY <1>2, <1>6 DEF IndInv, SettledIsQuiet, JobsNameRuns
<1> HIDE DEF r, new
<1>type. TypeOK'
  BY <1>1, <1>3, <1>4 DEF IndInv, TypeOK
<1>frame. FrameFits'
  BY <1>1 DEF IndInv, FrameFits, Recovering, OnRun, OnJob
<1>names. JobsNameRuns'
  BY <1>1, <1>3, <1>6 DEF IndInv, JobsNameRuns
<1>owns. ClaimedRunIsStartable' /\ ExecutionOwnsRun'
  <2>1. ClaimedRunIsStartable'
    <3>1. \A i \in starting : i \in Jobs /\ (jobs[i].run = r => i = j)
      BY <1>6 DEF IndInv, TypeOK, ClaimedRunIsStartable
    <3> QED BY <1>1, <1>3, <1>4, <3>1 DEF IndInv, ClaimedRunIsStartable
  <2>2. ExecutionOwnsRun'
    BY <1>1, <1>2, <1>3, <1>4, <1>5 DEF IndInv, ExecutionOwnsRun, OnJob, r
  <2> QED BY <2>1, <2>2
<1>handler. HandlerOwnsRun' /\ RecoveredSoFar'
  BY <1>1 DEF HandlerOwnsRun, RecoveredSoFar, OnJob
<1>hand. RunIsInHand'
  BY <1>1, <1>3, <1>4, <1>6 DEF IndInv, RunIsInHand, Recovering
<1>quiet. SettledIsQuiet' /\ SettledJobSettlesRun'
  BY <1>1, <1>3, <1>4, <1>6, <1>7 DEF IndInv, SettledIsQuiet, OnRun, SettledJobSettlesRun
<1>left. AttemptsLeft' /\ AttemptsBounded'
  BY <1>1 DEF IndInv, AttemptsLeft, AttemptsBounded, Recovering
<1>active. ActiveRunUnfinished'
  BY <1>1, <1>3, <1>6 DEF IndInv, ActiveRunUnfinished, JobsNameRuns, OnJob
<1>one. OneActiveJob'
  BY <1>6 DEF IndInv, OneActiveJob
<1> QED
  BY <1>type, <1>frame, <1>names, <1>owns, <1>handler, <1>hand, <1>quiet, <1>left,
     <1>active, <1>one DEF IndInv

\* An execution returns to its handler: aborted, or with the run's new status.
LEMMA ReturnsKeeps ==
  ASSUME IndInv, LoopFree, NEW e \in executing, Returns(e),
         \/ e.aborted /\ runs' = runs
         \/ \E status \in Finished \cup {"failed"} :
               runs' = [runs EXCEPT ![e.run] = status]
  PROVE  IndInv'
<1> DEFINE r == e.run
           j == e.job
<1>1. /\ up /\ frame.pc = "idle" /\ starting = {}
      /\ executing' = executing \ {e}
      /\ UNCHANGED <<up, crashes, jobs, starting, revoked>>
  BY DEF Returns, LoopFree
<1>2. /\ r \in Runs /\ j \in Jobs /\ jobs[j].run = r
      /\ \A f \in executing : f.run \in Runs /\ f.job \in Jobs
      /\ \A f \in executing' : f.run # r
  BY <1>1, ExecutionRow DEF IndInv, TypeOK, ExecutionOwnsRun
<1>3. frame' \in Frame /\ frame'.pc = "returned" /\ frame'.run = r /\ frame'.job = j
  BY <1>2 DEF Returns, Frame, Pc
<1>4. /\ e.aborted => /\ runs[r] = "cancelled" /\ r \in revoked
                      /\ jobs[j].state = "cancelled"
      /\ ~ e.aborted => runs[r] = "running" /\ jobs[j].state = "leased"
  BY <1>1, ExecutionRow DEF IndInv, TypeOK, ExecutionOwnsRun
<1>5. /\ runs' \in [Runs -> Status]
      /\ runs'[r] \in Terminal
      /\ runs'[r] = "cancelled" => e.aborted
      /\ \A x \in Runs \ {r} : runs'[x] = runs[x]
  <2>1. CASE e.aborted /\ runs' = runs
    BY <1>4, <2>1 DEF IndInv, TypeOK, Terminal
  <2>2. ASSUME NEW status \in Finished \cup {"failed"},
               runs' = [runs EXCEPT ![e.run] = status]
        PROVE  /\ runs' \in [Runs -> Status]
               /\ runs'[r] \in Terminal /\ runs'[r] # "cancelled"
               /\ \A x \in Runs \ {r} : runs'[x] = runs[x]
    BY <1>2, <2>2 DEF IndInv, TypeOK, Status, Terminal, Finished
  <2> QED BY <2>1, <2>2
<1>6. /\ \A i \in Jobs : jobs[i].run = r /\ jobs[i].state \in Active =>
                           i = j /\ ~ e.aborted
      /\ "leased" \in Active /\ "cancelled" \notin Active /\ "none" \notin Active
      /\ \A x : ActiveJobs(x)' = ActiveJobs(x)
      /\ "absent" \notin Terminal /\ "queued" \notin Terminal /\ "running" \notin Terminal
  <2>1. /\ "leased" \in Active /\ "cancelled" \notin Active /\ "none" \notin Active
        /\ "absent" \notin Terminal /\ "queued" \notin Terminal /\ "running" \notin Terminal
    BY DEF Active, Terminal, Finished
  <2>2. \A i \in Jobs : jobs[i].run = r /\ jobs[i].state \in Active => i = j /\ ~ e.aborted
    BY <1>2, <1>4, <2>1 DEF IndInv, JobsNameRuns, OneActiveJob, ActiveJobs
  <2> QED BY <1>1, <2>1, <2>2 DEF ActiveJobs
<1>7. \A i \in Jobs : jobs[i].state \in {"succeeded", "dead_letter"} =>
                        jobs[i].run \in Runs \ {r}
  BY <1>2 DEF IndInv, SettledIsQuiet, JobsNameRuns
<1> HIDE DEF r, j
<1>type. TypeOK'
  BY <1>1, <1>3, <1>5 DEF IndInv, TypeOK
<1>frame. FrameFits'
  BY <1>1, <1>2, <1>3 DEF IndInv, FrameFits, Recovering, OnRun, OnJob
<1>names. JobsNameRuns'
  BY <1>1, <1>5, <1>6 DEF IndInv, JobsNameRuns
<1>owns. ClaimedRunIsStartable' /\ ExecutionOwnsRun'
  BY <1>1, <1>2, <1>3, <1>5 DEF IndInv, ClaimedRunIsStartable, ExecutionOwnsRun, OnJob
<1>handler. HandlerOwnsRun' /\ RecoveredSoFar'
  BY <1>1, <1>3, <1>4, <1>5 DEF HandlerOwnsRun, RecoveredSoFar, OnJob
<1>hand. RunIsInHand'
  <2>1. \A x \in Runs \ {r} : \A f \in executing : f.run = x => f \in executing'
    BY <1>1 DEF r
  <2> QED BY <1>1, <1>3, <1>5, <1>6, <2>1 DEF IndInv, RunIsInHand, Recovering
<1>quiet. SettledIsQuiet' /\ SettledJobSettlesRun'
  BY <1>1, <1>3, <1>5, <1>6, <1>7 DEF IndInv, SettledIsQuiet, OnRun, SettledJobSettlesRun
<1>left. AttemptsLeft' /\ AttemptsBounded'
  BY <1>1, <1>3 DEF IndInv, AttemptsLeft, AttemptsBounded, Recovering
<1>active. ActiveRunUnfinished'
  BY <1>1, <1>3, <1>5, <1>6 DEF IndInv, ActiveRunUnfinished, JobsNameRuns, OnJob
<1>one. OneActiveJob'
  BY <1>6 DEF IndInv, OneActiveJob
<1> QED
  BY <1>type, <1>frame, <1>names, <1>owns, <1>handler, <1>hand, <1>quiet, <1>left,
     <1>active, <1>one DEF IndInv

LEMMA SaveArtifactsKeeps ==
  ASSUME IndInv, NEW e \in executing, SaveArtifacts(e)
  PROVE  IndInv'
<1> DEFINE new == [e EXCEPT !.stage = "artifacts"]
<1>1. UNCHANGED <<up, crashes, runs, jobs, frame, starting, revoked>>
  BY DEF SaveArtifacts
<1>2. /\ executing' = (executing \ {e}) \cup {new}
      /\ new \in Execution /\ new.run = e.run /\ new.job = e.job
      /\ new.aborted = e.aborted
  BY ExecutionRow DEF SaveArtifacts, IndInv, TypeOK
<1> HIDE DEF new
<1>3. /\ \A f \in executing' : \E g \in executing :
            f.run = g.run /\ f.job = g.job /\ f.aborted = g.aborted
      /\ \A g \in executing : \E f \in executing' : f.run = g.run
      /\ \A f, g \in executing' : f.run = g.run => f = g
      /\ Recovering => executing' = {}
  BY <1>2 DEF IndInv, ExecutionOwnsRun, FrameFits
<1>4. \A x : ActiveJobs(x)' = ActiveJobs(x)
  BY <1>1 DEF ActiveJobs
<1>type. TypeOK'
  BY <1>1, <1>2 DEF IndInv, TypeOK
<1>frame. FrameFits'
  BY <1>1, <1>3, <1>4 DEF IndInv, FrameFits, Recovering, OnRun, OnJob
<1>names. JobsNameRuns' /\ HandlerOwnsRun' /\ RecoveredSoFar' /\ OneActiveJob'
  BY <1>1, <1>4
  DEF IndInv, JobsNameRuns, HandlerOwnsRun, RecoveredSoFar, OnJob, OneActiveJob
<1>owns. ClaimedRunIsStartable' /\ ExecutionOwnsRun'
  BY <1>1, <1>3 DEF IndInv, ClaimedRunIsStartable, ExecutionOwnsRun, OnJob
<1>hand. RunIsInHand'
  BY <1>1, <1>3, <1>4 DEF IndInv, RunIsInHand, Recovering
<1>quiet. SettledIsQuiet' /\ SettledJobSettlesRun'
  BY <1>1, <1>3, <1>4 DEF IndInv, SettledIsQuiet, OnRun, SettledJobSettlesRun
<1>left. AttemptsLeft' /\ AttemptsBounded' /\ ActiveRunUnfinished'
  BY <1>1
  DEF IndInv, AttemptsLeft, AttemptsBounded, Recovering, ActiveRunUnfinished, OnJob
<1> QED
  BY <1>type, <1>frame, <1>names, <1>owns, <1>hand, <1>quiet, <1>left DEF IndInv

LEMMA RetryRunKeeps ==
  ASSUME IndInv, RetryRun
  PROVE  IndInv'
<1> DEFINE r == frame.run
           j == frame.job
<1>1. /\ up /\ frame.pc = "returned" /\ runs[r] = "failed"
      /\ jobs[j].attempts < MaxAttempts
      /\ UNCHANGED <<up, crashes, jobs, starting, executing, revoked>>
  BY DEF RetryRun, At
<1>2. /\ r \in Runs /\ j \in Jobs /\ jobs[j].run = r
      /\ jobs[j].state = "leased" \/ r \in revoked
  BY <1>1 DEF IndInv, FrameFits, HandlerOwnsRun, OnRun, OnJob
<1>3. frame' \in Frame /\ frame'.pc = "fail" /\ frame'.run = r /\ frame'.job = j
  BY FrameMoves DEF RetryRun, IndInv, TypeOK, Pc
<1>4. /\ runs' \in [Runs -> Status]
      /\ \A x \in Runs : runs'[x] = IF x = r THEN "queued" ELSE runs[x]
  BY <1>2 DEF RetryRun, IndInv, TypeOK, Status
<1>5. /\ \A i \in Jobs : jobs[i].state # "none" => jobs[i].run \in Runs
      /\ \A i \in Jobs : jobs[i].state \in {"succeeded", "dead_letter"} => jobs[i].run # r
      /\ \A e \in executing : e.run \in Runs /\ e.job \in Jobs /\ e.run # r
      /\ \A x : ActiveJobs(x)' = ActiveJobs(x)
      /\ "none" \notin Active /\ "leased" \in Active
  <2>1. \A e \in executing : e.run \in Runs /\ e.job \in Jobs /\ e.run # r
    BY <1>1, ExecutionRow DEF IndInv, TypeOK, ExecutionOwnsRun, OnJob
  <2>2. \A i \in Jobs : jobs[i].state \in {"succeeded", "dead_letter"} => jobs[i].run # r
    BY <1>1 DEF IndInv, SettledIsQuiet, OnRun
  <2> QED BY <1>1, <2>1, <2>2 DEF IndInv, JobsNameRuns, ActiveJobs, Active
<1> HIDE DEF r, j
<1>type. TypeOK'
  BY <1>1, <1>3, <1>4 DEF IndInv, TypeOK
<1>frame. FrameFits'
  BY <1>1, <1>2, <1>3 DEF IndInv, FrameFits, Recovering, OnRun, OnJob
<1>names. JobsNameRuns'
  BY <1>1, <1>4, <1>5 DEF IndInv, JobsNameRuns
<1>owns. ClaimedRunIsStartable' /\ ExecutionOwnsRun'
  BY <1>1, <1>3, <1>4, <1>5 DEF IndInv, ClaimedRunIsStartable, ExecutionOwnsRun, OnJob
<1>handler. HandlerOwnsRun' /\ RecoveredSoFar'
  <2>1. jobs[j].attempts \in Nat
    BY <1>2, JobRow DEF IndInv, TypeOK
  <2> QED BY <1>1, <1>2, <1>3, <1>4, <2>1, ConstantsAssumption
      DEF IndInv, HandlerOwnsRun, RecoveredSoFar, OnJob, r, j
<1>hand. RunIsInHand'
  <2>1. r \notin revoked => ActiveJobs(r) # {}
    BY <1>2, <1>5, ActiveNone
  <2> QED BY <1>1, <1>3, <1>4, <1>5, <2>1 DEF IndInv, RunIsInHand, Recovering
<1>quiet. SettledIsQuiet' /\ SettledJobSettlesRun'
  BY <1>1, <1>3, <1>4, <1>5 DEF IndInv, SettledIsQuiet, OnRun, SettledJobSettlesRun
<1>left. AttemptsLeft' /\ AttemptsBounded'
  BY <1>1, <1>3 DEF IndInv, AttemptsLeft, AttemptsBounded, Recovering
<1>active. ActiveRunUnfinished'
  BY <1>1, <1>3, <1>4, <1>5 DEF IndInv, ActiveRunUnfinished, OnJob, j
<1>one. OneActiveJob'
  BY <1>5 DEF IndInv, OneActiveJob
<1> QED
  BY <1>type, <1>frame, <1>names, <1>owns, <1>handler, <1>hand, <1>quiet, <1>left,
     <1>active, <1>one DEF IndInv

LEMMA HandlerEndsKeeps ==
  ASSUME IndInv, HandlerEnds
  PROVE  IndInv'
<1>1. /\ up /\ frame.pc = "returned"
      /\ UNCHANGED <<up, crashes, runs, jobs, starting, executing, revoked>>
  BY DEF HandlerEnds, At
<1>2. /\ frame' \in Frame /\ frame'.run = frame.run /\ frame'.job = frame.job
      /\ \/ /\ frame'.pc = "fail" /\ runs[frame.run] = "failed"
            /\ jobs[frame.job].attempts >= MaxAttempts
         \/ frame'.pc = "complete" /\ runs[frame.run] # "failed"
  <2>1. frame \in Frame /\ "fail" \in Pc /\ "complete" \in Pc
    BY DEF IndInv, TypeOK, Pc
  <2>2. CASE /\ frame' = [frame EXCEPT !.pc = "fail"] /\ runs[frame.run] = "failed"
             /\ jobs[frame.job].attempts >= MaxAttempts
    BY <2>1, <2>2 DEF Frame
  <2>3. CASE frame' = [frame EXCEPT !.pc = "complete"] /\ runs[frame.run] # "failed"
    BY <2>1, <2>3 DEF Frame
  <2> QED BY <2>2, <2>3 DEF HandlerEnds
<1>3. \A x : ActiveJobs(x)' = ActiveJobs(x)
  BY <1>1 DEF ActiveJobs
<1>type. TypeOK'
  BY <1>1, <1>2 DEF IndInv, TypeOK
<1>frame. FrameFits'
  BY <1>1, <1>2 DEF IndInv, FrameFits, Recovering, OnRun, OnJob
<1>owns. JobsNameRuns' /\ ClaimedRunIsStartable' /\ ExecutionOwnsRun'
  BY <1>1, <1>2 DEF IndInv, JobsNameRuns, ClaimedRunIsStartable, ExecutionOwnsRun, OnJob
<1>handler. HandlerOwnsRun' /\ RecoveredSoFar'
  BY <1>1, <1>2 DEF IndInv, HandlerOwnsRun, RecoveredSoFar, OnJob, Terminal
<1>hand. RunIsInHand'
  BY <1>1, <1>2, <1>3 DEF IndInv, RunIsInHand, Recovering
<1>quiet. SettledIsQuiet' /\ SettledJobSettlesRun' /\ OneActiveJob'
  BY <1>1, <1>2, <1>3 DEF IndInv, SettledIsQuiet, OnRun, SettledJobSettlesRun, OneActiveJob
<1>left. AttemptsLeft' /\ AttemptsBounded' /\ ActiveRunUnfinished'
  BY <1>1, <1>2
  DEF IndInv, AttemptsLeft, AttemptsBounded, Recovering, ActiveRunUnfinished, OnJob
<1> QED
  BY <1>type, <1>frame, <1>owns, <1>handler, <1>hand, <1>quiet, <1>left DEF IndInv

\* completeJob and failJob: the job is settled as its run's status allows.
LEMMA SettleKeeps ==
  ASSUME IndInv, up, frame.pc \in {"complete", "fail"}, frame' = NoFrame,
         NEW r \in Runs, NEW j \in Jobs, r = frame.run, j = frame.job,
         NEW state \in {"succeeded", "dead_letter", "backoff"},
         Settle(j, state),
         state = "succeeded" => runs[r] \in Finished \cup {"cancelled"},
         state = "dead_letter" => runs[r] = "failed",
         state = "backoff" => /\ runs[r] = "queued"
                              /\ jobs[j].attempts < MaxAttempts,
         UNCHANGED <<up, crashes, runs, starting, executing, revoked>>
  PROVE  IndInv'
<1>1. /\ jobs[j].run = r
      /\ jobs[j].state = "leased" \/ (jobs[j].state = "cancelled" /\ r \in revoked)
      /\ ~ Recovering /\ starting = {}
  BY DEF IndInv, FrameFits, HandlerOwnsRun, OnRun, OnJob, Recovering
<1>2. frame' \in Frame /\ frame'.pc = "idle"
  BY NoFrameRow
<1>3. /\ jobs' \in [Jobs -> Job]
      /\ jobs'[j].run = r /\ jobs'[j].attempts = jobs[j].attempts
      /\ jobs'[j].state = IF jobs[j].state = "leased" THEN state ELSE "cancelled"
      /\ \A k \in Jobs \ {j} : jobs'[k] = jobs[k]
  <2>1. \A k \in Jobs : jobs[k] \in Job
    BY DEF IndInv, TypeOK
  <2>2. state \in JobState
    BY DEF JobState, Active
  <2> QED BY <1>1, <2>1, <2>2, JobRow DEF Settle
<1>4. /\ "leased" \in Active /\ "backoff" \in Active
      /\ "succeeded" \notin Active /\ "dead_letter" \notin Active
      /\ "cancelled" \notin Active /\ "none" \notin Active
      /\ "queued" \notin Finished /\ "running" \notin Finished
  BY DEF Active, Finished
<1>5. /\ \A x \in Runs \ {r} : ActiveJobs(x)' = {} <=> ActiveJobs(x) = {}
      /\ \A i \in Jobs \ {j} : jobs[i].run = r /\ jobs[i].state \in Active =>
                               jobs[j].state = "cancelled"
      /\ jobs'[j].state = "backoff" => ActiveJobs(r)' # {}
  <2>1. \A x \in Runs \ {r} : ActiveJobs(x)' = {} <=> ActiveJobs(x) = {}
    BY <1>1, <1>3, ActiveNone
  <2>2. \A i \in Jobs \ {j} : jobs[i].run = r /\ jobs[i].state \in Active =>
                             jobs[j].state = "cancelled"
    BY <1>1, <1>4 DEF IndInv, OneActiveJob, ActiveJobs
  <2>3. jobs'[j].state = "backoff" => ActiveJobs(r)' # {}
    BY <1>1, <1>3, <1>4, ActiveNone
  <2> QED BY <2>1, <2>2, <2>3
<1>6. /\ \A e \in executing : e.run \in Runs /\ e.job \in Jobs /\ e.run # r /\ e.job # j
      /\ \A i \in Jobs : jobs[i].state \in {"succeeded", "dead_letter"} =>
                          jobs[i].run \in Runs \ {r}
  <2>1. \A e \in executing : e.run \in Runs /\ e.job \in Jobs /\ e.run # r /\ e.job # j
    <3>1. \A e \in executing : e.run \in Runs /\ e.job \in Jobs
      BY ExecutionRow DEF IndInv, TypeOK
    <3>2. \A e \in executing : jobs[e.job].run = e.run /\ frame.run # e.run
      BY DEF IndInv, ExecutionOwnsRun, OnJob
    <3> QED BY <1>1, <3>1, <3>2
  <2>2. \A i \in Jobs : jobs[i].state \in {"succeeded", "dead_letter"} =>
                        jobs[i].run \in Runs \ {r}
    BY DEF IndInv, SettledIsQuiet, OnRun, JobsNameRuns
  <2> QED BY <2>1, <2>2
<1>type. TypeOK'
  BY <1>2, <1>3 DEF IndInv, TypeOK
<1>frame. FrameFits'
  BY <1>1, <1>2 DEF FrameFits, Recovering, OnRun, OnJob
<1>names. JobsNameRuns'
  BY <1>1, <1>3, <1>4 DEF IndInv, JobsNameRuns
<1>owns. ClaimedRunIsStartable' /\ ExecutionOwnsRun'
  BY <1>1, <1>2, <1>3, <1>6 DEF IndInv, ClaimedRunIsStartable, ExecutionOwnsRun, OnJob
<1>handler. HandlerOwnsRun' /\ RecoveredSoFar'
  BY <1>2 DEF HandlerOwnsRun, RecoveredSoFar, OnJob
<1>hand. RunIsInHand'
  <2>1. /\ runs[r] # "running"
        /\ runs[r] = "queued" /\ r \notin revoked => jobs'[j].state = "backoff"
    BY <1>1, <1>3, <1>4
  <2>2. frame.pc \notin {"enqueue", "cancel"}
    OBVIOUS
  <2> QED BY <1>1, <1>2, <1>5, <2>1, <2>2 DEF IndInv, RunIsInHand
<1>quiet. SettledIsQuiet' /\ SettledJobSettlesRun'
  <2>1. ASSUME jobs'[j].state \in {"succeeded", "dead_letter"}
        PROVE  ActiveJobs(r)' = {}
    BY <1>3, <1>4, <1>5, <2>1, ActiveNone
  <2> QED BY <1>2, <1>3, <1>5, <1>6, <2>1
      DEF IndInv, SettledIsQuiet, OnRun, SettledJobSettlesRun
<1>left. AttemptsLeft' /\ AttemptsBounded'
  <2>1. MaxAttempts \in Nat /\ crashes \in Nat /\ jobs[j].attempts \in Nat
    BY <1>1, JobRow, ConstantsAssumption DEF IndInv, TypeOK
  <2> QED BY <1>1, <1>2, <1>3, <2>1
      DEF IndInv, AttemptsLeft, AttemptsBounded, Recovering
<1>active. ActiveRunUnfinished'
  BY <1>1, <1>2, <1>3, <1>4 DEF IndInv, ActiveRunUnfinished, OnJob
<1>one. OneActiveJob'
  BY <1>1, <1>3, <1>4 DEF IndInv, OneActiveJob, ActiveJobs
<1> QED
  BY <1>type, <1>frame, <1>names, <1>owns, <1>handler, <1>hand, <1>quiet, <1>left,
     <1>active, <1>one DEF IndInv

LEMMA CompleteJobKeeps ==
  ASSUME IndInv, CompleteJob
  PROVE  IndInv'
<1>1. /\ up /\ frame.pc = "complete" /\ Settle(frame.job, "succeeded")
      /\ frame' = NoFrame
      /\ UNCHANGED <<up, crashes, runs, starting, executing, revoked>>
  BY DEF CompleteJob, At
<1>2. /\ frame.run \in Runs /\ frame.job \in Jobs
      /\ runs[frame.run] \in Finished \cup {"cancelled"}
  BY <1>1 DEF IndInv, FrameFits, HandlerOwnsRun, OnRun, OnJob
<1> QED BY <1>1, <1>2, SettleKeeps

LEMMA FailJobKeeps ==
  ASSUME IndInv, FailJob
  PROVE  IndInv'
<1> DEFINE state == IF jobs[frame.job].attempts >= MaxAttempts
                    THEN "dead_letter" ELSE "backoff"
<1>1. /\ up /\ frame.pc = "fail" /\ Settle(frame.job, state) /\ frame' = NoFrame
      /\ UNCHANGED <<up, crashes, runs, starting, executing, revoked>>
  BY DEF FailJob, At
<1>2. frame.run \in Runs /\ frame.job \in Jobs
  BY <1>1 DEF IndInv, FrameFits, OnRun, OnJob
<1>3. jobs[frame.job].attempts \in Nat /\ MaxAttempts \in Nat
  BY <1>2, JobRow, ConstantsAssumption DEF IndInv, TypeOK
<1>4. /\ state \in {"dead_letter", "backoff"}
      /\ state = "dead_letter" => runs[frame.run] = "failed"
      /\ state = "backoff" => /\ runs[frame.run] = "queued"
                              /\ jobs[frame.job].attempts < MaxAttempts
  BY <1>1, <1>3 DEF IndInv, HandlerOwnsRun, OnJob
<1> HIDE DEF state
<1> QED BY <1>1, <1>2, <1>4, SettleKeeps

LEMMA BackoffEndsKeeps ==
  ASSUME IndInv, NEW j \in Jobs, BackoffEnds(j)
  PROVE  IndInv'
<1>1. /\ frame.pc = "idle" \/ ~ up
      /\ jobs[j].state = "backoff"
      /\ UNCHANGED <<up, crashes, runs, frame, starting, executing, revoked>>
  BY DEF BackoffEnds, LoopFree
<1>2. /\ jobs' \in [Jobs -> Job]
      /\ jobs'[j].run = jobs[j].run /\ jobs'[j].attempts = jobs[j].attempts
      /\ jobs'[j].state = "queued"
      /\ \A k \in Jobs \ {j} : jobs'[k] = jobs[k]
  <2>1. jobs[j] \in Job /\ jobs \in [Jobs -> Job] /\ "queued" \in JobState
    BY DEF IndInv, TypeOK, JobState, Active
  <2> QED BY <2>1, JobRow DEF BackoffEnds, SetState
<1>3. /\ "queued" \in Active /\ "backoff" \in Active
      /\ \A x \in Runs : ActiveJobs(x)' = {} <=> ActiveJobs(x) = {}
      /\ frame.pc = "idle"
  <2>1. "queued" \in Active /\ "backoff" \in Active
    BY DEF Active
  <2>2. \A x \in Runs : ActiveJobs(x)' = {} <=> ActiveJobs(x) = {}
    BY <1>1, <1>2, <2>1, ActiveNone
  <2> QED BY <1>1, <2>1, <2>2 DEF IndInv, FrameFits
<1>4. \A e \in executing : e.job \in Jobs /\ e.job # j
  BY <1>1, ExecutionRow DEF IndInv, TypeOK, ExecutionOwnsRun
<1>5. \A i \in starting : i \in Jobs /\ i # j
  BY <1>1 DEF IndInv, TypeOK, ClaimedRunIsStartable
<1>type. TypeOK'
  BY <1>1, <1>2 DEF IndInv, TypeOK
<1>frame. FrameFits'
  BY <1>1, <1>3 DEF IndInv, FrameFits, Recovering, OnRun, OnJob
<1>names. JobsNameRuns'
  BY <1>1, <1>2, <1>3 DEF IndInv, JobsNameRuns
<1>owns. ClaimedRunIsStartable' /\ ExecutionOwnsRun'
  BY <1>1, <1>2, <1>3, <1>4, <1>5 DEF IndInv, ClaimedRunIsStartable, ExecutionOwnsRun, OnJob
<1>handler. HandlerOwnsRun' /\ RecoveredSoFar'
  BY <1>1, <1>3 DEF HandlerOwnsRun, RecoveredSoFar, OnJob
<1>hand. RunIsInHand'
  BY <1>1, <1>3 DEF IndInv, RunIsInHand, Recovering
<1>quiet. SettledIsQuiet' /\ SettledJobSettlesRun'
  <2>1. ASSUME NEW k \in Jobs, jobs'[k].state \in {"succeeded", "dead_letter"}
        PROVE  jobs'[k] = jobs[k] /\ jobs[k].run \in Runs
    BY <1>2, <2>1 DEF IndInv, JobsNameRuns
  <2> QED BY <1>1, <1>3, <2>1 DEF IndInv, SettledIsQuiet, OnRun, SettledJobSettlesRun
<1>left. AttemptsLeft' /\ AttemptsBounded'
  BY <1>1, <1>2, <1>3 DEF IndInv, AttemptsLeft, AttemptsBounded, Recovering
<1>active. ActiveRunUnfinished'
  BY <1>1, <1>2, <1>3 DEF IndInv, ActiveRunUnfinished, OnJob
<1>one. OneActiveJob'
  <2>1. \A x, k : k \in ActiveJobs(x)' <=> k \in ActiveJobs(x)
    BY <1>1, <1>2, <1>3 DEF ActiveJobs
  <2> QED BY <2>1 DEF IndInv, OneActiveJob
<1> QED
  BY <1>type, <1>frame, <1>names, <1>owns, <1>handler, <1>hand, <1>quiet, <1>left,
     <1>active, <1>one DEF IndInv

LEMMA CrashKeeps ==
  ASSUME IndInv, Crash
  PROVE  IndInv'
<1>1. /\ crashes < MaxCrashes /\ crashes' = crashes + 1 /\ ~ up'
      /\ up' \in BOOLEAN /\ starting' = {} /\ executing' = {}
      /\ UNCHANGED <<runs, jobs, revoked>>
  BY DEF Crash
<1>2. frame' \in Frame /\ frame'.pc = "idle" /\ Recovering'
  BY NoFrameRow DEF Crash, Recovering
<1>3. crashes \in Nat /\ crashes' \in 1 .. MaxCrashes /\ MaxAttempts \in Nat
  BY <1>1, ConstantsAssumption DEF IndInv, TypeOK
<1>4. \A x : ActiveJobs(x)' = ActiveJobs(x)
  BY <1>1 DEF ActiveJobs
<1>type. TypeOK'
  BY <1>1, <1>2, <1>3 DEF IndInv, TypeOK
<1>frame. FrameFits'
  BY <1>1, <1>2 DEF FrameFits, OnRun, OnJob
<1>names. JobsNameRuns' /\ OneActiveJob'
  BY <1>1, <1>4 DEF IndInv, JobsNameRuns, OneActiveJob
<1>owns. ClaimedRunIsStartable' /\ ExecutionOwnsRun'
  BY <1>1 DEF ClaimedRunIsStartable, ExecutionOwnsRun
<1>handler. HandlerOwnsRun' /\ RecoveredSoFar' /\ RunIsInHand'
  BY <1>2 DEF HandlerOwnsRun, RecoveredSoFar, RunIsInHand, OnJob
<1>quiet. SettledIsQuiet' /\ SettledJobSettlesRun'
  BY <1>1, <1>2, <1>4 DEF IndInv, SettledIsQuiet, OnRun, SettledJobSettlesRun
<1>left. AttemptsLeft' /\ AttemptsBounded'
  <2>1. \A j \in Jobs : jobs[j].attempts \in Nat /\ jobs[j].attempts <= MaxAttempts + crashes
    BY JobRow DEF IndInv, TypeOK, AttemptsBounded
  <2> QED BY <1>1, <1>3, <2>1 DEF AttemptsLeft, AttemptsBounded
<1>active. ActiveRunUnfinished'
  BY <1>3 DEF ActiveRunUnfinished
<1> QED
  BY <1>type, <1>frame, <1>names, <1>owns, <1>handler, <1>quiet, <1>left, <1>active DEF IndInv

LEMMA RestartKeeps ==
  ASSUME IndInv, Restart
  PROVE  IndInv'
<1>1. /\ ~ up /\ up' /\ starting = {} /\ executing = {} /\ Recovering
      /\ UNCHANGED <<crashes, runs, jobs, starting, executing, revoked>>
  BY DEF Restart, IndInv, FrameFits, Recovering
<1>2. frame' \in Frame /\ frame'.pc = "recover_runs" /\ Recovering'
  BY DEF Restart, Recovering, NoFrame, Frame, Pc
<1>3. \A x : ActiveJobs(x)' = ActiveJobs(x)
  BY <1>1 DEF ActiveJobs
<1>type. TypeOK'
  BY <1>1, <1>2 DEF IndInv, TypeOK
<1>frame. FrameFits'
  BY <1>1, <1>2 DEF FrameFits, OnRun, OnJob
<1>names. JobsNameRuns' /\ OneActiveJob'
  BY <1>1, <1>3 DEF IndInv, JobsNameRuns, OneActiveJob
<1>owns. ClaimedRunIsStartable' /\ ExecutionOwnsRun'
  BY <1>1 DEF ClaimedRunIsStartable, ExecutionOwnsRun
<1>handler. HandlerOwnsRun' /\ RecoveredSoFar' /\ RunIsInHand'
  BY <1>2 DEF HandlerOwnsRun, RecoveredSoFar, RunIsInHand, OnJob
<1>quiet. SettledIsQuiet' /\ SettledJobSettlesRun'
  BY <1>1, <1>2, <1>3 DEF IndInv, SettledIsQuiet, OnRun, SettledJobSettlesRun
<1>left. AttemptsLeft' /\ AttemptsBounded'
  BY <1>1 DEF IndInv, AttemptsLeft, AttemptsBounded
<1>active. ActiveRunUnfinished'
  <2>1. frame.pc = "idle"
    BY <1>1 DEF IndInv, FrameFits
  <2> QED BY <1>1, <2>1 DEF IndInv, ActiveRunUnfinished, OnJob
<1> QED
  BY <1>type, <1>frame, <1>names, <1>owns, <1>handler, <1>quiet, <1>left, <1>active DEF IndInv

LEMMA RecoverRunsKeeps ==
  ASSUME IndInv, RecoverRuns
  PROVE  IndInv'
<1>1. /\ up /\ frame.pc = "recover_runs" /\ starting = {} /\ executing = {} /\ Recovering
      /\ UNCHANGED <<up, crashes, jobs, starting, executing, revoked>>
  BY DEF RecoverRuns, At, IndInv, FrameFits, Recovering
<1>2. frame' \in Frame /\ frame'.pc = "recover_jobs" /\ Recovering'
  BY DEF RecoverRuns, Recovering, NoFrame, Frame, Pc
<1>3. /\ runs' \in [Runs -> Status]
      /\ \A r \in Runs : runs'[r] = IF runs[r] = "running" THEN "queued" ELSE runs[r]
  BY DEF RecoverRuns, IndInv, TypeOK, Status
<1>4. /\ \A x : ActiveJobs(x)' = ActiveJobs(x)
      /\ "none" \notin Active /\ "running" \notin Finished
  BY <1>1 DEF ActiveJobs, Active, Finished
<1>type. TypeOK'
  BY <1>1, <1>2, <1>3 DEF IndInv, TypeOK
<1>frame. FrameFits'
  BY <1>1, <1>2 DEF FrameFits, OnRun, OnJob
<1>names. JobsNameRuns' /\ OneActiveJob'
  BY <1>1, <1>3, <1>4 DEF IndInv, JobsNameRuns, OneActiveJob
<1>owns. ClaimedRunIsStartable' /\ ExecutionOwnsRun'
  BY <1>1 DEF ClaimedRunIsStartable, ExecutionOwnsRun
<1>handler. HandlerOwnsRun' /\ RecoveredSoFar' /\ RunIsInHand'
  BY <1>2, <1>3 DEF HandlerOwnsRun, RecoveredSoFar, RunIsInHand, OnJob
<1>quiet. SettledIsQuiet' /\ SettledJobSettlesRun'
  BY <1>1, <1>2, <1>3, <1>4
  DEF IndInv, SettledIsQuiet, OnRun, SettledJobSettlesRun, JobsNameRuns
<1>left. AttemptsLeft' /\ AttemptsBounded'
  BY <1>1 DEF IndInv, AttemptsLeft, AttemptsBounded
<1>active. ActiveRunUnfinished'
  BY <1>1, <1>3, <1>4 DEF IndInv, ActiveRunUnfinished, JobsNameRuns, OnJob
<1> QED
  BY <1>type, <1>frame, <1>names, <1>owns, <1>handler, <1>quiet, <1>left, <1>active DEF IndInv

LEMMA RecoverJobsKeeps ==
  ASSUME IndInv, RecoverJobs
  PROVE  IndInv'
<1>1. /\ up /\ frame.pc = "recover_jobs" /\ starting = {} /\ executing = {} /\ Recovering
      /\ UNCHANGED <<up, crashes, runs, starting, executing, revoked>>
  BY DEF RecoverJobs, At, IndInv, FrameFits, Recovering
<1>2. frame' \in Frame /\ frame'.pc = "resume" /\ Recovering'
  BY DEF RecoverJobs, Recovering, NoFrame, Frame, Pc
<1>3. /\ jobs' \in [Jobs -> Job]
      /\ \A k \in Jobs :
            /\ jobs'[k].run = jobs[k].run /\ jobs'[k].attempts = jobs[k].attempts
            /\ jobs'[k].state = IF jobs[k].state = "leased" THEN "queued" ELSE jobs[k].state
  <2>1. \A k \in Jobs : jobs[k] \in Job /\ "queued" \in JobState
    BY DEF IndInv, TypeOK, JobState, Active
  <2> QED BY <2>1, JobRow DEF RecoverJobs
<1>4. /\ "leased" \in Active /\ "queued" \in Active
      /\ \A x, k : k \in ActiveJobs(x)' <=> k \in ActiveJobs(x)
      /\ \A x : ActiveJobs(x)' = {} <=> ActiveJobs(x) = {}
  <2>1. "leased" \in Active /\ "queued" \in Active
    BY DEF Active
  <2>2. \A x, k : k \in ActiveJobs(x)' <=> k \in ActiveJobs(x)
    BY <1>3, <2>1 DEF ActiveJobs
  <2>3. \A x : ActiveJobs(x)' = {} <=> ActiveJobs(x) = {}
    BY <1>3, <2>1, ActiveNone
  <2> QED BY <2>1, <2>2, <2>3
<1>type. TypeOK'
  BY <1>1, <1>2, <1>3 DEF IndInv, TypeOK
<1>frame. FrameFits'
  BY <1>1, <1>2 DEF FrameFits, OnRun, OnJob
<1>names. JobsNameRuns' /\ OneActiveJob'
  BY <1>1, <1>3, <1>4 DEF IndInv, JobsNameRuns, OneActiveJob
<1>owns. ClaimedRunIsStartable' /\ ExecutionOwnsRun'
  BY <1>1 DEF ClaimedRunIsStartable, ExecutionOwnsRun
<1>handler. HandlerOwnsRun' /\ RecoveredSoFar' /\ RunIsInHand'
  BY <1>1, <1>2, <1>3 DEF IndInv, HandlerOwnsRun, RecoveredSoFar, RunIsInHand, OnJob
<1>quiet. SettledIsQuiet' /\ SettledJobSettlesRun'
  BY <1>1, <1>2, <1>3, <1>4
  DEF IndInv, SettledIsQuiet, OnRun, SettledJobSettlesRun, JobsNameRuns
<1>left. AttemptsLeft' /\ AttemptsBounded'
  BY <1>1, <1>2, <1>3 DEF IndInv, AttemptsLeft, AttemptsBounded
<1>active. ActiveRunUnfinished'
  BY <1>1, <1>3, <1>4 DEF IndInv, ActiveRunUnfinished, OnJob
<1> QED
  BY <1>type, <1>frame, <1>names, <1>owns, <1>handler, <1>quiet, <1>left, <1>active DEF IndInv

LEMMA ReadyKeeps ==
  ASSUME IndInv, Ready
  PROVE  IndInv'
<1>1. /\ up /\ frame.pc = "resume" /\ starting = {} /\ executing = {} /\ Jobless = {}
      /\ UNCHANGED <<up, crashes, runs, jobs, starting, executing, revoked>>
  BY DEF Ready, At, IndInv, FrameFits, Recovering
<1>2. frame' \in Frame /\ frame'.pc = "idle"
  BY NoFrameRow DEF Ready
<1>3. \A x : ActiveJobs(x)' = ActiveJobs(x)
  BY <1>1 DEF ActiveJobs
<1>type. TypeOK'
  BY <1>1, <1>2 DEF IndInv, TypeOK
<1>frame. FrameFits'
  BY <1>1, <1>2 DEF FrameFits, OnRun, OnJob
<1>names. JobsNameRuns' /\ OneActiveJob'
  BY <1>1, <1>3 DEF IndInv, JobsNameRuns, OneActiveJob
<1>owns. ClaimedRunIsStartable' /\ ExecutionOwnsRun'
  BY <1>1 DEF ClaimedRunIsStartable, ExecutionOwnsRun
<1>handler. HandlerOwnsRun' /\ RecoveredSoFar'
  BY <1>2 DEF HandlerOwnsRun, RecoveredSoFar, OnJob
<1>hand. RunIsInHand'
  <2>1. \A r \in Runs : runs[r] # "running" /\ (runs[r] = "queued" => ActiveJobs(r) # {})
    BY <1>1 DEF IndInv, RecoveredSoFar, Jobless
  <2> QED BY <1>1, <1>3, <2>1 DEF RunIsInHand
<1>quiet. SettledIsQuiet' /\ SettledJobSettlesRun'
  BY <1>1, <1>2, <1>3 DEF IndInv, SettledIsQuiet, OnRun, SettledJobSettlesRun
<1>left. AttemptsLeft' /\ AttemptsBounded'
  BY <1>1 DEF IndInv, RecoveredSoFar, AttemptsLeft, AttemptsBounded
<1>active. ActiveRunUnfinished'
  BY <1>1, <1>2 DEF IndInv, ActiveRunUnfinished, OnJob
<1> QED
  BY <1>type, <1>frame, <1>names, <1>owns, <1>handler, <1>hand, <1>quiet, <1>left,
     <1>active DEF IndInv

LEMMA InitHolds == Init => IndInv
<1> SUFFICES ASSUME Init PROVE IndInv
  OBVIOUS
<1>1. /\ up /\ up \in BOOLEAN /\ crashes = 0 /\ starting = {} /\ executing = {} /\ revoked = {}
      /\ runs \in [Runs -> Status] /\ \A r \in Runs : runs[r] = "absent"
  BY DEF Init, Status
<1>2. /\ jobs \in [Jobs -> Job]
      /\ \A j \in Jobs : jobs[j].state = "none" /\ jobs[j].attempts = 0
  <2>1. NoRow \in Job /\ NoRow.state = "none" /\ NoRow.attempts = 0
    BY DEF NoRow, Job, JobState
  <2> QED BY <2>1 DEF Init
<1>3. frame \in Frame /\ frame.pc = "idle"
  BY NoFrameRow DEF Init
<1>4. "none" \notin Active /\ MaxAttempts \in Nat /\ MaxCrashes \in Nat
  BY ConstantsAssumption DEF Active
<1>5. TypeOK
  BY <1>1, <1>2, <1>3, <1>4 DEF TypeOK
<1>6. FrameFits /\ JobsNameRuns /\ ClaimedRunIsStartable /\ ExecutionOwnsRun
  BY <1>1, <1>2, <1>3, <1>4
  DEF FrameFits, Recovering, OnRun, OnJob, JobsNameRuns, ClaimedRunIsStartable,
      ExecutionOwnsRun
<1>7. HandlerOwnsRun /\ RunIsInHand /\ RecoveredSoFar /\ SettledIsQuiet
  BY <1>1, <1>2, <1>3 DEF HandlerOwnsRun, OnJob, RunIsInHand, RecoveredSoFar, SettledIsQuiet
<1>8. /\ AttemptsLeft /\ AttemptsBounded /\ ActiveRunUnfinished
      /\ OneActiveJob /\ SettledJobSettlesRun
  BY <1>1, <1>2, <1>4
  DEF AttemptsLeft, AttemptsBounded, ActiveRunUnfinished, OneActiveJob, ActiveJobs,
      SettledJobSettlesRun
<1> QED
  BY <1>5, <1>6, <1>7, <1>8 DEF IndInv

LEMMA SynchronousKeeps ==
  ASSUME IndInv, Synchronous
  PROVE  IndInv'
<1>1. CASE EnqueueJob
  <2>1. /\ frame.pc = "enqueue" /\ frame' = NoFrame /\ Enqueue(frame.run)
        /\ UNCHANGED <<up, crashes, runs, starting, executing, revoked>>
    BY <1>1 DEF EnqueueJob, At
  <2>2. frame.run \in Runs /\ runs[frame.run] = "queued" /\ ActiveJobs(frame.run) = {}
    BY <2>1 DEF IndInv, FrameFits, OnRun
  <2> QED BY <2>1, <2>2, EnqueueKeeps
<1>2. ASSUME NEW r \in Runs, ResumeRun(r)
      PROVE  IndInv'
  <2>1. /\ frame.pc = "resume" /\ frame' = frame /\ Enqueue(r)
        /\ runs[r] = "queued" /\ ActiveJobs(r) = {}
        /\ UNCHANGED <<up, crashes, runs, starting, executing, revoked>>
    BY <1>2 DEF ResumeRun, At, Jobless
  <2> QED BY <2>1, EnqueueKeeps
<1> QED
  BY <1>1, <1>2, CancelRunKeeps, BeginKeeps, RetryRunKeeps, HandlerEndsKeeps,
     CompleteJobKeeps, FailJobKeeps, RecoverRunsKeeps, RecoverJobsKeeps, ReadyKeeps
  DEF Synchronous

LEMMA ProgressKeeps ==
  ASSUME IndInv, NEW e \in executing, Progress(e)
  PROVE  IndInv'
<1>1. CASE AbortSeen(e)
  BY <1>1, ReturnsKeeps DEF AbortSeen
<1>2. CASE SaveArtifacts(e)
  BY <1>2, SaveArtifactsKeeps
<1>3. ASSUME NEW status \in Finished \cup {"failed"},
             ExecutionEnds(e, status) \/ AuditEnds(e, status)
      PROVE  IndInv'
  <2>1. LoopFree /\ Returns(e) /\ runs' = [runs EXCEPT ![e.run] = status]
    BY <1>3 DEF ExecutionEnds, AuditEnds
  <2> QED BY <2>1, ReturnsKeeps
<1> QED
  BY <1>1, <1>2, <1>3 DEF Progress

LEMMA StutterKeeps ==
  ASSUME IndInv, UNCHANGED vars
  PROVE  IndInv'
<1>1. UNCHANGED <<up, crashes, runs, jobs, frame, starting, executing, revoked>>
  BY DEF vars
<1> QED
  BY <1>1
  DEF IndInv, TypeOK, FrameFits, JobsNameRuns, ClaimedRunIsStartable, ExecutionOwnsRun,
      HandlerOwnsRun, RunIsInHand, RecoveredSoFar, SettledIsQuiet, AttemptsLeft,
      ActiveRunUnfinished, OneActiveJob, SettledJobSettlesRun, AttemptsBounded,
      Recovering, OnRun, OnJob, ActiveJobs

\* Whatever the daemon's code, its crashes and its restarts do, who has each run in
\* hand is never in doubt: the invariant holds in every reachable state.
THEOREM Invariance == Spec => []IndInv
<1>1. ASSUME IndInv, Next
      PROVE  IndInv'
  BY <1>1, StartKeeps, CancelKeeps, SynchronousKeeps, WorkerPollKeeps, ProgressKeeps,
     BackoffEndsKeeps, CrashKeeps, RestartKeeps
  DEF Next, Request
<1>2. IndInv /\ [Next]_vars => IndInv'
  BY <1>1, StutterKeeps
<1> QED
  BY InitHolds, <1>2, PTL DEF Spec

-----------------------------------------------------------------------------
(* What follows from it.                                                   *)

\* Every row, frame and execution keeps its shape.
THEOREM TypeCorrect == Spec => []TypeOK
<1>1. IndInv => TypeOK
  BY DEF IndInv
<1> QED
  BY <1>1, Invariance, PTL

\* No run is ever executed by two jobs.
THEOREM OneJobPerRun == Spec => []OneActiveJob
<1>1. IndInv => OneActiveJob
  BY DEF IndInv
<1> QED
  BY <1>1, Invariance, PTL

\* Between two turns of the event loop a run shown as running is being executed.
THEOREM NoneRunsUnattended == Spec => []RunningIsExecuted
<1>1. IndInv => RunningIsExecuted
  BY DEF IndInv, RunningIsExecuted, RunIsInHand, LoopFree, Recovering
<1> QED
  BY <1>1, Invariance, PTL

\* Between two turns of the event loop a queued run nobody cancelled has a job.
THEOREM NoneQueuedInVain == Spec => []QueuedHasJob
<1>1. IndInv => QueuedHasJob
  BY DEF IndInv, QueuedHasJob, RunIsInHand, LoopFree, Recovering
<1> QED
  BY <1>1, Invariance, PTL

\* A job given up leaves its run failed, a job done leaves it over.
THEOREM SettledTogether == Spec => []SettledJobSettlesRun
<1>1. IndInv => SettledJobSettlesRun
  BY DEF IndInv
<1> QED
  BY <1>1, Invariance, PTL

\* Only a crash buys a job one attempt more.
THEOREM AttemptsAreBounded == Spec => []AttemptsBounded
<1>1. IndInv => AttemptsBounded
  BY DEF IndInv
<1> QED
  BY <1>1, Invariance, PTL

LEMMA FinishedStays ==
  ASSUME IndInv, Next, NEW r \in Runs, runs[r] \in Finished, runs'[r] # runs[r]
  PROVE  crashes > 0
<1>1. CASE \E x \in Runs : Start(x)
  BY <1>1 DEF Start, Finished, IndInv, TypeOK
<1>2. CASE CancelRun
  BY <1>2 DEF CancelRun, At, IndInv, TypeOK, FrameFits, Finished
<1>3. ASSUME NEW j \in Jobs, BeginExecution(j)
      PROVE  crashes > 0
  <2>1. /\ frame.pc = "idle" /\ jobs[j].state = "leased" /\ jobs[j].run = r
    BY <1>3 DEF BeginExecution, At, IndInv, TypeOK, ClaimedRunIsStartable
  <2>2. crashes # 0
    BY <2>1 DEF IndInv, ActiveRunUnfinished, OnJob, Active, Finished
  <2> QED BY <2>2, ConstantsAssumption DEF IndInv, TypeOK
<1>4. ASSUME NEW e \in executing, Progress(e)
      PROVE  FALSE
  <2>1. runs[e.run] \in {"running", "cancelled"}
    <3>1. e.aborted \in BOOLEAN
      BY ExecutionRow DEF IndInv, TypeOK
    <3>2. frame.pc = "idle"
      BY <1>4 DEF Progress, AbortSeen, SaveArtifacts, ExecutionEnds, AuditEnds, LoopFree
    <3> QED BY <3>1, <3>2 DEF IndInv, ExecutionOwnsRun
  <2>2. \A x \in Runs \ {e.run} : runs'[x] = runs[x]
    BY <1>4 DEF Progress, AbortSeen, SaveArtifacts, ExecutionEnds, AuditEnds, IndInv, TypeOK
  <2> QED BY <2>1, <2>2 DEF Finished
<1>5. CASE RetryRun
  BY <1>5 DEF RetryRun, IndInv, TypeOK, Finished
<1>6. CASE RecoverRuns
  BY <1>6 DEF RecoverRuns, Finished
<1>7. CASE UNCHANGED runs
  BY <1>7
<1> QED
  BY <1>1, <1>2, <1>3, <1>4, <1>5, <1>6, <1>7
  DEF Next, Request, Synchronous, Cancel, EnqueueJob, HandlerEnds, CompleteJob, FailJob,
      RecoverJobs, Ready, ResumeRun, WorkerPoll, BackoffEnds, Crash, Restart

\* Without a crash no step, however late, touches a finished run.
THEOREM FinishedIsKept == Spec => FinishedStaysWithoutCrash
<1>1. IndInv /\ [Next]_vars =>
        [\A r \in Runs : (runs[r] \in Finished /\ runs'[r] # runs[r]) => crashes > 0]_vars
  BY FinishedStays
<1> QED
  BY <1>1, Invariance, PTL DEF Spec, FinishedStaysWithoutCrash
LEMMA CancelStands ==
  ASSUME IndInv, Next, NEW r \in Runs, runs[r] = "cancelled", runs'[r] # "cancelled"
  PROVE  \E e \in executing : e.run = r /\ e.aborted /\ e.stage = "artifacts"
<1>1. CASE \E x \in Runs : Start(x)
  BY <1>1 DEF Start, IndInv, TypeOK
<1>2. CASE CancelRun
  BY <1>2 DEF CancelRun, At, IndInv, TypeOK, FrameFits
<1>3. ASSUME NEW j \in Jobs, BeginExecution(j)
      PROVE  FALSE
  <2>1. frame.pc = "idle" /\ jobs[j].state = "leased" /\ jobs[j].run = r
    BY <1>3 DEF BeginExecution, At, IndInv, TypeOK, ClaimedRunIsStartable
  <2> QED BY <2>1 DEF IndInv, JobsNameRuns, Active
<1>4. ASSUME NEW e \in executing, Progress(e)
      PROVE  e.run = r /\ e.aborted /\ e.stage = "artifacts"
  <2>1. runs'[e.run] # "cancelled" /\ e.run = r
    BY <1>4 DEF Progress, AbortSeen, SaveArtifacts, ExecutionEnds, AuditEnds, IndInv, TypeOK
  <2>2. e.aborted
    <3>1. e.aborted \in BOOLEAN
      BY ExecutionRow DEF IndInv, TypeOK
    <3> QED BY <3>1, <2>1 DEF IndInv, ExecutionOwnsRun
  <2>3. CASE AbortSeen(e)
    BY <2>1, <2>3 DEF AbortSeen, IndInv, TypeOK
  <2>4. CASE SaveArtifacts(e)
    BY <2>4 DEF SaveArtifacts
  <2>5. ASSUME NEW status, ExecutionEnds(e, status) \/ AuditEnds(e, status)
        PROVE  e.stage = "artifacts"
    BY <2>2, <2>5 DEF ExecutionEnds, AuditEnds
  <2> QED BY <1>4, <2>1, <2>2, <2>3, <2>4, <2>5 DEF Progress
<1>5. CASE RetryRun
  BY <1>5 DEF RetryRun, IndInv, TypeOK
<1>6. CASE RecoverRuns
  BY <1>6 DEF RecoverRuns
<1>7. CASE UNCHANGED runs
  BY <1>7
<1> QED
  BY <1>1, <1>2, <1>3, <1>4, <1>5, <1>6, <1>7
  DEF Next, Request, Synchronous, Cancel, EnqueueJob, HandlerEnds, CompleteJob, FailJob,
      RecoverJobs, Ready, ResumeRun, WorkerPoll, BackoffEnds, Crash, Restart

\* A cancelled run is brought back by no retry, second job or recovery: only an audit
\* past its last look at the signal overwrites it.
THEOREM CancelIsKept == Spec => CancelLostOnlyToReport
<1>1. IndInv /\ [Next]_vars =>
        [\A r \in Runs : (runs[r] = "cancelled" /\ runs'[r] # "cancelled") =>
             \E e \in executing : e.run = r /\ e.aborted /\ e.stage = "artifacts"]_vars
  BY CancelStands
<1> QED
  BY <1>1, Invariance, PTL DEF Spec, CancelLostOnlyToReport

-----------------------------------------------------------------------------
(* Leases and rows.                                                        *)

\* What a step may do to a row of jobs.
LEMMA JobMoves ==
  ASSUME IndInv, [Next]_vars, NEW k \in Jobs
  PROVE  /\ jobs[k].state # "none" => jobs'[k].state # "none" /\ jobs'[k].run = jobs[k].run
         /\ jobs'[k].state = "leased" =>
               jobs[k].state = "leased" \/ (WorkerPoll /\ k \in starting')
         /\ jobs[k].state = "none" =>
               jobs'[k] = jobs[k] \/ EnqueueJob \/ \E r \in Runs : ResumeRun(r)
<1>1. jobs \in [Jobs -> Job] /\ jobs[k] \in Job
  BY DEF IndInv, TypeOK
<1>2. CASE UNCHANGED jobs
  BY <1>2
<1>3. CASE EnqueueJob \/ \E r \in Runs : ResumeRun(r)
  <2>1. PICK r \in Runs : Enqueue(r)
    BY <1>3 DEF EnqueueJob, At, ResumeRun, IndInv, FrameFits, OnRun
  <2>2. PICK j \in Jobs :
          /\ jobs[j].state = "none"
          /\ jobs' = [jobs EXCEPT ![j] = [state |-> "queued", run |-> r, attempts |-> 0]]
    BY <2>1 DEF Enqueue
  <2>3. jobs'[j].state = "queued" /\ \A i \in Jobs \ {j} : jobs'[i] = jobs[i]
    BY <1>1, <2>2, NewJobRow
  <2> QED BY <1>3, <2>2, <2>3
\* Rows that only change their state.
<1>4. ASSUME NEW s \in JobState \ {"none", "leased"}, jobs[k].state # "none",
             jobs'[k] = [jobs[k] EXCEPT !.state = s]
      PROVE  jobs'[k].state = s /\ jobs'[k].run = jobs[k].run
  BY <1>1, <1>4, JobRow
<1>5. CASE \E r \in Runs : Cancel(r)
  <2>1. jobs'[k] = jobs[k] \/ /\ jobs[k].state # "none"
                              /\ jobs'[k] = [jobs[k] EXCEPT !.state = "cancelled"]
    BY <1>5 DEF Cancel, ActiveJobs, Active
  <2> QED BY <1>4, <2>1 DEF JobState
<1>6. CASE CompleteJob \/ FailJob
  <2>1. jobs'[k] = jobs[k]
        \/ /\ jobs[k].state # "none"
           /\ \E s \in {"succeeded", "dead_letter", "backoff"} :
                 jobs'[k] = [jobs[k] EXCEPT !.state = s]
    BY <1>6 DEF CompleteJob, FailJob, Settle
  <2> QED BY <1>4, <2>1 DEF JobState, Active
<1>7. CASE \E j \in Jobs : BackoffEnds(j)
  <2>1. jobs'[k] = jobs[k] \/ /\ jobs[k].state # "none"
                              /\ jobs'[k] = [jobs[k] EXCEPT !.state = "queued"]
    BY <1>1, <1>7 DEF BackoffEnds, SetState
  <2> QED BY <1>4, <2>1 DEF JobState, Active
<1>8. CASE RecoverJobs
  <2>1. jobs'[k] = jobs[k] \/ /\ jobs[k].state # "none"
                              /\ jobs'[k] = [jobs[k] EXCEPT !.state = "queued"]
    BY <1>8 DEF RecoverJobs
  <2> QED BY <1>4, <2>1 DEF JobState, Active
<1>9. CASE WorkerPoll
  <2>1. PICK S \in SUBSET {j \in Jobs : jobs[j].state = "queued"} :
          /\ starting' = S
          /\ jobs' = [j \in Jobs |->
                        IF j \in S
                        THEN [jobs[j] EXCEPT !.state = "leased",
                                             !.attempts = jobs[j].attempts + 1]
                        ELSE jobs[j]]
    BY <1>9 DEF WorkerPoll
  <2>2. CASE k \in S
    <3>1. jobs'[k].run = jobs[k].run /\ jobs'[k].state = "leased"
      BY <1>1, <2>1, <2>2, ClaimedJobRow
    <3> QED BY <1>9, <2>1, <2>2, <3>1
  <2>3. CASE k \notin S
    BY <2>1, <2>3
  <2> QED BY <2>2, <2>3
<1> QED
  BY <1>2, <1>3, <1>5, <1>6, <1>7, <1>8, <1>9
  DEF Next, Request, Start, Synchronous, CancelRun, BeginExecution, RetryRun, HandlerEnds,
      RecoverRuns, Ready, Progress, AbortSeen, SaveArtifacts, ExecutionEnds, AuditEnds, Returns,
      Crash, Restart, vars

LEMMA LeasedIsInHandStep ==
  ASSUME IndInv, LeasedIsInHand, [Next]_vars
  PROVE  LeasedIsInHand'
<1> SUFFICES ASSUME ~ Recovering', NEW k \in Jobs, jobs'[k].state = "leased"
             PROVE  \/ k \in starting'
                    \/ \E e \in executing' : e.job = k
                    \/ OnJob' /\ frame'.job = k
  BY DEF LeasedIsInHand
<1>1. CASE WorkerPoll /\ k \in starting'
  BY <1>1
<1>2. CASE jobs[k].state = "leased"
  <2>1. frame \in Frame /\ executing \in SUBSET Execution
    BY DEF IndInv, TypeOK
  <2>2. CASE Recovering
    <3>1. CASE Ready
      BY <1>2, <3>1 DEF Ready, At, IndInv, RecoveredSoFar
    <3>2. CASE RecoverRuns \/ RecoverJobs \/ Restart
      <4>1. frame'.pc \in {"recover_runs", "recover_jobs", "resume"}
        BY <3>2 DEF RecoverRuns, RecoverJobs, Restart, NoFrame
      <4> QED BY <4>1 DEF Recovering
    <3>3. CASE UNCHANGED <<up, frame>>
      BY <2>2, <3>3 DEF Recovering
    <3>4. CASE (\E j \in Jobs : BackoffEnds(j)) \/ (\E r \in Runs : ResumeRun(r)) \/ UNCHANGED vars
      BY <3>3, <3>4 DEF BackoffEnds, ResumeRun, vars
    <3>5. CASE Crash
      BY <3>5 DEF Crash, Recovering
    <3>6. /\ ~ (\E e \in executing : Progress(e)) /\ ~ WorkerPoll
          /\ \A r \in Runs : ~ Start(r) /\ ~ Cancel(r)
      BY <2>2 DEF IndInv, FrameFits, Start, Cancel, WorkerPoll, LoopFree, Recovering
    <3>7. /\ ~ EnqueueJob /\ ~ CancelRun /\ \A j \in Jobs : ~ BeginExecution(j)
          /\ ~ RetryRun /\ ~ HandlerEnds /\ ~ CompleteJob /\ ~ FailJob
      BY <2>2 DEF EnqueueJob, CancelRun, BeginExecution, RetryRun, HandlerEnds, CompleteJob,
         FailJob, At, Recovering
    <3> QED
      BY <3>1, <3>2, <3>4, <3>5, <3>6, <3>7 DEF Next, Request, Synchronous
  <2>3. CASE ~ Recovering
    <3>1. \/ k \in starting
          \/ \E e \in executing : e.job = k
          \/ OnJob /\ frame.job = k
      BY <1>2, <2>3 DEF LeasedIsInHand
    <3>2. CASE \E r \in Runs : Cancel(r)
      <4>1. PICK r \in Runs : Cancel(r)
        BY <3>2
      <4>2. PICK e \in executing : e.job = k
        BY <3>1, <4>1 DEF Cancel, LoopFree, OnJob
      <4>3. (IF e.run = r THEN [e EXCEPT !.aborted = TRUE] ELSE e).job = k
        BY <2>1, <4>2, ExecutionRow
      <4> QED BY <4>1, <4>2, <4>3 DEF Cancel
    <3>3. ASSUME NEW j \in Jobs, BeginExecution(j)
          PROVE  \/ k \in starting' \/ \E e \in executing' : e.job = k
      <4> DEFINE new == [run |-> jobs[j].run, job |-> j, stage |-> "plan", aborted |-> FALSE]
      <4>1. /\ frame.pc = "idle" /\ starting' = starting \ {j}
            /\ executing' = executing \cup {new}
        BY <3>3 DEF BeginExecution, At
      <4>3. new.job = j
        OBVIOUS
      <4> HIDE DEF new
      <4>2. CASE k = j
        BY <4>1, <4>2, <4>3
      <4> QED BY <3>1, <4>1, <4>2 DEF OnJob
    <3>4. ASSUME NEW e \in executing, LoopFree, Returns(e)
          PROVE  \/ \E f \in executing' : f.job = k
                 \/ OnJob' /\ frame'.job = k
      BY <3>1, <3>4 DEF Returns, LoopFree, OnJob
    <3>5. ASSUME NEW e \in executing, SaveArtifacts(e)
          PROVE  \E f \in executing' : f.job = k
      <4>1. [e EXCEPT !.stage = "artifacts"].job = e.job
        BY <2>1, ExecutionRow
      <4> QED BY <3>1, <3>5, <4>1 DEF SaveArtifacts, LoopFree, OnJob
    <3>6. CASE RetryRun \/ HandlerEnds
      <4>1. frame'.pc \in {"fail", "complete"} /\ frame'.job = frame.job
        BY <2>1, <3>6 DEF RetryRun, HandlerEnds, Frame
      <4> QED BY <3>1, <3>6, <4>1 DEF RetryRun, HandlerEnds, OnJob, At
    <3>7. CASE CompleteJob \/ FailJob
      <4>1. k # frame.job
        <5>1. PICK s \in {"succeeded", "dead_letter", "backoff"} : Settle(frame.job, s)
          BY <3>7 DEF CompleteJob, FailJob
        <5> QED BY <1>2, <5>1, JobRow DEF Settle, IndInv, TypeOK, JobState, Active
      <4> QED BY <3>1, <3>7, <4>1 DEF CompleteJob, FailJob
    <3>8. CASE \E j \in Jobs : BackoffEnds(j)
      BY <3>1, <3>8 DEF BackoffEnds, OnJob
    <3>9. CASE (\E r \in Runs : Start(r)) \/ EnqueueJob \/ CancelRun
      BY <3>1, <3>9 DEF Start, EnqueueJob, CancelRun, At, LoopFree, OnJob
    <3>10. CASE WorkerPoll
      BY <3>1, <3>10 DEF WorkerPoll, LoopFree, OnJob
    <3>11. CASE UNCHANGED vars
      BY <3>1, <3>11 DEF vars, OnJob
    <3>12. ~ RecoverRuns /\ ~ RecoverJobs /\ ~ Ready /\ ~ Restart /\ ~ Crash
           /\ \A r \in Runs : ~ ResumeRun(r)
      BY <2>3 DEF RecoverRuns, RecoverJobs, Ready, Restart, Crash, ResumeRun, At, Recovering
    <3> QED
      BY <3>2, <3>3, <3>4, <3>5, <3>6, <3>7, <3>8, <3>9, <3>10, <3>11, <3>12
      DEF Next, Request, Synchronous, Progress, AbortSeen, ExecutionEnds, AuditEnds
  <2> QED BY <2>2, <2>3
<1> QED BY <1>1, <1>2, JobMoves

\* No end of a run, abort, retry or restart leaves a job leased that nobody has in hand.
THEOREM NoLeaseIsStranded == Spec => []LeasedIsInHand
<1>1. Init => LeasedIsInHand
  BY DEF Init, LeasedIsInHand, NoRow
<1>2. IndInv /\ LeasedIsInHand /\ [Next]_vars => LeasedIsInHand'
  BY LeasedIsInHandStep
<1> QED BY <1>1, <1>2, Invariance, PTL DEF Spec

-----------------------------------------------------------------------------
(* How often a run is enqueued.                                            *)

\* EnqueuedOncePerCrash, with what is left for the next row.
RowsPaidFor(r) ==
    /\ IsFiniteSet(RowsOf(r))
    /\ Cardinality(RowsOf(r)) <= 1 + crashes
    /\ Recovering /\ ActiveJobs(r) = {} => Cardinality(RowsOf(r)) <= crashes
    /\ frame.pc = "enqueue" /\ frame.run = r => RowsOf(r) = {}

\* Only EnqueueJob and ResumeRun insert a row.
LEMMA RowsSame ==
  ASSUME IndInv, [Next]_vars, NEW r \in Runs,
         ~ EnqueueJob, \A x \in Runs : ~ ResumeRun(x)
  PROVE  RowsOf(r)' = RowsOf(r)
  BY JobMoves DEF RowsOf

LEMMA RowsPaidForStep ==
  ASSUME IndInv, [Next]_vars, NEW r \in Runs, RowsPaidFor(r)
  PROVE  RowsPaidFor(r)'
<1>1. /\ crashes \in Nat /\ jobs \in [Jobs -> Job] /\ frame \in Frame
      /\ Cardinality(RowsOf(r)) \in Nat
  BY FS_CardinalityType, ConstantsAssumption DEF IndInv, TypeOK, RowsPaidFor
<1>2. ASSUME NEW x \in Runs, Enqueue(x), crashes' = crashes,
             frame'.pc # "enqueue", Recovering' => Recovering,
             x = r => Cardinality(RowsOf(r)) <= crashes
      PROVE  RowsPaidFor(r)'
  <2>1. PICK j \in Jobs :
          /\ jobs[j].state = "none"
          /\ jobs' = [jobs EXCEPT ![j] = [state |-> "queued", run |-> x, attempts |-> 0]]
    BY <1>2 DEF Enqueue
  <2>2. /\ jobs'[j].state = "queued" /\ jobs'[j].run = x
        /\ \A k \in Jobs \ {j} : jobs'[k] = jobs[k]
    BY <1>1, <2>1, NewJobRow
  <2>3. CASE x = r
    <3>1. RowsOf(r)' = RowsOf(r) \cup {j} /\ j \notin RowsOf(r)
      BY <2>1, <2>2, <2>3 DEF RowsOf
    <3>2. IsFiniteSet(RowsOf(r)') /\ Cardinality(RowsOf(r)') = Cardinality(RowsOf(r)) + 1
      BY <3>1, FS_AddElement DEF RowsPaidFor
    <3>3. ActiveJobs(r)' # {}
      BY <2>2, <2>3 DEF ActiveJobs, Active
    <3> QED BY <1>1, <1>2, <2>3, <3>2, <3>3 DEF RowsPaidFor
  <2>4. CASE x # r
    <3>1. RowsOf(r)' = RowsOf(r) /\ ActiveJobs(r)' = ActiveJobs(r)
      BY <2>1, <2>2, <2>4 DEF RowsOf, ActiveJobs, Active
    <3> QED BY <1>1, <1>2, <3>1 DEF RowsPaidFor
  <2> QED BY <2>3, <2>4
<1>3. CASE EnqueueJob
  <2>1. /\ frame.run \in Runs /\ Enqueue(frame.run) /\ frame.pc = "enqueue"
        /\ up /\ UNCHANGED <<crashes, up>>
    BY <1>3 DEF EnqueueJob, At, IndInv, FrameFits, OnRun
  <2>2. frame'.pc = "idle"
    BY <1>3, NoFrameRow DEF EnqueueJob
  <2>3. frame.run = r => Cardinality(RowsOf(r)) = 0
    BY <2>1, FS_EmptySet DEF RowsPaidFor
  <2> QED BY <1>1, <1>2, <2>1, <2>2, <2>3 DEF Recovering
<1>4. ASSUME NEW x \in Runs, ResumeRun(x)
      PROVE  RowsPaidFor(r)'
  <2>1. /\ Enqueue(x) /\ ActiveJobs(x) = {} /\ UNCHANGED <<crashes, up, frame>>
        /\ frame.pc = "resume"
    BY <1>4 DEF ResumeRun, At, Jobless
  <2> QED BY <1>2, <2>1 DEF RowsPaidFor, Recovering
<1>5. ASSUME RowsOf(r)' = RowsOf(r), crashes' = crashes,
             Recovering' => Recovering /\ (ActiveJobs(r)' = {} => ActiveJobs(r) = {}),
             frame'.pc # "enqueue" \/ frame' = frame
      PROVE  RowsPaidFor(r)'
  BY <1>5 DEF RowsPaidFor
<1>6. CASE \E x \in Runs : Start(x)
  <2>1. PICK x \in Runs : Start(x)
    BY <1>6
  <2>2. /\ runs[x] = "absent" /\ up /\ frame'.pc = "enqueue" /\ frame'.run = x
        /\ UNCHANGED <<crashes, jobs, up>>
    BY <2>1 DEF Start, LoopFree, NoFrame
  <2>3. x = r => RowsOf(r)' = {}
    BY <2>2 DEF RowsOf, IndInv, JobsNameRuns
  <2>4. RowsOf(r)' = RowsOf(r) /\ ~ Recovering'
    BY <2>2 DEF RowsOf, Recovering
  <2> QED BY <2>2, <2>3, <2>4 DEF RowsPaidFor
<1>7. CASE Crash
  <2>1. RowsOf(r)' = RowsOf(r) /\ crashes' = crashes + 1 /\ frame'.pc = "idle"
    BY <1>7, NoFrameRow DEF Crash, RowsOf
  <2> QED BY <1>1, <2>1 DEF RowsPaidFor
<1>8. ASSUME ~ EnqueueJob, \A x \in Runs : ~ ResumeRun(x)
      PROVE  RowsOf(r)' = RowsOf(r)
  BY <1>8, RowsSame
<1>9. CASE Restart \/ RecoverRuns \/ Ready
  <2>1. /\ UNCHANGED <<jobs, crashes>> /\ Recovering /\ frame'.pc # "enqueue"
    BY <1>9, NoFrameRow DEF Restart, RecoverRuns, Ready, At, Recovering, NoFrame
  <2>2. RowsOf(r)' = RowsOf(r) /\ ActiveJobs(r)' = ActiveJobs(r)
    BY <2>1 DEF RowsOf, ActiveJobs
  <2> QED BY <1>5, <2>1, <2>2
<1>10. CASE RecoverJobs
  <2>1. Recovering /\ crashes' = crashes /\ frame'.pc = "resume" /\ frame.pc = "recover_jobs"
    BY <1>10 DEF RecoverJobs, At, Recovering, NoFrame
  <2>2. RowsOf(r)' = RowsOf(r)
    BY <1>8, <2>1 DEF EnqueueJob, ResumeRun, At
  <2>3. \A j \in Jobs : jobs[j].state \in Active =>
                          jobs'[j].run = jobs[j].run /\ jobs'[j].state \in Active
    BY <1>1, <1>10, JobRow DEF RecoverJobs, Active, JobState
  <2>4. ActiveJobs(r)' = {} => ActiveJobs(r) = {}
    <3>1. \A x : x \in ActiveJobs(r) => x \in ActiveJobs(r)'
      BY <2>3 DEF ActiveJobs
    <3> QED BY <3>1
  <2> QED BY <2>1, <2>2, <2>4 DEF RowsPaidFor
<1>11. ASSUME NEW j \in Jobs, BackoffEnds(j)
       PROVE  RowsPaidFor(r)'
  <2>1. UNCHANGED <<up, crashes, frame>> /\ jobs[j].state = "backoff"
        /\ (LoopFree \/ ~ up)
    BY <1>11 DEF BackoffEnds
  <2>2. RowsOf(r)' = RowsOf(r)
    <3>1. ~ EnqueueJob /\ \A x \in Runs : ~ ResumeRun(x)
      BY <2>1 DEF EnqueueJob, ResumeRun, At, LoopFree
    <3> QED BY <1>8, <3>1
  <2>3. \A i \in Jobs : jobs[i].state \in Active =>
                          jobs'[i].run = jobs[i].run /\ jobs'[i].state \in Active
    BY <1>1, <1>11, JobRow DEF BackoffEnds, SetState, Active, JobState
  <2>4. ActiveJobs(r)' = {} => ActiveJobs(r) = {}
    <3>1. \A x : x \in ActiveJobs(r) => x \in ActiveJobs(r)'
      BY <2>3 DEF ActiveJobs
    <3> QED BY <3>1
  <2>5. Recovering' <=> Recovering
    BY <2>1 DEF Recovering
  <2> QED BY <2>1, <2>2, <2>4, <2>5 DEF RowsPaidFor
<1>12. CASE UNCHANGED vars
  <2>1. RowsOf(r)' = RowsOf(r) /\ ActiveJobs(r)' = ActiveJobs(r)
    BY <1>12 DEF vars, RowsOf, ActiveJobs
  <2> QED BY <1>5, <1>12, <2>1 DEF vars, Recovering
\* The steps of a daemon that serves.
<1>13. ASSUME ~ Recovering, up' = up, crashes' = crashes,
              frame'.pc \in {"idle", "cancel", "returned", "complete", "fail"} \/ frame' = frame,
              ~ EnqueueJob
       PROVE  RowsPaidFor(r)'
  <2>1. ~ Recovering'
    BY <1>13 DEF Recovering
  <2>2. RowsOf(r)' = RowsOf(r)
    BY <1>8, <1>13 DEF ResumeRun, At, Recovering
  <2> QED BY <1>5, <1>13, <2>1, <2>2
<1>14. CASE (\E x \in Runs : Cancel(x)) \/ CancelRun \/ CompleteJob \/ FailJob
  <2>1. /\ ~ Recovering /\ UNCHANGED <<up, crashes>> /\ ~ EnqueueJob
        /\ frame'.pc \in {"idle", "cancel"}
    BY <1>14, NoFrameRow DEF Cancel, CancelRun, CompleteJob, FailJob, EnqueueJob, LoopFree, At,
       Recovering, NoFrame
  <2> QED BY <1>13, <2>1
<1>15. CASE WorkerPoll \/ \E j \in Jobs : BeginExecution(j)
  <2>1. ~ Recovering /\ UNCHANGED <<up, crashes, frame>> /\ ~ EnqueueJob
    BY <1>15 DEF WorkerPoll, BeginExecution, EnqueueJob, LoopFree, At, Recovering
  <2> QED BY <1>13, <2>1
<1>16. CASE RetryRun \/ HandlerEnds
  <2>1. /\ ~ Recovering /\ UNCHANGED <<up, crashes>> /\ ~ EnqueueJob
        /\ frame'.pc \in {"fail", "complete"}
    BY <1>1, <1>16 DEF RetryRun, HandlerEnds, EnqueueJob, At, Recovering, Frame
  <2> QED BY <1>13, <2>1
<1>17. ASSUME NEW e \in executing, Progress(e)
       PROVE  RowsPaidFor(r)'
  <2>1. /\ LoopFree /\ UNCHANGED <<up, crashes>>
        /\ frame'.pc = "returned" \/ frame' = frame
    BY <1>17 DEF Progress, AbortSeen, SaveArtifacts, ExecutionEnds, AuditEnds, Returns
  <2>2. ~ Recovering /\ ~ EnqueueJob
    BY <2>1 DEF LoopFree, Recovering, EnqueueJob, At
  <2> QED BY <1>13, <2>1, <2>2
<1> QED
  BY <1>3, <1>4, <1>6, <1>7, <1>9, <1>10, <1>11, <1>12, <1>14, <1>15, <1>16, <1>17
  DEF Next, Request, Synchronous

\* However often it is cancelled, retried and recovered, a run gets one job when it is
\* started and at most one more for each crash: no retry or request enqueues a second.
THEOREM RunsAreEnqueuedOnce == Spec => []EnqueuedOncePerCrash
<1>1. Init => \A r \in Runs : RowsPaidFor(r)
  <2>1. Init => \A r \in Runs : RowsOf(r) = {} /\ crashes = 0 /\ ~ Recovering
    BY NoFrameRow DEF Init, RowsOf, NoRow, Recovering
  <2>2. IsFiniteSet({}) /\ Cardinality({}) = 0
    BY FS_EmptySet
  <2> QED BY <2>1, <2>2 DEF RowsPaidFor
<1>2. IndInv /\ (\A r \in Runs : RowsPaidFor(r)) /\ [Next]_vars
        => (\A r \in Runs : RowsPaidFor(r))'
  BY RowsPaidForStep
<1>3. (\A r \in Runs : RowsPaidFor(r)) => EnqueuedOncePerCrash
  BY DEF RowsPaidFor, EnqueuedOncePerCrash
<1> QED BY <1>1, <1>2, <1>3, Invariance, PTL DEF Spec
=============================================================================
