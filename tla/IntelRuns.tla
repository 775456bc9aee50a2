------------------------------- MODULE IntelRuns -------------------------------
(***************************************************************************)
(* Runs of the intelligence daemon (Go): the queue in SQLite, the worker   *)
(* goroutines of the jobs manager, cancellation from request handlers, the *)
(* evidence directory a run publishes before its row says so, shutdown,    *)
(* and recovery after a crash.                                             *)
(*                                                                         *)
(* Each store call is one transaction (the pool has one connection) and    *)
(* one action; between two of them any other goroutine may run, and the    *)
(* daemon may die.  A run's artifacts, entities and search documents are   *)
(* written in the transaction that makes it succeeded, so they are that    *)
(* status.  The private spool a worker analyses in, imported datasets and  *)
(* their retention, and progress events are left out.  Errors of SQLite    *)
(* and the file system are actions, bounded by MaxErrors.                  *)
(***************************************************************************)
EXTENDS Naturals, FiniteSets

CONSTANTS
    Runs,           \* rows of runs
    Workers,        \* goroutines of workerLoop
    NoRun,          \* null value
    MaxStops,       \* bound: crashes and shutdowns in one behaviour
    MaxErrors       \* bound: storage and file system errors in one behaviour

ASSUME ConstantsAssumption ==
    /\ NoRun \notin Runs
    /\ MaxStops \in Nat
    /\ MaxErrors \in Nat

VARIABLES
    phase,      \* of the process: down, recover, reconcile, ready, closing
    pending,    \* recovered runs Start has yet to reconcile (volatile)
    runs,       \* runs: status, recovered and not claimed since, cancel_requested
    evidence,   \* runs whose evidence directory is published
    workers,    \* of each goroutine: next step, run, its context cancelled (volatile)
    cancelling, \* Cancel calls between RequestCancel and cancel() (volatile)
    crashes, shutdowns, errors      \* history: how often each happened

vars == <<phase, pending, runs, evidence, workers, cancelling, crashes, shutdowns, errors>>

Terminal == {"succeeded", "failed", "cancelled"}

Status == {"absent", "queued", "running"} \cup Terminal

Run == [status: Status, recovered: BOOLEAN, cancelRequested: BOOLEAN]

\* The next thing a worker goroutine does, in the order of execute.
Pc == {"poll", "announce", "register", "check", "analyze", "verify", "commit",
       "complete", "discard", "conflict", "recheck", "mark_failed", "mark_cancelled", "leave"}

Worker == [pc: Pc, run: Runs \cup {NoRun}, cancelled: BOOLEAN]

IdleWorker == [pc |-> "poll", run |-> NoRun, cancelled |-> FALSE]

Init ==
    /\ phase = "ready"
    /\ pending = {}
    /\ runs = [r \in Runs |-> [status |-> "absent", recovered |-> FALSE,
                               cancelRequested |-> FALSE]]
    /\ evidence = {}
    /\ workers = [w \in Workers |-> IdleWorker]
    /\ cancelling = {}
    /\ crashes = 0
    /\ shutdowns = 0
    /\ errors = 0

\* The HTTP server answers; while closing, only requests that had arrived.
Serving == phase \in {"ready", "closing"}

At(w, pc) == Serving /\ workers[w].pc = pc

GoTo(w, pc) == workers' = [workers EXCEPT ![w].pc = pc]

\* manager.active holds the cancel function of this worker's run.
Registered(w) == workers[w].pc \notin {"poll", "announce", "register"}

HasRun(w) == workers[w].pc # "poll"

\* A storage or file system call fails.
SomeError == errors < MaxErrors /\ errors' = errors + 1

SameDaemon == UNCHANGED <<phase, pending, crashes, shutdowns>>

-----------------------------------------------------------------------------
(* Requests.                                                               *)

\* CreateRun and ReplayRun.
CreateRun(r) ==
    /\ Serving
    /\ runs[r].status = "absent"
    /\ runs' = [runs EXCEPT ![r].status = "queued"]
    /\ UNCHANGED <<evidence, workers, cancelling, errors>>
    /\ SameDaemon

\* RequestCancel: a queued run is cancelled, a running one is asked to stop.  Bound:
\* while closing, a run is not asked again; a second request finds its context
\* cancelled already.
RequestCancel(r) ==
    /\ Serving
    /\ phase = "closing" => ~ runs[r].cancelRequested
    /\ runs[r].status \in {"queued", "running"}
    /\ runs' = [runs EXCEPT ![r].cancelRequested = TRUE,
                            ![r].status = IF @ = "queued" THEN "cancelled" ELSE @]
    /\ cancelling' = cancelling \cup {r}
    /\ UNCHANGED <<evidence, workers, errors>>
    /\ SameDaemon

\* Then Cancel looks the run up among the active ones and cancels its context.
SignalCancel(r) ==
    /\ Serving
    /\ r \in cancelling
    /\ cancelling' = cancelling \ {r}
    /\ workers' = [w \in Workers |->
                     IF Registered(w) /\ workers[w].run = r
                     THEN [workers[w] EXCEPT !.cancelled = TRUE]
                     ELSE workers[w]]
    /\ UNCHANGED <<runs, evidence, errors>>
    /\ SameDaemon

-----------------------------------------------------------------------------
(* The worker goroutines.                                                  *)

\* Mutant: a claim also takes over a run another worker is busy with.
ClaimRunning(w, r) ==
    /\ At(w, "poll")
    /\ phase = "ready"
    /\ runs[r].status \in {"queued", "running"}
    /\ runs' = [runs EXCEPT ![r].status = "running", ![r].recovered = FALSE]
    /\ workers' = [workers EXCEPT ![w] = [pc |-> "announce", run |-> r, cancelled |-> FALSE]]
    /\ UNCHANGED <<evidence, cancelling, errors>>
    /\ SameDaemon

\* The UPDATE of ClaimNextRun.  The oldest run is claimed; any queued one here.
Claim(w, r) ==
    /\ At(w, "poll")
    /\ phase = "ready"
    /\ runs[r].status = "queued"
    /\ runs' = [runs EXCEPT ![r].status = "running", ![r].recovered = FALSE]
    /\ workers' = [workers EXCEPT ![w] = [pc |-> "announce", run |-> r, cancelled |-> FALSE]]
    /\ UNCHANGED <<evidence, cancelling, errors>>
    /\ SameDaemon

\* The rest of ClaimNextRun, outside that transaction: the event and the row.
Announce(w) ==
    /\ At(w, "announce")
    /\ phase = "ready"
    /\ GoTo(w, "register")
    /\ UNCHANGED <<runs, evidence, cancelling, errors>>
    /\ SameDaemon

\* When it fails, or shutdown has cancelled its context, the loop polls on.
AnnounceFails(w) ==
    /\ At(w, "announce")
    /\ \/ phase = "ready" /\ SomeError
       \/ phase = "closing" /\ UNCHANGED errors
    /\ workers' = [workers EXCEPT ![w] = IdleWorker]
    /\ UNCHANGED <<runs, evidence, cancelling>>
    /\ SameDaemon

\* Mutant: the cancel flag is not read again once the run is registered.
RegisterOnly(w) ==
    /\ At(w, "register")
    /\ workers' = [workers EXCEPT ![w].pc = "analyze",
                                  ![w].cancelled = (phase = "closing")]
    /\ UNCHANGED <<runs, evidence, cancelling, errors>>
    /\ SameDaemon

\* execute: the run's context joins manager.active, under the manager's own.
Register(w) ==
    /\ At(w, "register")
    /\ workers' = [workers EXCEPT ![w].pc = "check",
                                  ![w].cancelled = (phase = "closing")]
    /\ UNCHANGED <<runs, evidence, cancelling, errors>>
    /\ SameDaemon

\* cancel_requested as GetRun returns it; an error passes for no request.
CancelSeen(r, seen) ==
    \/ seen = runs[r].cancelRequested /\ UNCHANGED errors
    \/ ~ seen /\ SomeError

\* Only then is the flag read: a request too early to find the context is found.
CheckCancel(w) ==
    /\ At(w, "check")
    /\ \E seen \in BOOLEAN :
          /\ CancelSeen(workers[w].run, seen)
          /\ workers' = [workers EXCEPT ![w].pc = "analyze", ![w].cancelled = @ \/ seen]
    /\ UNCHANGED <<runs, evidence, cancelling>>
    /\ SameDaemon

\* Preparing the spool and Analyze: the worker's result, a failure, or the end of
\* a cancelled context.  A result may still arrive after the cancellation.
AnalyzeEnds(w) ==
    /\ At(w, "analyze")
    /\ \/ GoTo(w, "verify")
       \/ GoTo(w, "mark_failed")
       \/ workers[w].cancelled /\ GoTo(w, "mark_cancelled")
    /\ UNCHANGED <<runs, evidence, cancelling, errors>>
    /\ SameDaemon

\* The result is checked and the cancel flag read once more.
Verify(w) ==
    /\ At(w, "verify")
    /\ \/ GoTo(w, "mark_failed") /\ UNCHANGED errors
       \/ \E seen \in BOOLEAN :
             /\ CancelSeen(workers[w].run, seen)
             /\ GoTo(w, IF seen THEN "mark_cancelled" ELSE "commit")
    /\ UNCHANGED <<runs, evidence, cancelling>>
    /\ SameDaemon

\* CommitEvidence: the staged files are validated, the directory is not there
\* yet, and one rename publishes it.
Commit(w) ==
    LET r == workers[w].run IN
    /\ At(w, "commit")
    /\ \/ /\ r \notin evidence
          /\ evidence' = evidence \cup {r}
          /\ GoTo(w, "complete")
       \/ /\ UNCHANGED evidence
          /\ GoTo(w, "mark_failed")
    /\ UNCHANGED <<runs, cancelling, errors>>
    /\ SameDaemon

\* Its last step, syncing the parent directory, fails: published all the same.
CommitSyncFails(w) ==
    /\ At(w, "commit")
    /\ workers[w].run \notin evidence
    /\ SomeError
    /\ evidence' = evidence \cup {workers[w].run}
    /\ GoTo(w, "mark_failed")
    /\ UNCHANGED <<runs, cancelling>>
    /\ SameDaemon

\* Mutant: completeRun does not look at cancel_requested.
CompleteAnyway(w) ==
    /\ At(w, "complete")
    /\ runs[workers[w].run].status = "running"
    /\ runs' = [runs EXCEPT ![workers[w].run].status = "succeeded"]
    /\ GoTo(w, "leave")
    /\ UNCHANGED <<evidence, cancelling, errors>>
    /\ SameDaemon

\* completeRun: the report's rows and the status, unless a cancel came first.
Complete(w) ==
    LET r == workers[w].run
        completes == runs[r].status = "running" /\ ~ runs[r].cancelRequested
    IN  /\ At(w, "complete")
        /\ runs' = IF completes THEN [runs EXCEPT ![r].status = "succeeded"] ELSE runs
        /\ GoTo(w, IF completes THEN "leave" ELSE "conflict")
        /\ UNCHANGED <<evidence, cancelling, errors>>
        /\ SameDaemon

CompleteFails(w) ==
    /\ At(w, "complete")
    /\ SomeError
    /\ GoTo(w, "discard")
    /\ UNCHANGED <<runs, evidence, cancelling>>
    /\ SameDaemon

\* What follows the removal of the evidence.
AfterDiscard(w) == GoTo(w, IF workers[w].pc = "conflict" THEN "recheck" ELSE "mark_failed")

\* Mutant: the published directory stays behind.
KeepEvidence(w) ==
    /\ At(w, "discard") \/ At(w, "conflict")
    /\ AfterDiscard(w)
    /\ UNCHANGED <<runs, evidence, cancelling, errors>>
    /\ SameDaemon

\* The published evidence is removed again; a failure to remove it is ignored.
Discard(w) ==
    /\ At(w, "discard") \/ At(w, "conflict")
    /\ \/ evidence' = evidence \ {workers[w].run} /\ UNCHANGED errors
       \/ UNCHANGED evidence /\ SomeError
    /\ AfterDiscard(w)
    /\ UNCHANGED <<runs, cancelling>>
    /\ SameDaemon

\* After a conflict the flag tells a cancelled run from one that failed.
Recheck(w) ==
    /\ At(w, "recheck")
    /\ \E seen \in BOOLEAN :
          /\ CancelSeen(workers[w].run, seen)
          /\ GoTo(w, IF seen THEN "mark_cancelled" ELSE "mark_failed")
    /\ UNCHANGED <<runs, evidence, cancelling>>
    /\ SameDaemon

\* finish, for MarkFailed and MarkCancelled; its error is ignored.
Finish(w, status) ==
    LET r == workers[w].run IN
    \/ /\ runs' = IF runs[r].status = "running"
                  THEN [runs EXCEPT ![r].status = status] ELSE runs
       /\ UNCHANGED errors
    \/ UNCHANGED runs /\ SomeError

Mark(w) ==
    /\ \/ At(w, "mark_failed") /\ Finish(w, "failed")
       \/ At(w, "mark_cancelled") /\ Finish(w, "cancelled")
    /\ GoTo(w, "leave")
    /\ UNCHANGED <<evidence, cancelling>>
    /\ SameDaemon

\* Mutant: the deferred clean-up takes the published directory along.
LeaveCleanly(w) ==
    /\ At(w, "leave")
    /\ evidence' = evidence \ {workers[w].run}
    /\ workers' = [workers EXCEPT ![w] = IdleWorker]
    /\ UNCHANGED <<runs, cancelling, errors>>
    /\ SameDaemon

\* execute's deferred calls: the run leaves manager.active.
Leave(w) ==
    /\ At(w, "leave")
    /\ workers' = [workers EXCEPT ![w] = IdleWorker]
    /\ UNCHANGED <<runs, evidence, cancelling, errors>>
    /\ SameDaemon

-----------------------------------------------------------------------------
(* The process: shutdown, crash, and Start.                                *)

\* A signal cancels the root context, and with it every run's.
Shutdown ==
    /\ phase = "ready"
    /\ crashes + shutdowns < MaxStops
    /\ shutdowns' = shutdowns + 1
    /\ phase' = "closing"
    /\ workers' = [w \in Workers |-> [workers[w] EXCEPT !.cancelled = Registered(w)]]
    /\ UNCHANGED <<pending, runs, evidence, cancelling, crashes, errors>>

\* The handlers have answered and manager.Close has waited for the workers.
Exit ==
    /\ phase = "closing"
    /\ \A w \in Workers : ~ HasRun(w)
    /\ cancelling = {}
    /\ phase' = "down"
    /\ UNCHANGED <<pending, runs, evidence, workers, cancelling, crashes, shutdowns, errors>>

Crash ==
    /\ phase # "down"
    /\ crashes + shutdowns < MaxStops
    /\ crashes' = crashes + 1
    /\ phase' = "down"
    /\ pending' = {}
    /\ workers' = [w \in Workers |-> IdleWorker]
    /\ cancelling' = {}
    /\ UNCHANGED <<runs, evidence, shutdowns, errors>>

Launch ==
    /\ phase = "down"
    /\ phase' = "recover"
    /\ UNCHANGED <<pending, runs, evidence, workers, cancelling, crashes, shutdowns, errors>>

Interrupted == {r \in Runs : runs[r].status = "running"}

\* Mutant: recovery requeues a run that was asked to stop.
RecoverAsQueued(r) ==
    /\ phase = "recover"
    /\ r \in Interrupted
    /\ runs' = [runs EXCEPT ![r].status = "queued", ![r].recovered = TRUE]
    /\ UNCHANGED <<phase, pending, evidence, workers, cancelling, crashes, shutdowns, errors>>

\* Mutant: recovery cancels what it finds running.
RecoverAsCancelled(r) ==
    /\ phase = "recover"
    /\ r \in Interrupted
    /\ runs' = [runs EXCEPT ![r].status = "cancelled"]
    /\ UNCHANGED <<phase, pending, evidence, workers, cancelling, crashes, shutdowns, errors>>

\* RecoverInterruptedRuns, one transaction for each run.
RecoverRun(r) ==
    /\ phase = "recover"
    /\ r \in Interrupted
    /\ runs' = [runs EXCEPT
                  ![r] = IF @.cancelRequested
                         THEN [@ EXCEPT !.status = "cancelled"]
                         ELSE [@ EXCEPT !.status = "queued", !.recovered = TRUE]]
    /\ UNCHANGED <<phase, pending, evidence, workers, cancelling, crashes, shutdowns, errors>>

\* ListRecoveredRuns, at the head of reconcileRecoveredRuns.
ListRecovered ==
    /\ phase = "recover"
    /\ Interrupted = {}
    /\ phase' = "reconcile"
    /\ pending' = {r \in Runs : runs[r].status = "queued" /\ runs[r].recovered}
    /\ UNCHANGED <<runs, evidence, workers, cancelling, crashes, shutdowns, errors>>

\* Mutant: every recovered run goes back to the workers.
ReconcileNothing(r) ==
    /\ phase = "reconcile"
    /\ r \in pending
    /\ pending' = pending \ {r}
    /\ UNCHANGED <<phase, runs, evidence, workers, cancelling, crashes, shutdowns, errors>>

\* A run whose evidence was published is completed, or failed when the evidence
\* does not stand up to its manifest; without evidence it will be retried.  A run
\* whose directory cannot be inspected is failed.
Reconcile(r) ==
    /\ phase = "reconcile"
    /\ r \in pending
    /\ pending' = pending \ {r}
    /\ \/ /\ r \in evidence
          /\ \E status \in {"succeeded", "failed"} :
                runs' = [runs EXCEPT ![r].status = status]
          /\ UNCHANGED errors
       \/ r \notin evidence /\ UNCHANGED <<runs, errors>>
       \/ SomeError /\ runs' = [runs EXCEPT ![r].status = "failed"]
    /\ UNCHANGED <<phase, evidence, workers, cancelling, crashes, shutdowns>>

\* The worker loops and the HTTP server start.
Ready ==
    /\ phase = "reconcile"
    /\ pending = {}
    /\ phase' = "ready"
    /\ UNCHANGED <<pending, runs, evidence, workers, cancelling, crashes, shutdowns, errors>>

-----------------------------------------------------------------------------

Request == \E r \in Runs : CreateRun(r) \/ RequestCancel(r)

\* What a goroutine that has a run does next.
Step(w) ==
    \/ Announce(w) \/ AnnounceFails(w) \/ Register(w) \/ CheckCancel(w)
    \/ AnalyzeEnds(w) \/ Verify(w)
    \/ Commit(w) \/ CommitSyncFails(w)
    \/ Complete(w) \/ CompleteFails(w)
    \/ Discard(w) \/ Recheck(w) \/ Mark(w) \/ Leave(w)

Startup ==
    \/ Launch \/ ListRecovered \/ Ready
    \/ \E r \in Runs : RecoverRun(r) \/ Reconcile(r)

Next ==
    \/ Request
    \/ \E r \in Runs : SignalCancel(r)
    \/ \E w \in Workers, r \in Runs : Claim(w, r)
    \/ \E w \in Workers : Step(w)
    \/ Startup
    \/ Shutdown \/ Exit \/ Crash

(***************************************************************************)
(* Fairness.  The Go scheduler runs every goroutine that can run.  Nothing *)
(* bounds an analysis: the Python worker has no deadline, and only its     *)
(* cancelled context kills it.  Nor is a queued run owed a worker.  A      *)
(* server shutting down has a finite number of requests to answer, so it   *)
(* exits.  That a dead daemon is started again is assumed of the desktop   *)
(* shell.                                                                  *)
(***************************************************************************)
Bounded(w) == workers[w].pc = "analyze" => workers[w].cancelled

Fairness ==
    /\ \A w \in Workers : WF_vars(Step(w) /\ Bounded(w))
    /\ \A r \in Runs : WF_vars(SignalCancel(r))
    /\ WF_vars(Startup)
    /\ WF_vars(Exit)

Spec == Init /\ [][Next]_vars
FairSpec == Spec /\ Fairness

-----------------------------------------------------------------------------
(* Properties.                                                             *)

\* Every variable holds a phase, row or goroutine of the declared shape.
TypeOK ==
    /\ phase \in {"down", "recover", "reconcile", "ready", "closing"}
    /\ pending \in SUBSET Runs
    /\ runs \in [Runs -> Run]
    /\ evidence \in SUBSET Runs
    /\ workers \in [Workers -> Worker]
    /\ cancelling \in SUBSET Runs
    /\ crashes \in Nat /\ shutdowns \in Nat /\ errors \in Nat

\* A run that shows a report has its evidence on disk, whatever crash, error or
\* late cancellation came between publishing the one and committing the other.
ReportHasEvidence ==
    \A r \in Runs : runs[r].status = "succeeded" => r \in evidence

\* Without crashes and errors the converse: a run closed without a report leaves
\* nothing published behind.
NoOrphanEvidence ==
    crashes + errors = 0 =>
        \A r \in Runs : runs[r].status \in {"failed", "cancelled"} /\ r \in evidence
                          => \E w \in Workers : HasRun(w) /\ workers[w].run = r

\* A run shown as running by a serving daemon is in one worker's hands, never in two,
\* and in nobody's only after a storage error: manager.go:422 has a later poll retry a
\* claim that failed, but the claim had committed before its event failed.
RunningHasOneWorker ==
    \A r \in Runs :
        LET hands == {w \in Workers : HasRun(w) /\ workers[w].run = r} IN
        /\ Cardinality(hands) <= 1
        /\ (phase = "ready" /\ runs[r].status = "running") => hands # {} \/ errors > 0

\* Once Cancel has returned, the analysis of the run has a cancelled context: the
\* request is not lost between the flag, the active map and the claim, unless
\* reading the flag fails.
CancelReachesAnalysis ==
    \A w \in Workers :
        LET r == workers[w].run IN
        (workers[w].pc = "analyze" /\ runs[r].cancelRequested /\ r \notin cancelling)
            => workers[w].cancelled \/ errors > 0

\* A run waiting for a worker has no published evidence: CommitEvidence refuses a
\* directory that exists, so the retry of a recovered run would fail for ever.
RetryStartsClean ==
    \A r \in Runs : Serving /\ runs[r].status = "queued" => r \notin evidence

\* A run ends as cancelled only when somebody asked, or when the daemon was shut
\* down under it; a crash never cancels one.
CancelledForCause ==
    \A r \in Runs :
        runs[r].status = "cancelled" => runs[r].cancelRequested \/ shutdowns > 0

\* A run asked to stop comes to an end, though its analysis hang and the daemon
\* die and be started again, as long as no storage call fails.
CancelledRunEnds ==
    \A r \in Runs :
        runs[r].cancelRequested ~> runs[r].status \in Terminal \/ errors > 0

\* The client's view of a run.
StandingOf(r) ==
    CASE runs[r].status = "absent"            -> "new"
      [] runs[r].status = "succeeded"         -> "reported"
      [] runs[r].status \in {"failed", "cancelled"} -> runs[r].status
      [] OTHER -> IF runs[r].cancelRequested THEN "stopping" ELSE "open"

Standing == [r \in Runs |-> StandingOf(r)]

Promise == INSTANCE IntelPromise WITH Requests <- Runs, standing <- Standing

\* Every step of the daemon is a step of the promise or hidden from it, through
\* crashes, shutdowns, errors and recovery: no report after an accepted cancel, no
\* second end.
ImplementsPromise == Promise!Spec
=============================================================================
