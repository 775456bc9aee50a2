# Verification of Marketingovo

TLA+ models of the local-first marketing system in this repository, the TLC
runs that check them on small instances, and TLAPS proofs of what matters most.
Paths are relative to the repository root; `DB` is
`packages/storage-sqlite/src/database.ts`, `IDX` is
`packages/runtime/src/index.ts`, `intel` is `services/intel-daemon/internal`.

## 1. The system

Marketingovo is a daemon on one person's computer. A Node process (the
*runtime*) owns a SQLite file, runs marketing workflows, keeps a content
calendar and sends approved posts to social platforms. A Go process (the
*intelligence daemon*) owns a second SQLite file and a directory of evidence
and runs data analyses in Python child processes. Dashboards, a command line,
an MCP server and agents are clients over HTTP. What must survive the process
is a row in SQLite, and work is a row of a queue.

| Component | State | Operations | Talks to | What is hard |
|---|---|---|---|---|
| Publishing: `packages/runtime/src/publishing.ts`, `IDX` 4897-5201, `DB` 3939-4295 | `publish_intents`, `publish_records`, `publish.intent` jobs, calls in flight | stage, schedule, approve, withdraw, publishNow, the job's attempt | job worker (jobs), provider (one HTTP call), operator (requests) | a crash around the one call that cannot be undone; jobs left over from earlier approvals; statements that commit one by one |
| Runs and jobs: `IDX` 3300-3530, 6205-6300, 7441-7872, `packages/runtime/src/durable-work.ts`, `DB` 4847-5031, 5725 | `runs`, `jobs`, the `controllers` map | start, replay, cancel, claim, execute, complete, fail, recover, resume | executor (await), worker, server | cancel racing every await; retry and recovery both requeueing; crash between two rows |
| Agent terminal sessions: `packages/server/src/agent-session.ts` | sessions in memory: queue of turns, seat and lease, parked polls | say, cancel, attach, wait, emit, detach, delete | dashboard and agents (HTTP), no other component | who is woken; a lapsed or vacated seat with polls still parked; a lease looked at lazily |
| Intelligence daemon: `intel/jobs/manager.go`, `intel/storage`, `intel/governance` | `runs` rows, evidence directories, the `active` map, goroutines | create, cancel, claim, execute, publish evidence, complete, shut down, recover, reconcile | Python worker (process), HTTP handlers | goroutines interleaving at every statement; files and rows that must agree across a crash |
| Scheduler: `durable-work.ts` 107-210, `cron.ts` | `schedules` with lease and next run | claim due, start the run, advance, release | runs | missed occurrences, a start that keeps failing |
| Project deletion: `IDX` 7225-7439 | staging directories, manifest, all rows of a project | stage, delete, roll back, recover | runs, files | two-phase removal over files and rows |
| Credentials: `packages/credentials`, `IDX` 6346-6397 | OS vault, `integrations.secret_ref` | put, replace with rollback, delete | vault, providers | two stores without a transaction |
| Workflow executor: `packages/application/src/executor.ts` | plan, layers, a bounded pool (in memory) | validate, execute, cancel | runs, modules | abort between layers, degraded modules |
| Storage: `packages/storage-sqlite` | one SQLite file, migrations, backups | about 300 statements | everything | each statement commits alone unless wrapped |
| Local server: `packages/server/src/index.ts` | HTTP sessions, event streams | REST, SSE, OAuth callbacks | runtime | streams that outlive what they watch |
| Command line and daemon lease: `packages/cli/src`, `packages/legacy-import` | `daemon_lease` row, service files | serve, offline commands, migrate | server, storage | several processes, one data directory; a start that fails half way; a command that takes no lease |
| Integrations: `packages/integrations/src` | tokens, retry counters | fetch with retries, OAuth, media relay | providers | timeouts, rate limits |
| Crawler and checks: `packages/core/src` | frontier, pages (in memory) | crawl, parse, check | executor | large, mostly pure |
| Contracts, SDK, MCP, OpenClaw, dashboard, desktop, docs | none of their own | translation and display | API | little |
| Intelligence daemon's API, policy, connectors, datasets | datasets, tokens | HTTP, imports, retention | run queue | retention while an analysis runs |
| Analysis worker (Python) | none | one analysis per process | intelligence daemon | may hang |

What makes the hard ones correct, in one sentence each:

- publishing: a post goes out at most once, only under a standing approval, and
  what is shown of it agrees with the evidence of the send;
- runs: a run is executed by one job, is never left running or queued with
  nobody to finish it, and ends in one status;
- sessions: a turn typed goes to one agent, once, in order, and nobody sleeps
  on it;
- intelligence runs: a report has its evidence on disk, a closed run leaves
  none, and a cancellation that was accepted is never followed by a report;
- scheduler: a run starts only for what its schedule says at that moment, and no
  occurrence is skipped;
- deletion: after any crash or failed call a project that exists can be made
  whole, and health says so when it is not;
- credentials: the row names a secret the vault has;
- executor: results are those the plan means, whatever order its modules ended
  in, and nothing is taken after an abort;
- daemon lease: one owner of the database, and no second scheduler while every
  start succeeds.

`PROJECT.json` lists every component with the reason where it is left out, and
the hazards, each at its line, with the properties that cover it.

## 2. The modules

| Module | What it is |
|---|---|
| `PublishPipeline` | the publishing path, one action per SQL statement or request |
| `PublishConsent` | what it promises an operator: draft, consented, sent, closed |
| `RuntimeRuns` | runs, their jobs, the worker, cancellation, retry, recovery |
| `AgentSession` | one terminal session |
| `IntelRuns` | the Go run queue, goroutines, evidence and recovery |
| `IntelPromise` | what it promises a client of each run |
| `ProjectDeletion` | staging, the transaction, rollback, recovery, and the runs that write meanwhile |
| `Scheduler` | schedules, leases and the schedulers of any number of daemons |
| `DaemonLease` | the lease row of a data directory, the commands that contend for it and those that do not ask |
| `DataDirectory` | the composition of the two: each serve runs a scheduler, each migrate adds schedules |
| `PlanExecutor` | layers, the bounded pool and abort, with a reference definition of a plan's results |
| `*Proofs` | the theorems about the module they are named after |
| `MC*` | instances for TLC: symmetry where it is sound |

### How the TypeScript daemon is modelled

The daemon is one JavaScript thread, so code between two awaits is not
interleaved with other code. It is not atomic either: each SQL statement is its
own transaction unless the code opens one, and the process may die between two.
`PublishPipeline`, `RuntimeRuns` and `ProjectDeletion` have a variable `frame`,
the synchronous call under way and its next statement. While `frame` is busy no
other call starts (`LoopFree`); `Crash` is enabled at every statement. A batch
of jobs the worker has claimed stands in `starting`: `Promise.all(jobs.map(execute))`
calls each handler up to its first await before the event loop turns, and other
requests wait. What awaits stands in a set (`inflight`, `executing`) and
continues when its reply comes. `frame`, `starting` and those sets are lost in a
crash; rows and files stay.

**PublishPipeline.** `intents`, `records` and `jobs` are the rows, with the
columns that decide something. `Approve`, `MintKey`, `EnqueueJob` are the three
statements of approve. `WorkerPoll` is `claimJobs` (oldest due first, at most
`Concurrency`). `SkipAttempt`, `RefuseAttempt`, `ClaimIntent`, `BeginRecord`,
`CallProvider` are the statements of `runPublishAttempt` up to its await in the
order the code has them, `ProviderAnswers` one of the provider's answers (or a
thrown error), `SettleRecord`, `SettleIntent`, `FinishAttempt` what follows it.
`Restart` is `recoverInterruptedRuns`, which requeues leased jobs due at once.
`sent` and a job's `slot` are history.

**RuntimeRuns.** `Start`/`EnqueueJob` are the two statements of runs.start and
replay; `Cancel`/`CancelRun` those of cancel. `BeginExecution` is the handler
and `executeRun` to the first await; `SaveArtifacts` leads to the second await
an audit has; `ExecutionEnds`, `AuditEnds`, `AbortSeen` end it.
`RetryRun`/`HandlerEnds` are the handler's reading of the run's status and
`CompleteJob`/`FailJob` the worker's settlement. `RecoverRuns`, `RecoverJobs`,
`ResumeRun`, `Ready` are the constructor. Two early returns of the handler (a
cancelled run, one already executing) are not actions: `ClaimedRunIsStartable`
and `JobsNameRuns`, parts of the proved invariant, show they cannot be reached.

**AgentSession.** A route runs in one turn of the event loop and nothing is
persisted, so an action is a whole request. The clock is reduced to `overdue`:
a lease lasts 90 s and is renewed by each poll, which is parked 25 s at most,
so the lease of an agent with a parked poll has not run out. `Presence` is every
request that looks at the lease; speaking renews a lease that has not lapsed and
changes nothing else. `handed` is history.

**IntelRuns.** `workers[w].pc` is the next statement of a worker goroutine in
`execute`; each store call is a transaction and one action, and any goroutine,
request handler, `Shutdown` or `Crash` may come between. `RequestCancel` and
`SignalCancel` are the two halves of Cancel: the flag in the row, then the
`active` map. Evidence is a set of run ids: a directory is published by one
rename (`Commit`) before the row says succeeded (`Complete`), and removed again
when the row refuses (`Discard`). `Launch`, `RecoverRun`, `ListRecovered`,
`Reconcile`, `Ready` are start-up. Storage errors are actions, `MaxErrors` of
them.

**ProjectDeletion.** `live` is what stands at each location of the data
directory (a run's artifacts, the project's own directories), `stagings` what
each `.deletion-staging/<id>` holds and how far its manifest has come. `Request`
lists and cancels the runs; `StopWaiting`/`GiveUp` end the wait of five seconds;
from there to the return the call stands in `frame`: `MakeStaging`,
`WriteManifest`, `PublishManifest`, a rename per location (`StageFiles`),
`DeleteRows` (one transaction with its cascade), the removal of the staging
directory entry by entry. `StepFails` and the other `Fault` actions are a call
that throws; `PutBack`, `RolledBack` are the rollback, which keeps going past an
error. `Restart`, `ReadEntry`, `RestoreFiles`, `Ready` are
`recoverDeletionStaging` in the next daemon's constructor. Runs are there for
the directories they make: `EngineLoads`, `SaveArtifacts`. `held` (locations that
were given data) and `missed` (runs the cascade deleted unlisted) are history.

**Scheduler.** A batch is claimed in one transaction (`Poll`) and worked off
synchronously: `StartRun` under the occurrence's idempotency key or
`StartRefused`, then `Advance` or `Release`, each of which changes the row only
while the lease is still the daemon's. `Create`, `Update`, `Remove` are the
requests, which check a cron and a time zone; `Import` is what `migrate` adds,
unchecked, without asking the daemon. `NoOccurrence` is a cron that gives no next
instant once the run is started: the row is released and stays due. A website may
come and go, so a start that may be refused is not always refused. Occurrences
are numbered by the instant they fall due; the lease's 90 s are `LeaseLapses`, at
any time. The module takes any number of daemons, so that its theorems can say
what needs there to be one.

**DaemonLease, DataDirectory.** A command is `inspect`ing, `owner`, `starting`
(the runtime is built), `writing` or `closed`. `Acquire` and `Held` are the two
outcomes of the one transaction, which asks the system whether the recorded PID
lives; PIDs are handed on to other commands and to other programs
(`OtherProgram`). `BeatLost` is the heartbeat that closes the lease's handle while
its daemon serves on. A start fails in two ways: when `listen` does, the server is
closed first (`Close`); when `createLocalServer` throws, nothing closes the runtime
and the lease is released (`StartFails`), which leaves a `stray`: a process without
a lease whose database is open and whose scheduler is up for as long as something,
such as a run it resumed, keeps it. `Migrate` has the database open without ever
asking for the lease. `failed` is history. In `DataDirectory` `Serve` builds the
runtime and brings its scheduler up in one step, `Shutdown` and `Crash` take it
down, a stray's scheduler works on, requests need a serving daemon, and everything
else is a step of one of the two with the other unchanged.

**PlanExecutor.** What a module would do when it is reached is its `fate`, chosen
in `Init` together with the plan's edges, so that `Meant` can define a plan's
results without an order: through `Needs`, the least set closed under
`dependsOn`, not through recursion. `PlanLayer`, `Reject`, `Queue` are
`planLayers` and `validatePlan`; `Take`, `Checked`, `Returns` are a lane's three
stretches between awaits.

### Which modules compose

`DataDirectory` composes the lease with the schedulers behind it and is shown to
implement `Scheduler` with one daemon until a start fails. `PublishConsent` and `IntelPromise` are
the abstract specifications of publishing and of the intelligence daemon.
`ProjectDeletion` carries the part of a run's life that makes directories; the
rest of it is `RuntimeRuns`, and the run a schedule starts is a run of
`RuntimeRuns` too. Those two compositions are not checked: what they share is
one statement (`runs.start`, `runs.cancel`) that each side models.

## 3. What is checked

All passing runs finish the whole reachable state space of their instance.

| Run | Instance | Properties | What it shows |
|---|---|---|---|
| `publish_one_post` | one post, two approvals, a slot ahead, an earlier post of the account published or not, a ceiling of one a day, batch of 2, two crashes, fair (218 k states) | `AtMostOneSend`, `OutcomeMatchesEvidence`, `NoSendOnceCeilingKnown`, `ImplementsConsent`, `JobNeverBeforeItsSlot`, `QueuedPostIsServed`, `LeasedJobEnds` | sent at most once; the shown outcome agrees with the record; nothing sent once the ceiling is known to be reached; the pipeline implements `PublishConsent`; no job sends before its slot; a queued post is served and each leased job ends |
| `runs` | one run, two attempts, three job rows, two crashes, fair (2.5 k states) | `OneActiveJob`, `RunningIsExecuted`, `QueuedHasJob`, `SettledJobSettlesRun`, `AttemptsBounded`, `FinishedStaysWithoutCrash`, `CancelLostOnlyToReport`, `QueuedRunEnds` | one job per run; running means executed; queued means a job exists; a settled job leaves its run over; only crashes buy attempts; a finished run is left alone when nothing crashed; a cancellation is overwritten by a report being saved and by nothing else; a run nobody cancels ends |
| `agent_session` | four turns, three agent ids, three parked polls, fair (22 k states) | `NobodySleepsOnATurn`, `NoTurnLostOrOvertaken`, `HandedOnce`, `TurnIsCollected` | no poll sleeps on a turn; none lost, overtaken or given twice; each is collected |
| `intel_runs` | two runs, two workers, two crashes or shutdowns, one error, fair (194 k states) | `ReportHasEvidence`, `NoOrphanEvidence`, `RunningHasOneWorker`, `CancelReachesAnalysis`, `RetryStartsClean`, `CancelledForCause`, `ImplementsPromise`, `CancelledRunEnds` | evidence and rows agree; a running run has one worker unless a storage call failed; a cancel reaches the analysis; retries start clean; cancelled for a cause; the daemon implements `IntelPromise`; a run asked to stop ends |
| `project_deletion` | two runs, two calls, two crashes, two failed calls (2.03 M states) | `NothingLost`, `HealthTellsTruth`, `OnlyMissedRunsRemain` | a file of a project that exists is in place or where recovery looks for it; health shows a cleanup pending whenever one is; of a deleted project only runs it never listed have files |
| `scheduler` | three schedules, one refused at times and without a next occurrence, some yet to be created, batch of 2, two ends, one request or import, fair (145 k states) | `StartsWhatStands`, `NoneSkipped`, `DueFires` | a run starts only for what its row says; a schedule goes on only once its occurrence has its run; a due occurrence fires |
| `data_directory` | three commands, two PIDs, failed starts and imports, one schedule, one request or import (307 k states up to symmetry) | `OneOwner`, `OwnerIsRecorded`, `OneUntilAStartFails` | of two commands with the database open one is an import or what a failed start left; the row names the holder; until a start fails the directory's schedules are one scheduler's |
| `plan_executor` | every plan of three nodes with every fate, two lanes, an abort anywhere, fair (234 k states) | `NeedsComeFirst`, `ResultsAsMeant`, `AbortDiscards`, `PlanEnds` | what a node needs succeeded before it runs; results are the meant ones in any order; nothing is taken after an abort; the plan ends |

**Bounds.** Two runs or two workers are what a race needs: every property relates
at most two of them. Of the posts TLC moves one, which two of its own jobs and
requests already race for; another post meets it only in the daily count, and
there as an earlier one that is settled. Any number of posts moving at once is
left to the proofs, which cover all five safety properties. Two crashes let recovery be interrupted
and repeated; a second approval leaves a job of the first in the queue. In
`runs` three job rows suffice, since the run has one and a crash costs it at
most one more, so no `Enqueue` ever finds the table full; two attempts give a
retry and a last attempt; what two runs could do to each other is left to the
proof, which is for any number. Three ids in `agent_session` let two departed
agents have polls parked behind a third. In `project_deletion` two calls race
for the transaction, and a fault in the rollback of a fault is the second of
`MaxFaults`. Three schedules and batches of two make a schedule that stays
due take another's place. Three commands over two PIDs force a PID to be
given again; they differ only in their owner id, so they are symmetric. Three nodes give a chain, a fork, a join and cycles of each length,
and two lanes an overlap within a layer. `MaxTime`, `MaxCrashes`, `MaxStops`,
`MaxErrors`, `MaxTurns`, `MaxWaiters`, `MaxFaults`, `MaxEdits`, `MaxEnds`,
`MaxLaunches` are the names of the bounds; while the intelligence daemon is
closing, a run is asked to stop once (a second request finds its context
cancelled).

**Deadlock** is checked in the publishing runs. It is off in the others, whose
systems come to rest: a daemon whose runs are over, a session that was closed, a
project that is gone, a plan that ended.

**Fairness.** A synchronous call runs on unless the process dies: weak fairness.
Timers and replies of the Node daemon share the event loop with any number of
requests, but libuv serves each phase in every turn: strong fairness of the
poll, of an await's end, of a backoff. That a claimed job is reached in its turn
is `claimJobs` taking the oldest first. The scheduler polls on a timer and works
its batch off, leases lapse, and time passes: weak fairness, which suffices
because nothing disables a poll for good while a claim is due. Modules of a plan
return, and the event loop then resumes the executor: weak fairness of its steps
together, and none of `Abort`. Assumed of the outside: a provider or an engine
answers in the end (they have timeouts), a dead daemon is started again (launchd,
systemd or the desktop shell), a harness looks for a free session, and a harness
that holds one either polls or falls silent. In Go every runnable goroutine runs;
but nothing bounds an analysis, so its end is assumed only once its context is
cancelled, and a queued run is not promised a worker. `ProjectDeletion` and
`DataDirectory` state no fairness: what they promise is safety.

### Where the code departs from what is written about it

Each of these runs is a counterexample of the model, and a finding in
`PROJECT.json` with both sources.

- `publish_early`: a post moved to a later time and approved again is sent at
  the earlier time by the job of its first approval.
- `publish_interrupted`: after a crash during a send the retry skips the post,
  so its record stays `attempting` and is never reported as indeterminate.
- `agent_departed`: a turn typed after an agent detached goes to the poll that
  agent left parked; no agent that attaches later sees it.
- `duplicate_scheduler`: a serve whose `createLocalServer` throws (`cli.ts` 274)
  gives its lease up (308) with its runtime standing; the next serve runs a second
  scheduler on the same database, which `docs/quickstart.md` 28-31 says cannot be.

### Seen on the way, without a run

The first six can be reproduced: give TLC the definition named, drop the exception
a checked property makes, or give the constants the values said.

- A cancel answered while an audit saves its report files is overwritten by the
  audit's own status (`IDX` 7838, against `apps/docs/site/agents/rest-api.md` 148). This is
  the one case `CancelLostOnlyToReport` leaves open.
- A crash between a run's final status and its job's completion executes a
  finished run again (`DB` 5733): hence "without a crash" in
  `FinishedStaysWithoutCrash`.
- When the event of a claim cannot be written, or the end of a run cannot be
  recorded, the run is running and nobody works on it until a restart
  (`intel/storage/runs.go` 142, `intel/jobs/manager.go` 422 and 930):
  `RunningHasOneWorker` excepts a daemon whose storage failed.
- A crashed owner's PID given to another program keeps the lease taken
  (`CrashedOwnerIsReplaced` of `DaemonLease`, against `docs/quickstart.md` 30).
- Artifacts of a run started after deleteProject listed the project's runs stay
  on disk (`DeletionLeavesNothing` of `ProjectDeletion`, against
  `docs/quickstart.md` 159).
- Schedules whose start is refused, or whose cron has no next occurrence (an import
  does not check), stay due and come first in the claim: one batch of them, 20,
  keeps every later schedule waiting (`DB` 5165; `Refused` and `NoNext` of `Limit`
  schedules or more). In the run one of two places is taken that way, so `DueFires`
  holds.
- `migrate` opens the database and writes it statement by statement without the
  lease, beside any daemon (`cli.ts` 854, `packages/legacy-import/src/index.ts` 517):
  hence the exception of `OneOwner`.
- A deletion that dies between making its staging directory and writing the
  manifest leaves that directory for good; one interrupted while it removes a
  staging directory whose manifest went first stays pending for good; and after
  an incomplete rollback a later run may make the directory that is still staged,
  which recovery then finds in both places and leaves.
- Two attempts in flight together both pass the daily ceiling, which counts
  settled posts only; an interrupt nobody collected stops the next agent's first
  turn; recovery resumes queued runs among the newest 200 rows only.

## 4. What is proved

The eight `*Proofs` modules are checked by TLAPS with no step left out, for every
value of the constants under the named assumption of the module they are about
(null values are outside the sets they stand beside; limits are numbers; a plan
has finitely many nodes). Type invariants and inductive invariants are proved and
so not among the runs' invariants.

| Property of a run | Theorem |
|---|---|
| `AtMostOneSend`, `OutcomeMatchesEvidence`, `NoSendOnceCeilingKnown`, `JobNeverBeforeItsSlot`, `ImplementsConsent` | `PublishPipelineProofs`: `SentAtMostOnce`, `EvidenceAgrees`, `CeilingRespectedAtCall`, `JobsWaitForTheirSlot`, `PipelineKeepsConsent` |
| `OneActiveJob`, `RunningIsExecuted`, `QueuedHasJob`, `SettledJobSettlesRun`, `AttemptsBounded`, `FinishedStaysWithoutCrash`, `CancelLostOnlyToReport` | `RuntimeRunsProofs`: `OneJobPerRun`, `NoneRunsUnattended`, `NoneQueuedInVain`, `SettledTogether`, `AttemptsAreBounded`, `FinishedIsKept`, `CancelIsKept` |
| `NobodySleepsOnATurn`, `NoTurnLostOrOvertaken`, `HandedOnce` | `AgentSessionProofs`: `NoLostWakeUp`, `QueueIsExact`, `TurnsHandedOnce` |
| `ReportHasEvidence`, `NoOrphanEvidence`, `RunningHasOneWorker`, `CancelReachesAnalysis`, `RetryStartsClean`, `CancelledForCause`, `ImplementsPromise` | `IntelRunsProofs`: `ReportsAreBacked`, `EvidenceIsTakenBack`, `WorkersShareNothing`, `CancelArrives`, `RetriesStartClean`, `CancelsHaveCause`, `PromiseIsKept` |
| `NothingLost`, `HealthTellsTruth`, `OnlyMissedRunsRemain` | `ProjectDeletionProofs`: `DataIsKept`, `HealthIsTrue`, `DeletedStaysDeleted` |
| `StartsWhatStands`, `NoneSkipped` | `SchedulerProofs`: `OneStartsWhatStands`, `OneSkipsNone`, for one scheduler at a time |
| `OneOwner`, `OwnerIsRecorded`, `OneUntilAStartFails` | `DataDirectoryProofs`: `OwnersAreAlone`, `RowNamesOwner`, `OneSchedulerImplemented` |
| `NeedsComeFirst`, `ResultsAsMeant`, `AbortDiscards` | `PlanExecutorProofs`: `NeedsHaveSucceeded`, `ResultsDoNotDependOnOrder`, `AbortStands` |

Some theorems state properties that no run lists. Most are definitions in a section of
their own at the end of the module, checked with TLC before they were proved, on the
instance of that module's run (for `RuntimeRuns` with two runs, seven jobs and two
crashes). They answer questions the listed ones leave open:

| Question | Property | Theorem |
|---|---|---|
| Does the worker ever wait for a job that is nobody's? | `LeasedIsInHand`, in both | `NoLeaseIsStranded` in `PublishPipelineProofs` and `RuntimeRunsProofs` |
| When can a post go out early, as `publish_early` shows? | `StandingJobIsOnTime`, `ScheduledHasItsJob`: before a crash never by the job of the approval that stands, which a scheduled post always has; so it takes a job of an earlier approval | `StandingApprovalIsOnTime`, `ScheduledPostHasItsJob` |
| When is an attempt left open, as `publish_interrupted` shows, and for how long? | `crashes = 0 => NoAttemptLeftOpen`: only after a crash; `AbandonedStaysOpen`: then for good | `NoneLeftOpenWithoutCrash`, `AbandonedForGood` |
| What may an agent that left still take, as `agent_departed` shows? | `DepartedGetsOneTurn`: the turn just typed, alone, once for each poll it left behind | `BacklogGoesToHolder` |
| Do retries and recoveries pile up jobs? | `EnqueuedOncePerCrash`: at most one more than crashes | `RunsAreEnqueuedOnce` |
| Can something bring back what a deletion took? | `DeletedOnlyShrinks` | `DeletedIsNotUndone` |
| Does the synchronous code of a deletion and its recovery end? | `TurnDescends` | `DeletionTurnsEnd` |
| Why does a plan end? | `PlanDescends`, `PoolNeverStuck` | `PlanGoesOn`, `PoolGoesOn` |
| When are two schedulers up, as `duplicate_scheduler` shows? | `SecondIsStray`: only when one was left behind by a failed start | `SecondSchedulerIsStray` |
| Do the scheduler's promises hold with several daemons? | `StartsWhatStandsUntilFailed`, `NoneSkippedUntilFailed` in `DataDirectory`: until a start fails | `DirectoryStartsWhatStands`, `DirectorySkipsNone`, without the hypothesis `[]OneUp` |

Only model-checked: liveness (`QueuedPostIsServed`, `LeasedJobEnds`,
`QueuedRunEnds`, `TurnIsCollected`, `CancelledRunEnds`, `DueFires`, `PlanEnds`:
proofs under fairness need ENABLED, which the provers at hand do not handle) and
the refutations. Of `PlanEnds` only the last inference is left to TLC: that a step
which is possible and of which there can be finitely many is eventually taken.
Nothing here rests on induction over data, and no module
declares a RECURSIVE operator.

**Publishing.** `AtMostOneSend` is not inductive: nothing in it says that a post
still approved has not been sent, nor that a call in flight is the only one. The
invariant `IndInv` adds who holds what: keys are minted once and a record exists
only under a minted key (`KeysFresh`); jobs and the claimed batch name intents
(`JobsNameIntents`); a post short of its claim is unsent and its key unused
(`UnclaimedIsUnsent`); a call in flight, or the synchronous call at each of its
statements, owns its intent and its open record (`CallOwnsIntent`,
`FrameOwnsIntent`). The proof has row lemmas (what an update of a row leaves
typed), one lemma per action with a step per conjunct, and `Invariance`. The
refinement `PipelineKeepsConsent` follows: every step maps to one step of
`PublishConsent` or to none.

For the approval that stands, `StandingJob` says that as long as nothing crashed
every post due at a slot has its own queued job, under the key the post names, and
that a job claimed under that key is at its slot (`ClaimedOnTime`). It needs to
know which job belongs to which approval: a job is enqueued once, under a key just
minted, for a post that has a slot (`JobsFit`); a crash between the statements of
`approve` is what breaks it. `AbandonedStaysOpen` needs no further invariant: a
record is reached only through the key its post names, and a post whose attempt is
open is past its claim and is never approved again (`FrameOwnsIntent`,
`UnclaimedIsUnsent`).

**Runs.** `RunningIsExecuted` and `QueuedHasJob` are not inductive: they hold when
the worker starts only because of what each statement of recovery has done
(`RecoveredSoFar`), and `OneActiveJob` needs to know that the run being enqueued
has no job (`FrameFits`). Nor may a settled job's run move on (`SettledIsQuiet`),
or `SettledJobSettlesRun` would break. `IndInv` says of every run who has it in
hand: a job that is due, a claimed job whose handler has yet to be called
(`ClaimedRunIsStartable`), an execution at an await (`ExecutionOwnsRun`), the
handler that is returning (`HandlerOwnsRun`), or a statement of the frame
(`FrameFits`); `RunIsInHand` says that somebody has. `ExecutionOwnsRun` carries
the race of cancel with the awaits: an execution is either not aborted, and then
its job is leased and its run running, or aborted, and then its job is cancelled
whatever status the run ends in. One lemma per action, with the two ways a job
appears (`EnqueueKeeps`), an execution ends (`ReturnsKeeps`) and a job is settled
(`SettleKeeps`) shared. `FinishedIsKept` and `CancelIsKept` are action properties
that need the invariant: without a crash the job of a finished run is never
claimed again, and only an execution that was saving its report still writes over
a cancelled run. `EnqueuedOncePerCrash` counts rows: its invariant (`RowsPaidFor`)
has a run's jobs paid for by its start and the crashes so far, with one crash yet
unspent for a run without a job while recovery may still enqueue it.

**Sessions.** `Inv` is the type invariant, `NobodySleepsOnATurn` and
`NoTurnLostOrOvertaken` together: a wake-up hands over exactly the turn just
typed because no poll sleeps on an older one. `HandToKeeps` and `WakeKeeps` are
the two ways a turn changes hands.

**Intelligence daemon.** A row is changed by the one worker that has it, by a
request on a queued run, or while no worker exists. So `IInv` keeps who has what
(`Hands`), what a worker may conclude about its run at each statement (`Knows`),
what a row says whoever has it (`Rows`), where published evidence may be
(`Published`) and, as long as nothing crashed or failed, who is about to take it
back (`Clean`). Three step shapes carry the proof: a worker moves within its run
(`MoveKeeps`), a request marks rows (`AsksKeeps`), and the daemon is down or
starting (`QuietIsEnough`). The refinement maps each row's status to a turn of
`IntelPromise`; only claim, request, completion, an ending mark, a recovery and a
reconciliation are steps of it.

**Deletion.** The argument follows the data of one location. It is moved, never
copied, so it is live or in one staging directory (`Kept`); a directory that
holds anything has its manifest, which names what it holds (`Labelled`); what is
still to be moved is not staged and what is staged has left its place (`Ahead`,
`Reversible`), so no rename meets data at its target; and a staging directory is
removed only when it is empty or the rows are gone (`Disposable`). `Tidy` ties the
pending flag to the staging directories left. `StepKeeps` has a lemma per
statement, over one for changes of a manifest (`LabelsChange`) and one for a
rename either way (`FilesMove`). For `TurnDescends` recovery must be at work on an
entry still on its list (`EntryInHand`); then every statement makes a triple smaller:
the entries, the place in the code, what the loop there has left.

**Scheduler and lease.** With several schedulers alive `StartsWhatStands` is
false: a lapsed lease is taken over and both hold copies. `SchedulerProofs`
proves its theorems under the hypothesis `[]OneUp`; the strengthening is
`BatchStands`, that every copied claim still agrees with its row, and the `Head`
of a batch is shown to be an earliest claim by well-founded induction on the
numbers. `DataDirectoryProofs` discharges the hypothesis for as long as no start
has failed: `OwnerIsRecorded` is inductive with the types, two holders would both
be the row's owner, and a scheduler that is up is a holder's or a stray's
(`SchedulersAreKnown`), of which there is none before (`StraysHaveFailed`). Then
every step of the composition, imports among them, is a step of one scheduler under
the mapping that forgets who holds a lease: the scheduler that is up holds the
leases of everything in its batch, so a `Free` that depends on the holder's name
and one that does not are the same (`HeadIsHeld`). After a failed start the promise
is false, and what remains is `OneOwner`, `OwnerIsRecorded` and `SecondIsStray`.

**Executor.** `Needs` is a least fixed point given as an intersection of closed
sets, so that nothing is recursive; `NeedsThrough` and `NeedsTransitive` are its
two unfoldings. A plan that gets stuck in `planLayers` has a cycle: each remaining node
depends on a remaining one, and of those the one with the fewest needs must need
itself (`SomeCycle`). While the pool runs, a node taken finds every node it depends on
ended (`Begun`, from `LayersInOrder`), and what they ended with decides what it is
meant to end with (`AsMeant`). `Duties` lists what is ahead of the plan as pairs of
a duty and a node; each action takes the pair named for it off the list
(`DutiesShrink`), and the list is finite because the plan is (`DutiesFinite`).

## 5. What is not modelled

- Two daemons on one database. A failed start makes that possible (`DaemonLease`);
  `PublishPipeline`, `RuntimeRuns` and `ProjectDeletion` take one daemon at a time,
  so what they show holds of a directory where no start has failed with its runtime
  standing. What the stray's job worker and its controllers do beside a new daemon's
  is not modelled.
- Publishing: editing a deliverable's text before staging, the media relay, the
  per-platform clients, deleting a destination account, payload hashes (a payload
  row is never updated, so a hash that matched keeps matching), a second worker
  taking over a lease (one worker polls and awaits its batch), and
  `listDuePublishIntents`, which nothing calls. Three stretches are one action each:
  the awaits between the record and the HTTP request (`IDX` 6485-6522, part of
  `CallProvider`), so a withdrawal in between is one during the call; an answer whose
  settlement the storage refuses (`publishing.ts` 272-290, part of
  `ProviderAnswers`); and a `completeJob` that throws, after which the worker calls
  `failJob` (part of `FinishAttempt`).
- Runs: what a workflow computes and saves, action verification, jobs of other
  types, the 200 rows recovery looks at.
- Sessions: text, the transcript of 500 events and its streams, which of 24
  sessions is evicted, authentication.
- Intelligence daemon: the private spool, input snapshots, datasets and their
  retention, progress events, what validation of a result checks. A worker that
  returns `context.Canceled` of its own, its run's context not cancelled
  (`manager.go` 522), which none of the connectors does; a shutdown that runs into
  its 8 s (`main.go` 175) is a `Crash` while closing, and a start that fails over a
  storage error a `Crash` before it is ready.
- Deletion: a manifest deleteProject did not write and an entry of the staging
  base that is no directory, both of which recovery leaves as pending; what an
  import writes into the project's own directory. `SaveArtifacts` writes at once
  what the code writes over two awaits (`IDX` 8946-8983).
- Scheduler: how a cron expression gives its next instant (`cron.ts`), and the
  lease's length as a number; a lease may lapse at any moment.
- Lease: the length of a heartbeat, file permissions, what a backup copies, that a
  restore replaces the rows, and what `migrate` adds other than schedules.
- Executor: what modules compute; a state listener that throws; a module reading
  outputs of its own layer.
- Credentials. `IDX` 6346-6397 replaces a secret in the vault and then the row,
  with a rollback, over two stores without a transaction. It was read and left
  out because what an operator would expect of it, that the row names a secret
  the vault has, holds only of restricted sequences of calls: the row is looked
  up by provider whatever the account, the rollback restores a copy taken before
  its awaits, a removal deletes the secret of the provider's first row and the row
  of the account `default`, and a token refresh answered after a removal writes
  the secret again. A model of it would state a property with as many exceptions
  as the code has paths.
- The components marked `not_modelled` in `PROJECT.json`, each for its reason.
  They are most of the repository's lines: generated clients, schemas, provider
  clients, pure computations over stored rows, and user interface.

## 6. Plan

Done: publishing, runs, sessions, the intelligence daemon's run queue, project
deletion, the scheduler, the daemon lease and its composition with the scheduler,
and the workflow executor, each with its proofs. What is left, in order of worth:

1. `CredentialRotation`, once the code states which row and account a call is
   about: vault and row with rollback and crash, one token refresh in flight.
2. `RunEvents`: the event streams of runs and sessions, what a dashboard that
   reconnects with its last event id has seen.
3. The composition of `ProjectDeletion` and `Scheduler` with `RuntimeRuns`: a
   deletion that waits for real executions, an occurrence whose run is retried.
4. Datasets of the intelligence daemon: imports and retention while an analysis
   reads its snapshot.
5. Liveness proofs, when the provers at hand handle ENABLED.
6. An abstract specification of a terminal session (a mailbox that hands each turn
   over once, in order) and of a run (started, finished or cancelled once), which
   `AgentSession` and `RuntimeRuns` implement, in place of the separate action
   properties.
