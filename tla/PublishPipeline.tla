--------------------------- MODULE PublishPipeline ---------------------------
(***************************************************************************)
(* The outbound publishing path of the runtime: publish intents, their     *)
(* approval, the durable job that fires a scheduled post, the publish      *)
(* record that guards the outbound call, and the daemon restarting at any  *)
(* point between two SQLite statements.                                    *)
(*                                                                         *)
(* The daemon is one JavaScript thread.  Code between two awaits runs      *)
(* without interleaving, but every SQL statement commits on its own, so a  *)
(* crash may fall between any two of them.  `frame' is the synchronous     *)
(* call under way: while there is one no other call starts, and Crash is   *)
(* enabled at each of its statements.  The one await of an attempt, the    *)
(* provider call, leaves the frame and waits in `inflight'.                *)
(*                                                                         *)
(* All intents share one destination account and one platform, and other   *)
(* posts of the account may have been settled before (Earlier).  A payload *)
(* row is never updated by the code, so its hash is left out: approve      *)
(* refuses any other hash without changing state, and the re-check in      *)
(* runPublishAttempt compares two equal values.  One job worker polls, so  *)
(* no other worker can take over a lease and leases are left out.          *)
(***************************************************************************)
EXTENDS Naturals, FiniteSets

CONSTANTS
    Intents,        \* rows of publish_intents
    Keys,           \* idempotency keys; the job an approval enqueues is named by its key
    Earlier,        \* keys under which other posts of the account were settled before
    NoPublisher,    \* intents whose destination maps to no social platform
    NoIntent, NoKey, NotScheduled,      \* null values
    DailyLimit,     \* PLATFORM_CAPABILITIES[platform].dailyPostLimit
    Window,         \* the 24 hours of the limit, in clock ticks
    Concurrency,    \* jobs a worker claims at once
    MaxTime,        \* bound: the clock stops here
    MaxCrashes      \* bound: daemon crashes in one behaviour

ASSUME ConstantsAssumption ==
    /\ Earlier \subseteq Keys
    /\ NoPublisher \subseteq Intents
    /\ NoIntent \notin Intents
    /\ NoKey \notin Keys
    /\ NotScheduled \notin Nat
    /\ DailyLimit \in Nat \ {0}
    /\ Window \in Nat
    /\ Concurrency \in Nat \ {0}
    /\ MaxTime \in Nat
    /\ MaxCrashes \in Nat

VARIABLES
    now,        \* the clock
    up,         \* the daemon is running
    crashes,    \* crashes so far
    intents,    \* publish_intents: state, scheduled_at, idempotency_key
    minted,     \* keys createIdempotencyKey has returned
    records,    \* publish_records by idempotency_key: state, attempted_at
    jobs,       \* jobs of type publish.intent: state, intent, available_at
    frame,      \* the synchronous call under way (volatile)
    starting,   \* claimed jobs whose handler the worker has yet to call (volatile)
    inflight,   \* calls to executor.publish that have not returned (volatile)
    sent        \* history: calls made to executor.publish for each intent

vars == <<now, up, crashes, intents, minted, records, jobs, frame, starting,
          inflight, sent>>

Times == 0 .. MaxTime

IntentState == {"absent", "staged", "approved", "publishing", "published",
                "failed", "withdrawn"}

Outcomes == {"published", "failed", "indeterminate"}

RecordState == {"none", "attempting"} \cup Outcomes

JobState == {"none", "queued", "leased", "succeeded"}

\* Statements of a synchronous call: of approve, then of runPublishAttempt.
Pc == {"idle", "mint", "enqueue",
       "read", "begin", "call", "settle_record", "settle_intent", "finish"}

Intent == [state: IntentState, at: Times \cup {NotScheduled}, key: Keys \cup {NoKey}]
Record == [state: RecordState, at: Times]
\* due is available_at; slot, a history, is available_at as approve enqueued it.
Job == [state: JobState, intent: Intents \cup {NoIntent}, due: Times, slot: Times]
Frame == [pc: Pc, intent: Intents \cup {NoIntent}, key: Keys \cup {NoKey},
          job: Keys \cup {NoKey}, outcome: Outcomes]
Call == [intent: Intents, key: Keys, job: Keys \cup {NoKey}]

NoFrame == [pc |-> "idle", intent |-> NoIntent, key |-> NoKey, job |-> NoKey,
            outcome |-> "failed"]

\* runPublishAttempt entered for intent i, by job j or (NoKey) by publishNow.
Attempt(i, j) == [NoFrame EXCEPT !.pc = "read", !.intent = i, !.job = j]

Init ==
    /\ now = 0
    /\ up = TRUE
    /\ crashes = 0
    /\ intents = [i \in Intents |->
                    [state |-> "absent", at |-> NotScheduled, key |-> NoKey]]
    /\ minted = Earlier
    /\ \E settled \in [Earlier -> Outcomes] :
           records = [k \in Keys |->
               [state |-> IF k \in Earlier THEN settled[k] ELSE "none", at |-> 0]]
    /\ jobs = [k \in Keys |-> [state |-> "none", intent |-> NoIntent, due |-> 0, slot |-> 0]]
    /\ frame = NoFrame
    /\ starting = {}
    /\ inflight = {}
    /\ sent = [i \in Intents |-> 0]

\* The event loop is between two turns: a request, a timer or a reply may run.
LoopFree == up /\ frame.pc = "idle" /\ starting = {}

At(pc) == up /\ frame.pc = pc

Leased == {k \in Keys : jobs[k].state = "leased"}

-----------------------------------------------------------------------------
(* The operator's requests.                                                *)

Stage(i) ==
    /\ LoopFree
    /\ intents[i].state = "absent"
    /\ intents' = [intents EXCEPT ![i].state = "staged"]
    /\ UNCHANGED <<now, up, crashes, minted, records, jobs, frame, starting,
                   inflight, sent>>

\* Mutant: rescheduling reopens a post whatever its state.
ScheduleReopens(i, t) ==
    /\ LoopFree
    /\ intents[i].state \notin {"absent", "published", "publishing"}
    /\ t >= now
    /\ intents' = [intents EXCEPT ![i].at = t, ![i].state = "staged"]
    /\ UNCHANGED <<now, up, crashes, minted, records, jobs, frame, starting,
                   inflight, sent>>

\* Moving an approved post drops it back to staged.  Its job stays queued.
Schedule(i, t) ==
    /\ LoopFree
    /\ intents[i].state \notin {"absent", "published", "publishing"}
    /\ t >= now
    /\ intents' = [intents EXCEPT ![i].at = t,
                                  ![i].state = IF @ = "approved" THEN "staged" ELSE @]
    /\ UNCHANGED <<now, up, crashes, minted, records, jobs, frame, starting,
                   inflight, sent>>

\* approve, first statement: the conditional UPDATE.  Two more follow.
\* Bound: no approval starts once every key of the model has been minted.
Approve(i) ==
    /\ LoopFree
    /\ intents[i].state = "staged"
    /\ minted # Keys
    /\ intents' = [intents EXCEPT ![i].state = "approved"]
    /\ frame' = [NoFrame EXCEPT !.pc = "mint", !.intent = i]
    /\ UNCHANGED <<now, up, crashes, minted, records, jobs, starting, inflight, sent>>

MintKey ==
    /\ At("mint")
    /\ \E k \in Keys \ minted :
          /\ minted' = minted \cup {k}
          /\ intents' = [intents EXCEPT ![frame.intent].key = k]
          /\ frame' = [frame EXCEPT !.pc = "enqueue", !.key = k]
    /\ UNCHANGED <<now, up, crashes, records, jobs, starting, inflight, sent>>

EnqueueJob ==
    /\ At("enqueue")
    /\ jobs' = IF intents[frame.intent].at = NotScheduled
               THEN jobs
               ELSE [jobs EXCEPT ![frame.key] =
                       [state |-> "queued", intent |-> frame.intent,
                        due |-> intents[frame.intent].at,
                        slot |-> intents[frame.intent].at]]
    /\ frame' = NoFrame
    /\ UNCHANGED <<now, up, crashes, intents, minted, records, starting, inflight, sent>>

\* Any state is overwritten, a send in flight or already made included.
Withdraw(i) ==
    /\ LoopFree
    /\ intents[i].state # "absent"
    /\ intents' = [intents EXCEPT ![i].state = "withdrawn"]
    /\ UNCHANGED <<now, up, crashes, minted, records, jobs, frame, starting,
                   inflight, sent>>

PublishNow(i) ==
    /\ LoopFree
    /\ intents[i].state # "absent"
    /\ frame' = Attempt(i, NoKey)
    /\ UNCHANGED <<now, up, crashes, intents, minted, records, jobs, starting,
                   inflight, sent>>

-----------------------------------------------------------------------------
(* The job worker.                                                         *)

DueJobs == {k \in Keys : jobs[k].state = "queued" /\ jobs[k].due <= now}

\* What claimJobs selects: as many due jobs as fit, earliest available_at first.
IsNextBatch(S) ==
    /\ S # {}
    /\ \/ Cardinality(S) = Concurrency
       \/ Cardinality(S) < Concurrency /\ S = DueJobs
    /\ \A k \in S, other \in DueJobs \ S : jobs[k].due <= jobs[other].due

\* runOnce polls again only when every job of its last batch has ended.
WorkerPoll ==
    /\ LoopFree
    /\ Leased = {}
    /\ \E S \in SUBSET DueJobs :
          /\ IsNextBatch(S)
          /\ jobs' = [k \in Keys |-> IF k \in S THEN [jobs[k] EXCEPT !.state = "leased"]
                                                 ELSE jobs[k]]
          /\ starting' = S
    /\ UNCHANGED <<now, up, crashes, intents, minted, records, frame, inflight, sent>>

StartJob(k) ==
    /\ At("idle")
    /\ k \in starting
    /\ \A other \in starting : jobs[k].due <= jobs[other].due
    /\ starting' = starting \ {k}
    /\ frame' = Attempt(jobs[k].intent, k)
    /\ UNCHANGED <<now, up, crashes, intents, minted, records, jobs, inflight, sent>>

-----------------------------------------------------------------------------
(* runPublishAttempt, one action per SQL statement that writes.            *)

\* countPublishedSince: only records already settled as published count.
PublishedSince(t) ==
    Cardinality({k \in Keys : records[k].state = "published" /\ records[k].at >= t})

DailyLimitReached ==
    PublishedSince(IF now >= Window THEN now - Window ELSE 0) >= DailyLimit

\* Mutant: the attempt does not look at the intent's state.
AttemptableInAnyState(i) ==
    /\ intents[i].key # NoKey
    /\ i \notin NoPublisher

Attemptable(i) ==
    /\ intents[i].state = "approved"
    /\ intents[i].key # NoKey
    /\ i \notin NoPublisher

\* Not approved, no key, no publisher, or already settled: nothing is written.
SkipAttempt ==
    /\ At("read")
    /\ \/ ~ Attemptable(frame.intent)
       \/ /\ Attemptable(frame.intent)
          /\ records[intents[frame.intent].key].state \in Outcomes
    /\ frame' = [frame EXCEPT !.pc = "finish"]
    /\ UNCHANGED <<now, up, crashes, intents, minted, records, jobs, starting,
                   inflight, sent>>

\* An earlier attempt with this key is open, or the daily limit is reached: the
\* intent fails, and the open record becomes indeterminate.  UnclaimedIsUnsent
\* shows the first branch, two statements in the code, to be unreachable.
RefuseAttempt ==
    LET i == frame.intent
        k == intents[i].key
    IN  /\ At("read")
        /\ Attemptable(i)
        /\ \/ /\ records[k].state = "attempting"
              /\ records' = [records EXCEPT ![k].state = "indeterminate"]
           \/ /\ records[k].state = "none"
              /\ DailyLimitReached
              /\ UNCHANGED records
        /\ intents' = [intents EXCEPT ![i].state = "failed"]
        /\ frame' = [frame EXCEPT !.pc = "finish"]
        /\ UNCHANGED <<now, up, crashes, minted, jobs, starting, inflight, sent>>

\* Mutant: the claim skips the daily limit.
ClaimWithoutLimit ==
    LET i == frame.intent
        k == intents[i].key
    IN  /\ At("read")
        /\ Attemptable(i)
        /\ records[k].state = "none"
        /\ intents' = [intents EXCEPT ![i].state = "publishing"]
        /\ frame' = [frame EXCEPT !.pc = "begin", !.key = k]
        /\ UNCHANGED <<now, up, crashes, minted, records, jobs, starting, inflight, sent>>

\* claimPublishIntent.  Nothing runs between the read and this UPDATE, so its
\* own "state='approved'" condition holds and the lost race cannot occur.
ClaimIntent ==
    LET i == frame.intent
        k == intents[i].key
    IN  /\ At("read")
        /\ Attemptable(i)
        /\ records[k].state = "none"
        /\ ~ DailyLimitReached
        /\ intents' = [intents EXCEPT ![i].state = "publishing"]
        /\ frame' = [frame EXCEPT !.pc = "begin", !.key = k]
        /\ UNCHANGED <<now, up, crashes, minted, records, jobs, starting, inflight, sent>>

\* beginPublishRecord: the insert that UNIQUE(idempotency_key) may refuse.
BeginRecord ==
    LET i == frame.intent
        k == frame.key
    IN  /\ At("begin")
        /\ \/ /\ records[k].state = "none"
              /\ records' = [records EXCEPT ![k] = [state |-> "attempting", at |-> now]]
              /\ frame' = [frame EXCEPT !.pc = "call"]
              /\ UNCHANGED intents
           \/ /\ records[k].state # "none"
              /\ intents' = [intents EXCEPT ![i].state = "failed"]
              /\ frame' = [frame EXCEPT !.pc = "finish"]
              /\ UNCHANGED records
        /\ UNCHANGED <<now, up, crashes, minted, jobs, starting, inflight, sent>>

\* executor.publish is called and awaited: the request may leave from here on.
CallProvider ==
    /\ At("call")
    /\ inflight' = inflight \cup {[intent |-> frame.intent, key |-> frame.key,
                                   job |-> frame.job]}
    /\ sent' = [sent EXCEPT ![frame.intent] = @ + 1]
    /\ frame' = NoFrame
    /\ UNCHANGED <<now, up, crashes, intents, minted, records, jobs, starting>>

\* The await resolves or rejects.
ProviderAnswers(c, outcome) ==
    /\ LoopFree
    /\ c \in inflight
    /\ inflight' = inflight \ {c}
    /\ frame' = [pc |-> "settle_record", intent |-> c.intent, key |-> c.key,
                 job |-> c.job, outcome |-> outcome]
    /\ UNCHANGED <<now, up, crashes, intents, minted, records, jobs, starting, sent>>

\* settlePublishRecord: only an attempting row may be settled.
SettleRecord ==
    /\ At("settle_record")
    /\ records' = IF records[frame.key].state = "attempting"
                  THEN [records EXCEPT ![frame.key].state = frame.outcome]
                  ELSE records
    /\ frame' = [frame EXCEPT !.pc = "settle_intent"]
    /\ UNCHANGED <<now, up, crashes, intents, minted, jobs, starting, inflight, sent>>

\* Mutant: an unknown outcome is taken for success.
SettleIntentOptimist ==
    /\ At("settle_intent")
    /\ intents' = [intents EXCEPT ![frame.intent].state =
                     IF frame.outcome = "failed" THEN "failed" ELSE "published"]
    /\ frame' = [frame EXCEPT !.pc = "finish"]
    /\ UNCHANGED <<now, up, crashes, minted, records, jobs, starting, inflight, sent>>

\* settlePublishIntent: unconditional.
SettleIntent ==
    /\ At("settle_intent")
    /\ intents' = [intents EXCEPT ![frame.intent].state =
                     IF frame.outcome = "published" THEN "published" ELSE "failed"]
    /\ frame' = [frame EXCEPT !.pc = "finish"]
    /\ UNCHANGED <<now, up, crashes, minted, records, jobs, starting, inflight, sent>>

\* Mutant: the job is completed only when the post was published.
FinishOnlyPublished ==
    /\ At("finish")
    /\ jobs' = [k \in Keys |->
                  IF /\ k = frame.job
                     /\ jobs[k].state = "leased"
                     /\ intents[frame.intent].state = "published"
                  THEN [jobs[k] EXCEPT !.state = "succeeded"]
                  ELSE jobs[k]]
    /\ frame' = NoFrame
    /\ UNCHANGED <<now, up, crashes, intents, minted, records, starting, inflight, sent>>

\* The handler returns, whatever the attempt's outcome, and completeJob ends the
\* job; publishNow answers its request.  (completeJob runs as a microtask: after a
\* handler that awaited nothing the rest of its batch starts first.  The model
\* completes the job at once.)
FinishAttempt ==
    /\ At("finish")
    /\ jobs' = [k \in Keys |-> IF k = frame.job /\ jobs[k].state = "leased"
                               THEN [jobs[k] EXCEPT !.state = "succeeded"]
                               ELSE jobs[k]]
    /\ frame' = NoFrame
    /\ UNCHANGED <<now, up, crashes, intents, minted, records, starting, inflight, sent>>

-----------------------------------------------------------------------------
(* The environment.                                                        *)

Tick ==
    /\ LoopFree \/ ~ up
    /\ now < MaxTime
    /\ now' = now + 1
    /\ UNCHANGED <<up, crashes, intents, minted, records, jobs, frame, starting,
                   inflight, sent>>

Crash ==
    /\ up
    /\ crashes < MaxCrashes
    /\ crashes' = crashes + 1
    /\ up' = FALSE
    /\ frame' = NoFrame
    /\ starting' = {}
    /\ inflight' = {}
    /\ UNCHANGED <<now, intents, minted, records, jobs, sent>>

\* Mutant: recovery makes every waiting job due at once.
RestartMakesAllDue ==
    /\ ~ up
    /\ up' = TRUE
    /\ jobs' = [k \in Keys |-> IF jobs[k].state \in {"queued", "leased"}
                               THEN [jobs[k] EXCEPT !.state = "queued", !.due = now]
                               ELSE jobs[k]]
    /\ UNCHANGED <<now, crashes, intents, minted, records, frame, starting,
                   inflight, sent>>

\* Mutant: recovery forgets the leased jobs.
RestartKeepsLeases ==
    /\ ~ up
    /\ up' = TRUE
    /\ UNCHANGED <<now, crashes, intents, minted, records, jobs, frame, starting,
                   inflight, sent>>

\* The constructor: recoverInterruptedRuns requeues every leased job, due now,
\* and touches neither intents nor records.  Then the worker starts.
Restart ==
    /\ ~ up
    /\ up' = TRUE
    /\ jobs' = [k \in Keys |-> IF jobs[k].state = "leased"
                               THEN [jobs[k] EXCEPT !.state = "queued", !.due = now]
                               ELSE jobs[k]]
    /\ UNCHANGED <<now, crashes, intents, minted, records, frame, starting,
                   inflight, sent>>

-----------------------------------------------------------------------------

Operator ==
    \E i \in Intents :
        \/ Stage(i)
        \/ \E t \in Times : Schedule(i, t)
        \/ Approve(i)
        \/ Withdraw(i)
        \/ PublishNow(i)

\* The statements of a call that has begun: nothing else runs until it ends.
Synchronous ==
    \/ MintKey \/ EnqueueJob
    \/ \E k \in Keys : StartJob(k)
    \/ SkipAttempt \/ RefuseAttempt \/ ClaimIntent \/ BeginRecord \/ CallProvider
    \/ SettleRecord \/ SettleIntent \/ FinishAttempt

Reply == \E c \in inflight, outcome \in Outcomes : ProviderAnswers(c, outcome)

Next == Operator \/ Synchronous \/ WorkerPoll \/ Reply \/ Tick \/ Crash \/ Restart

(***************************************************************************)
(* Fairness.  A synchronous call runs on unless the process dies.  Timers  *)
(* and replies share the event loop with any number of requests: libuv     *)
(* serves each phase in every turn of the loop, which is strong fairness   *)
(* of the poll and of a reply.  That the provider answers is assumed of    *)
(* the network; that a dead daemon is started again, of its supervisor.    *)
(***************************************************************************)
Fairness ==
    /\ WF_vars(Synchronous)
    /\ SF_vars(WorkerPoll)
    /\ SF_vars(Reply)
    /\ SF_vars(Tick)
    /\ WF_vars(Restart)

Spec == Init /\ [][Next]_vars
FairSpec == Spec /\ Fairness

-----------------------------------------------------------------------------
(* Properties.                                                             *)

\* Every variable holds a row, a frame or a call of the declared shape.
TypeOK ==
    /\ now \in Times
    /\ up \in BOOLEAN
    /\ crashes \in 0 .. MaxCrashes
    /\ intents \in [Intents -> Intent]
    /\ minted \in SUBSET Keys
    /\ records \in [Keys -> Record]
    /\ jobs \in [Keys -> Job]
    /\ frame \in Frame
    /\ starting \in SUBSET Keys
    /\ inflight \in SUBSET Call
    /\ sent \in [Intents -> Nat]

\* However often a post is approved, rescheduled, fired by leftover jobs, sent
\* by hand or interrupted by a crash, executor.publish is called for it at most
\* once.  (publishing.ts: "Sending one post, exactly once".)
AtMostOneSend == \A i \in Intents : sent[i] <= 1

\* What the intent says about an ended send never contradicts the record, which
\* is the evidence of it: "published" only with the provider's acceptance on
\* record, and "failed" never over a post that is live.
OutcomeMatchesEvidence ==
    \A i \in Intents :
        LET k == intents[i].key IN
        k # NoKey =>
            /\ intents[i].state = "published" => records[k].state = "published"
            /\ intents[i].state = "failed" => records[k].state # "published"

\* No send goes out, ever, without its record standing open first: a crash
\* right after the call finds evidence that a request may have left.  The same
\* step shows a withdrawn or rescheduled post is not sent.
RecordBeforeCall ==
    [][\A i \in Intents : sent'[i] # sent[i] =>
          /\ intents[i].state = "publishing"
          /\ records[intents[i].key].state = "attempting"]_vars

\* A send starts only while the posts on record for the last 24 hours are below
\* the platform's ceiling.
NoSendOnceCeilingKnown ==
    [][sent' # sent => ~ DailyLimitReached]_vars

\* A job never sends before the slot it was enqueued for, across restarts that
\* requeue it: an early send needs a job left over from an earlier approval.
JobNeverBeforeItsSlot ==
    [][\A k \in Keys :
          (sent' # sent /\ frame.job = k) => now >= jobs[k].slot]_vars

\* A scheduled post whose job is in the queue does not stay approved for ever,
\* whatever crashes come between: it is sent, refused, rescheduled or withdrawn.
QueuedPostIsServed ==
    \A i \in Intents \ NoPublisher :
        (/\ intents[i].state = "approved"
         /\ \E k \in Keys : jobs[k].intent = i /\ jobs[k].state \in {"queued", "leased"})
        ~> intents[i].state # "approved"

\* No job stays leased: a crashed one is requeued, and each handler returns.
LeasedJobEnds == \A k \in Keys : jobs[k].state = "leased" ~> jobs[k].state = "succeeded"

(***************************************************************************)
(* The operator's view: what phase a post is in, and the promise about it. *)
(* An intent claimed but not yet sent still stands under its consent.      *)
(***************************************************************************)
PhaseOf(i) ==
    IF sent[i] > 0 THEN "sent"
    ELSE CASE intents[i].state \in {"absent", "staged"}       -> "draft"
           [] intents[i].state \in {"approved", "publishing"} -> "consented"
           [] OTHER                                           -> "closed"

Phase == [i \in Intents |-> PhaseOf(i)]

Consents == INSTANCE PublishConsent WITH Posts <- Intents, phase <- Phase

\* Every step of the pipeline is a step of the promise or hidden from it: no
\* order of requests, jobs, replies and crashes sends a post without a standing
\* consent, sends it twice, or revives one that was closed.
ImplementsConsent == Consents!Spec

-----------------------------------------------------------------------------
(* The inductive invariant behind AtMostOneSend, OutcomeMatchesEvidence and *)
(* ImplementsConsent.                                                       *)

KeyOf(i) == intents[i].key

\* Keys are minted once, and a record exists only under a minted key.
KeysFresh ==
    /\ \A i \in Intents : KeyOf(i) # NoKey => KeyOf(i) \in minted
    /\ \A i, j \in Intents : KeyOf(i) # NoKey /\ KeyOf(i) = KeyOf(j) => i = j
    /\ \A k \in Keys : records[k].state # "none" => k \in minted

\* Every job that was enqueued names an intent; the claimed jobs still to be
\* handled are leased, and only the handlers of the batch run before them.
JobsNameIntents ==
    /\ \A k \in Keys : jobs[k].state # "none" => jobs[k].intent \in Intents
    /\ \A k \in starting : jobs[k].state = "leased"
    /\ frame.job \notin starting
    /\ frame.pc = "idle" => frame.job = NoKey
    /\ (~ up \/ frame.pc \in {"mint", "enqueue"}) => starting = {}

\* An intent still short of its claim has not been sent, and its key is unused.
UnclaimedIsUnsent ==
    \A i \in Intents :
        intents[i].state \in {"absent", "staged", "approved"} =>
            /\ sent[i] = 0
            /\ KeyOf(i) # NoKey => records[KeyOf(i)].state = "none"

\* A call that has not returned owns its intent and its open record.
CallOwnsIntent ==
    /\ \A c \in inflight :
          /\ c.key = KeyOf(c.intent)
          /\ intents[c.intent].state \in {"publishing", "withdrawn"}
          /\ records[c.key].state = "attempting"
    /\ \A c, d \in inflight : c.intent = d.intent => c = d

\* So does the synchronous call, at each of its statements.
FrameOwnsIntent ==
    LET i == frame.intent IN
    /\ frame.pc # "idle" => i \in Intents
    /\ frame.pc \in {"mint", "enqueue"} => intents[i].state = "approved"
    /\ frame.pc = "enqueue" => frame.key = KeyOf(i) /\ frame.key \in Keys
    /\ frame.pc \in {"begin", "call", "settle_record", "settle_intent"} =>
          /\ frame.key = KeyOf(i)
          /\ frame.key \in Keys
          /\ \A c \in inflight : c.intent # i
    /\ frame.pc \in {"begin", "call"} => intents[i].state = "publishing" /\ sent[i] = 0
    /\ frame.pc = "begin" => records[frame.key].state = "none"
    /\ frame.pc \in {"call", "settle_record"} => records[frame.key].state = "attempting"
    /\ frame.pc \in {"settle_record", "settle_intent"} =>
          intents[i].state \in {"publishing", "withdrawn"}
    /\ frame.pc = "settle_intent" => records[frame.key].state = frame.outcome

\* Holds throughout: each row, call and frame agrees with the others on who may
\* send which post, and with what the record says of it.
IndInv ==
    /\ TypeOK
    /\ KeysFresh
    /\ JobsNameIntents
    /\ UnclaimedIsUnsent
    /\ CallOwnsIntent
    /\ FrameOwnsIntent
    /\ AtMostOneSend
    /\ OutcomeMatchesEvidence

-----------------------------------------------------------------------------
(* Properties that no run lists: PublishPipelineProofs proves them.        *)

\* While the daemon is up every leased job is somebody's: its handler is about to be
\* called, runs, or awaits its provider.  One that was nobody's would keep the worker,
\* which polls again when its batch is done, from ever polling again.
LeasedIsInHand ==
    up => \A k \in Keys :
        jobs[k].state = "leased" =>
            k \in starting \/ frame.job = k \/ \E c \in inflight : c.job = k

\* Without a crash a post that was approved for a slot has the job that sends it then:
\* rescheduling, withdrawing and leftover jobs take none away.  (A crash between the
\* statements of approve does.)
ScheduledHasItsJob ==
    (crashes = 0 /\ LoopFree) =>
        \A i \in Intents \ NoPublisher :
            (intents[i].state = "approved" /\ intents[i].at # NotScheduled) =>
                LET k == intents[i].key IN
                /\ k \in Keys
                /\ jobs[k].state = "queued"
                /\ jobs[k].intent = i
                /\ jobs[k].slot = intents[i].at

\* Without a crash the job of the standing approval is never early: a send before the
\* approved time, which NotBeforeApprovedTime denies, is a job's of an approval that
\* no longer stands.
StandingJobIsOnTime ==
    [][\A i \in Intents :
          (/\ crashes = 0
           /\ sent'[i] # sent[i]
           /\ frame.job # NoKey /\ frame.job = intents[i].key) =>
              intents[i].at # NotScheduled /\ now >= intents[i].at]_vars

\* The attempt is open and the code that would settle it is gone.
Abandoned(k) ==
    /\ records[k].state = "attempting"
    /\ ~ (frame.pc \in {"call", "settle_record"} /\ frame.key = k)
    /\ \A c \in inflight : c.key # k

\* Only a crash abandons an attempt, and nothing ever settles it then: neither the
\* requeued job nor a later request or approval comes back to its record.
AbandonedStaysOpen ==
    [][\A k \in Keys :
          /\ Abandoned(k) => Abandoned(k)'
          /\ Abandoned(k)' => Abandoned(k) \/ crashes' > crashes]_vars

-----------------------------------------------------------------------------
(* What the documentation says and the code does not do.                   *)

\* docs/adr/0006-publishing-mechanics.md:60: the operator approved "this exact
\* time", and "any change to either voids the approval": a post the job queue
\* sends goes out no earlier than the time its standing approval names.
NotBeforeApprovedTime ==
    [][\A i \in Intents :
          (sent'[i] # sent[i] /\ frame.job # NoKey) =>
              intents[i].at # NotScheduled /\ now >= intents[i].at]_vars

\* docs/adr/0006-publishing-mechanics.md:75: "A retry after a crash finds the
\* `attempting` row" and "reports the send as `indeterminate`": once the job has
\* run to its end, its attempt is not open unless a caller still awaits it.
NoAttemptLeftOpen ==
    \A k \in Keys :
        (jobs[k].state = "succeeded" /\ records[k].state = "attempting") =>
            frame.key = k \/ \E c \in inflight : c.key = k
=============================================================================
