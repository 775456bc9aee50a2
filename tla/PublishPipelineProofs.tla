------------------------ MODULE PublishPipelineProofs ------------------------
(***************************************************************************)
(* Proofs about PublishPipeline, for every set of intents and keys, every  *)
(* limit, batch size, clock and number of crashes.                         *)
(***************************************************************************)
EXTENDS PublishPipeline, TLAPS

-----------------------------------------------------------------------------
(* Type correctness.  Rows and frames first, so that the steps need not    *)
(* look inside them.                                                       *)

LEMMA IntentRow ==
  ASSUME NEW r \in Intent
  PROVE  /\ \A s \in IntentState : [r EXCEPT !.state = s] \in Intent
         /\ \A k \in Keys : [r EXCEPT !.key = k] \in Intent
         /\ \A t \in Times : [r EXCEPT !.at = t] \in Intent
         /\ r.state \in IntentState
         /\ r.key \in Keys \cup {NoKey}
         /\ r.at # NotScheduled => r.at \in Times
  BY DEF Intent

LEMMA RecordRow ==
  ASSUME NEW r \in Record
  PROVE  \A s \in RecordState : [r EXCEPT !.state = s] \in Record
  BY DEF Record

LEMMA JobRow ==
  ASSUME NEW j \in Job
  PROVE  /\ \A s \in JobState : [j EXCEPT !.state = s] \in Job
         /\ \A t \in Times : [j EXCEPT !.state = "queued", !.due = t] \in Job
         /\ j.intent \in Intents \cup {NoIntent}
  BY DEF Job, JobState

LEMMA FrameRow ==
  ASSUME NEW f \in Frame
  PROVE  /\ \A pc \in Pc : [f EXCEPT !.pc = pc] \in Frame
         /\ \A pc \in Pc, k \in Keys : [f EXCEPT !.pc = pc, !.key = k] \in Frame
         /\ \A pc \in Pc, i \in Intents : [f EXCEPT !.pc = pc, !.intent = i] \in Frame
         /\ \A pc \in Pc, i \in Intents \cup {NoIntent}, j \in Keys \cup {NoKey} :
               [f EXCEPT !.pc = pc, !.intent = i, !.job = j] \in Frame
         /\ f.intent \in Intents \cup {NoIntent}
         /\ f.key \in Keys \cup {NoKey}
         /\ f.job \in Keys \cup {NoKey}
         /\ f.outcome \in Outcomes
  BY DEF Frame

LEMMA NoFrameRow == NoFrame \in Frame
  BY DEF NoFrame, Frame, Pc, Outcomes

LEMMA AttemptRow ==
  ASSUME NEW i \in Intents \cup {NoIntent}, NEW j \in Keys \cup {NoKey}
  PROVE  Attempt(i, j) \in Frame
  BY NoFrameRow, FrameRow DEF Attempt, Pc

\* At first the records are those of earlier posts, settled, and their keys are minted.
LEMMA InitRecords ==
  ASSUME Init
  PROVE  /\ records \in [Keys -> Record]
         /\ \A k \in Keys : records[k].state # "attempting"
         /\ \A k \in Keys : records[k].state # "none" => k \in minted
<1>1. PICK settled \in [Earlier -> Outcomes] :
        records = [k \in Keys |->
            [state |-> IF k \in Earlier THEN settled[k] ELSE "none", at |-> 0]]
  BY DEF Init
<1>2. 0 \in Times
  BY ConstantsAssumption DEF Times
<1>3. \A k \in Keys : /\ records[k] \in Record
                      /\ records[k].state \in {"none"} \cup Outcomes
                      /\ k \notin Earlier => records[k].state = "none"
  <2> TAKE k \in Keys
  <2> DEFINE state == IF k \in Earlier THEN settled[k] ELSE "none"
  <2>1. state \in {"none"} \cup Outcomes /\ (k \notin Earlier => state = "none")
    OBVIOUS
  <2>2. records[k] = [state |-> state, at |-> 0]
    BY <1>1
  <2> HIDE DEF state
  <2>3. records[k].state = state /\ records[k] \in Record
    BY <1>2, <2>1, <2>2 DEF Record, RecordState
  <2> QED BY <2>1, <2>3
<1>4. records \in [Keys -> Record]
  BY <1>1, <1>3
<1>5. minted = Earlier
  BY DEF Init
<1> QED BY <1>3, <1>4, <1>5 DEF Outcomes

LEMMA InitType == Init => TypeOK
<1> SUFFICES ASSUME Init PROVE TypeOK
  OBVIOUS
<1>1. 0 \in Times
  BY ConstantsAssumption DEF Times
<1>2. intents \in [Intents -> Intent]
  BY DEF Init, Intent, IntentState
<1>3. records \in [Keys -> Record]
  BY InitRecords
<1>4. jobs \in [Keys -> Job]
  BY <1>1 DEF Init, Job, JobState
<1>5. QED
  BY <1>1, <1>2, <1>3, <1>4, NoFrameRow, ConstantsAssumption DEF Init, TypeOK

LEMMA OperatorType ==
  ASSUME TypeOK, NEW i \in Intents, NEW t \in Times,
         Stage(i) \/ Schedule(i, t) \/ Approve(i) \/ Withdraw(i) \/ PublishNow(i)
  PROVE  TypeOK'
<1>1. intents[i] \in Intent
  BY DEF TypeOK
<1>2. CASE Stage(i)
  <2>1. [intents[i] EXCEPT !.state = "staged"] \in Intent
    BY <1>1, IntentRow DEF IntentState
  <2>2. QED
    BY <1>2, <2>1 DEF TypeOK, Stage
<1>3. CASE Schedule(i, t)
  <2>1. [intents[i] EXCEPT !.at = t,
           !.state = IF intents[i].state = "approved" THEN "staged" ELSE intents[i].state]
          \in Intent
    BY <1>1 DEF Intent, IntentState
  <2>2. QED
    BY <1>3, <2>1 DEF TypeOK, Schedule
<1>4. CASE Approve(i)
  <2>1. [intents[i] EXCEPT !.state = "approved"] \in Intent
    BY <1>1, IntentRow DEF IntentState
  <2>2. [NoFrame EXCEPT !.pc = "mint", !.intent = i] \in Frame
    BY NoFrameRow, FrameRow DEF Pc
  <2>3. QED
    BY <1>4, <2>1, <2>2 DEF TypeOK, Approve
<1>5. CASE Withdraw(i)
  <2>1. [intents[i] EXCEPT !.state = "withdrawn"] \in Intent
    BY <1>1, IntentRow DEF IntentState
  <2>2. QED
    BY <1>5, <2>1 DEF TypeOK, Withdraw
<1>6. CASE PublishNow(i)
  BY <1>6, AttemptRow DEF TypeOK, PublishNow
<1>7. QED
  BY <1>2, <1>3, <1>4, <1>5, <1>6

LEMMA SynchronousType ==
  ASSUME TypeOK, FrameOwnsIntent, Synchronous
  PROVE  TypeOK'
<1>1. frame \in Frame /\ NoFrame \in Frame
  BY NoFrameRow DEF TypeOK
<1>2. \A pc \in Pc : [frame EXCEPT !.pc = pc] \in Frame
  BY <1>1, FrameRow
<1>3. ASSUME frame.pc # "idle"
      PROVE  /\ frame.intent \in Intents
             /\ intents[frame.intent] \in Intent
             /\ intents[frame.intent].key \in Keys \cup {NoKey}
  BY <1>3, IntentRow DEF TypeOK, FrameOwnsIntent
<1>4. CASE MintKey
  <2>1. PICK k \in Keys \ minted :
           /\ minted' = minted \cup {k}
           /\ intents' = [intents EXCEPT ![frame.intent].key = k]
           /\ frame' = [frame EXCEPT !.pc = "enqueue", !.key = k]
    BY <1>4 DEF MintKey
  <2>2. [intents[frame.intent] EXCEPT !.key = k] \in Intent
    BY <1>3, <1>4, IntentRow DEF MintKey, At
  <2>3. frame' \in Frame
    BY <1>1, <2>1, FrameRow DEF Pc
  <2>4. QED
    BY <1>4, <2>1, <2>2, <2>3 DEF TypeOK, MintKey
<1>5. CASE EnqueueJob
  <2>1. frame.key \in Keys /\ frame.intent \in Intents
    BY <1>5 DEF EnqueueJob, At, FrameOwnsIntent
  <2>2. ASSUME intents[frame.intent].at # NotScheduled
        PROVE  [state |-> "queued", intent |-> frame.intent,
                due |-> intents[frame.intent].at,
                slot |-> intents[frame.intent].at] \in Job
    BY <2>1, <2>2, IntentRow DEF TypeOK, Job, JobState
  <2>3. jobs' \in [Keys -> Job]
    BY <1>5, <2>1, <2>2 DEF EnqueueJob, TypeOK
  <2>4. QED
    BY <1>1, <1>5, <2>3 DEF TypeOK, EnqueueJob
<1>6. ASSUME NEW k \in Keys, StartJob(k)
      PROVE  TypeOK'
  BY <1>6, AttemptRow, JobRow DEF TypeOK, StartJob
<1>7. CASE SkipAttempt
  BY <1>2, <1>7 DEF TypeOK, SkipAttempt, Pc
<1>8. CASE RefuseAttempt
  <2>1. [intents[frame.intent] EXCEPT !.state = "failed"] \in Intent
    BY <1>3, <1>8, IntentRow DEF RefuseAttempt, At, IntentState
  <2>2. \A k \in Keys : [records[k] EXCEPT !.state = "indeterminate"] \in Record
    BY RecordRow DEF TypeOK, RecordState, Outcomes
  <2>3. records' \in [Keys -> Record]
    BY <1>8, <2>2 DEF RefuseAttempt, TypeOK
  <2>4. QED
    BY <1>2, <1>8, <2>1, <2>3 DEF TypeOK, RefuseAttempt, Pc
<1>9. CASE ClaimIntent
  <2>1. [intents[frame.intent] EXCEPT !.state = "publishing"] \in Intent
    BY <1>3, <1>9, IntentRow DEF ClaimIntent, At, IntentState
  <2>2. intents[frame.intent].key \in Keys
    BY <1>3, <1>9 DEF ClaimIntent, At, Attemptable
  <2>3. frame' \in Frame
    BY <1>1, <1>9, <2>2, FrameRow DEF ClaimIntent, Pc
  <2>4. QED
    BY <1>9, <2>1, <2>3 DEF TypeOK, ClaimIntent
<1>10. CASE BeginRecord
  <2>1. [intents[frame.intent] EXCEPT !.state = "failed"] \in Intent
    BY <1>3, <1>10, IntentRow DEF BeginRecord, At, IntentState
  <2>2. [state |-> "attempting", at |-> now] \in Record
    BY DEF TypeOK, Record, RecordState
  <2>3. QED
    BY <1>2, <1>10, <2>1, <2>2 DEF TypeOK, BeginRecord, Pc
<1>11. CASE CallProvider
  <2>1. [intent |-> frame.intent, key |-> frame.key, job |-> frame.job] \in Call
    BY <1>1, <1>11, FrameRow DEF CallProvider, At, FrameOwnsIntent, Call
  <2>2. sent[frame.intent] + 1 \in Nat
    BY <1>3, <1>11 DEF TypeOK, CallProvider, At
  <2>3. QED
    BY <1>1, <1>11, <2>1, <2>2 DEF TypeOK, CallProvider
<1>12. CASE SettleRecord
  <2>1. \A k \in Keys : [records[k] EXCEPT !.state = frame.outcome] \in Record
    BY <1>1, FrameRow, RecordRow DEF TypeOK, RecordState
  <2>2. records' \in [Keys -> Record]
    BY <1>12, <2>1 DEF SettleRecord, TypeOK
  <2>3. QED
    BY <1>2, <1>12, <2>2 DEF TypeOK, SettleRecord, Pc
<1>13. CASE SettleIntent
  <2>1. [intents[frame.intent] EXCEPT !.state =
           IF frame.outcome = "published" THEN "published" ELSE "failed"] \in Intent
    BY <1>3, <1>13, IntentRow DEF SettleIntent, At, IntentState
  <2>2. QED
    BY <1>2, <1>13, <2>1 DEF TypeOK, SettleIntent, Pc
<1>14. CASE FinishAttempt
  <2>1. \A k \in Keys : [jobs[k] EXCEPT !.state = "succeeded"] \in Job
    BY JobRow DEF TypeOK, JobState
  <2>2. jobs' \in [Keys -> Job]
    BY <1>14, <2>1 DEF FinishAttempt, TypeOK
  <2>3. QED
    BY <1>1, <1>14, <2>2 DEF TypeOK, FinishAttempt
<1>15. QED
  BY <1>4, <1>5, <1>6, <1>7, <1>8, <1>9, <1>10, <1>11, <1>12, <1>13, <1>14
     DEF Synchronous

LEMMA OtherType ==
  ASSUME TypeOK, WorkerPoll \/ Reply \/ Tick \/ Crash \/ Restart
  PROVE  TypeOK'
<1>1. NoFrame \in Frame
  BY NoFrameRow
<1>2. CASE WorkerPoll
  <2>1. PICK S \in SUBSET DueJobs :
           /\ jobs' = [k \in Keys |-> IF k \in S THEN [jobs[k] EXCEPT !.state = "leased"]
                                                  ELSE jobs[k]]
           /\ starting' = S
    BY <1>2 DEF WorkerPoll
  <2>2. \A k \in Keys : [jobs[k] EXCEPT !.state = "leased"] \in Job
    BY JobRow DEF TypeOK, JobState
  <2>3. jobs' \in [Keys -> Job]
    BY <2>1, <2>2 DEF TypeOK
  <2>4. starting' \in SUBSET Keys
    BY <2>1 DEF DueJobs
  <2>5. QED
    BY <1>2, <2>3, <2>4 DEF TypeOK, WorkerPoll
<1>3. CASE Reply
  <2>1. PICK c \in inflight, outcome \in Outcomes : ProviderAnswers(c, outcome)
    BY <1>3 DEF Reply
  <2>2. frame' \in Frame
    BY <2>1 DEF ProviderAnswers, TypeOK, Call, Frame, Pc
  <2>3. QED
    BY <2>1, <2>2 DEF TypeOK, ProviderAnswers
<1>4. CASE Tick
  <2>1. now' \in Times
    BY <1>4, ConstantsAssumption DEF Tick, TypeOK, Times
  <2>2. QED
    BY <1>4, <2>1 DEF TypeOK, Tick
<1>5. CASE Crash
  <2>1. crashes' \in 0 .. MaxCrashes
    BY <1>5, ConstantsAssumption DEF Crash, TypeOK
  <2>2. QED
    BY <1>1, <1>5, <2>1 DEF TypeOK, Crash
<1>6. CASE Restart
  <2>1. \A k \in Keys : [jobs[k] EXCEPT !.state = "queued", !.due = now] \in Job
    BY JobRow DEF TypeOK
  <2>2. jobs' \in [Keys -> Job]
    BY <1>6, <2>1 DEF Restart, TypeOK
  <2>3. QED
    BY <1>6, <2>2 DEF TypeOK, Restart
<1>7. QED
  BY <1>2, <1>3, <1>4, <1>5, <1>6

LEMMA NextType ==
  ASSUME TypeOK, FrameOwnsIntent, [Next]_vars
  PROVE  TypeOK'
<1>1. CASE Operator
  BY <1>1, OperatorType, ConstantsAssumption DEF Operator, Times
<1>2. CASE UNCHANGED vars
  BY <1>2 DEF vars, TypeOK
<1>3. QED
  BY <1>1, <1>2, SynchronousType, OtherType DEF Next

-----------------------------------------------------------------------------
(* The invariant, action by action.  What an update of one row leaves alone *)
(* comes first: the steps below quote it and never expand EXCEPT.           *)

LEMMA IntentStateUpdate ==
  ASSUME TypeOK, NEW i \in Intents, NEW s,
         intents' = [intents EXCEPT ![i].state = s]
  PROVE  /\ intents'[i].state = s
         /\ \A j \in Intents : intents'[j].key = intents[j].key
         /\ \A j \in Intents : j # i => intents'[j] = intents[j]
  BY DEF TypeOK, Intent

LEMMA RecordStateUpdate ==
  ASSUME TypeOK, NEW k \in Keys, NEW s,
         records' = [records EXCEPT ![k].state = s]
  PROVE  /\ records'[k].state = s
         /\ \A l \in Keys : l # k => records'[l] = records[l]
  BY DEF TypeOK, Record

LEMMA KeysApart ==
  ASSUME KeysFresh, NEW i \in Intents, KeyOf(i) # NoKey
  PROVE  \A j \in Intents : j # i => KeyOf(j) # KeyOf(i)
  BY DEF KeysFresh

LEMMA NoFrameFields ==
  /\ NoFrame.pc = "idle" /\ NoFrame.job = NoKey
  /\ \A i, j : Attempt(i, j).pc = "read" /\ Attempt(i, j).intent = i
               /\ Attempt(i, j).job = j
  BY DEF NoFrame, Attempt

LEMMA InitInv == Init => IndInv
<1> SUFFICES ASSUME Init PROVE IndInv
  OBVIOUS
<1>1. TypeOK
  BY InitType
<1>2. /\ \A i \in Intents : intents[i].state = "absent" /\ KeyOf(i) = NoKey
      /\ \A k \in Keys : jobs[k].state = "none" /\ (records[k].state # "none" => k \in minted)
      /\ \A i \in Intents : sent[i] = 0
      /\ frame.pc = "idle" /\ frame.job = NoKey /\ starting = {} /\ inflight = {}
  BY InitRecords DEF Init, KeyOf, NoFrame
<1>3. KeysFresh /\ JobsNameIntents /\ UnclaimedIsUnsent
  BY <1>2 DEF KeysFresh, JobsNameIntents, UnclaimedIsUnsent
<1>4. CallOwnsIntent /\ FrameOwnsIntent
  BY <1>2 DEF CallOwnsIntent, FrameOwnsIntent
<1>5. AtMostOneSend /\ OutcomeMatchesEvidence
  BY <1>2 DEF AtMostOneSend, OutcomeMatchesEvidence, KeyOf
<1>6. QED
  BY <1>1, <1>3, <1>4, <1>5 DEF IndInv

-----------------------------------------------------------------------------
(* The operator's requests.                                                *)

LEMMA StageInv ==
  ASSUME IndInv, NEW i \in Intents, Stage(i)
  PROVE  IndInv'
<1> USE DEF IndInv
<1>1. TypeOK'
  BY OperatorType, ConstantsAssumption DEF Times
<1>2. /\ intents'[i].state = "staged"
      /\ \A j \in Intents : KeyOf(j)' = KeyOf(j)
      /\ \A j \in Intents : j # i => intents'[j] = intents[j]
  BY IntentStateUpdate DEF Stage, KeyOf
<1>3. KeysFresh' /\ JobsNameIntents'
  BY <1>2 DEF Stage, KeysFresh, JobsNameIntents
<1>4. UnclaimedIsUnsent'
  BY <1>2 DEF Stage, UnclaimedIsUnsent
<1>5. CallOwnsIntent'
  BY <1>2 DEF Stage, CallOwnsIntent, TypeOK, Call
<1>6. FrameOwnsIntent'
  BY <1>2 DEF Stage, LoopFree, FrameOwnsIntent
<1>7. AtMostOneSend' /\ OutcomeMatchesEvidence'
  BY <1>2 DEF Stage, AtMostOneSend, OutcomeMatchesEvidence, KeyOf
<1>8. QED
  BY <1>1, <1>3, <1>4, <1>5, <1>6, <1>7

LEMMA ScheduleInv ==
  ASSUME IndInv, NEW i \in Intents, NEW t \in Times, Schedule(i, t)
  PROVE  IndInv'
<1> USE DEF IndInv
<1>1. TypeOK'
  BY OperatorType
<1>2. /\ intents'[i].state = IF intents[i].state = "approved" THEN "staged"
                                                              ELSE intents[i].state
      /\ \A j \in Intents : KeyOf(j)' = KeyOf(j)
      /\ \A j \in Intents : j # i => intents'[j] = intents[j]
  BY DEF Schedule, KeyOf, TypeOK, Intent
<1>3. /\ intents[i].state \notin {"absent", "published", "publishing"}
      /\ frame.pc = "idle"
      /\ UNCHANGED <<up, minted, records, jobs, frame, starting, inflight, sent>>
  BY DEF Schedule, LoopFree
<1>4. KeysFresh' /\ JobsNameIntents'
  BY <1>2, <1>3 DEF KeysFresh, JobsNameIntents
<1>5. UnclaimedIsUnsent'
  BY <1>2, <1>3 DEF UnclaimedIsUnsent
<1>6. CallOwnsIntent'
  BY <1>2, <1>3 DEF CallOwnsIntent, TypeOK, Call
<1>7. FrameOwnsIntent'
  BY <1>2, <1>3 DEF FrameOwnsIntent
<1>8. AtMostOneSend' /\ OutcomeMatchesEvidence'
  BY <1>2, <1>3 DEF AtMostOneSend, OutcomeMatchesEvidence, KeyOf
<1>9. QED
  BY <1>1, <1>4, <1>5, <1>6, <1>7, <1>8

LEMMA ApproveInv ==
  ASSUME IndInv, NEW i \in Intents, Approve(i)
  PROVE  IndInv'
<1> USE DEF IndInv
<1>1. TypeOK'
  BY OperatorType, ConstantsAssumption DEF Times
<1>2. /\ intents'[i].state = "approved"
      /\ \A j \in Intents : KeyOf(j)' = KeyOf(j)
      /\ \A j \in Intents : j # i => intents'[j] = intents[j]
  BY IntentStateUpdate DEF Approve, KeyOf
<1>3. frame'.pc = "mint" /\ frame'.intent = i /\ frame'.job = NoKey
  BY DEF Approve, NoFrame
<1>4. KeysFresh' /\ JobsNameIntents'
  BY <1>2, <1>3 DEF Approve, LoopFree, KeysFresh, JobsNameIntents
<1>5. UnclaimedIsUnsent'
  BY <1>2 DEF Approve, UnclaimedIsUnsent
<1>6. CallOwnsIntent'
  BY <1>2 DEF Approve, CallOwnsIntent, TypeOK, Call
<1>7. FrameOwnsIntent'
  BY <1>2, <1>3 DEF Approve, FrameOwnsIntent
<1>8. AtMostOneSend' /\ OutcomeMatchesEvidence'
  BY <1>2 DEF Approve, AtMostOneSend, OutcomeMatchesEvidence, KeyOf
<1>9. QED
  BY <1>1, <1>4, <1>5, <1>6, <1>7, <1>8

LEMMA WithdrawInv ==
  ASSUME IndInv, NEW i \in Intents, Withdraw(i)
  PROVE  IndInv'
<1> USE DEF IndInv
<1>1. TypeOK'
  BY OperatorType, ConstantsAssumption DEF Times
<1>2. /\ intents'[i].state = "withdrawn"
      /\ \A j \in Intents : KeyOf(j)' = KeyOf(j)
      /\ \A j \in Intents : j # i => intents'[j] = intents[j]
  BY IntentStateUpdate DEF Withdraw, KeyOf
<1>3. KeysFresh' /\ JobsNameIntents'
  BY <1>2 DEF Withdraw, KeysFresh, JobsNameIntents
<1>4. UnclaimedIsUnsent'
  BY <1>2 DEF Withdraw, UnclaimedIsUnsent
<1>5. CallOwnsIntent'
  BY <1>2 DEF Withdraw, CallOwnsIntent, TypeOK, Call
<1>6. FrameOwnsIntent'
  BY <1>2 DEF Withdraw, LoopFree, FrameOwnsIntent
<1>7. AtMostOneSend' /\ OutcomeMatchesEvidence'
  BY <1>2 DEF Withdraw, AtMostOneSend, OutcomeMatchesEvidence, KeyOf
<1>8. QED
  BY <1>1, <1>3, <1>4, <1>5, <1>6, <1>7

LEMMA PublishNowInv ==
  ASSUME IndInv, NEW i \in Intents, PublishNow(i)
  PROVE  IndInv'
<1> USE DEF IndInv
<1>1. TypeOK'
  BY OperatorType, ConstantsAssumption DEF Times
<1>2. frame'.pc = "read" /\ frame'.intent = i /\ frame'.job = NoKey
  BY NoFrameFields DEF PublishNow
<1>3. KeysFresh' /\ JobsNameIntents' /\ UnclaimedIsUnsent'
  BY <1>2 DEF PublishNow, LoopFree, KeysFresh, JobsNameIntents, UnclaimedIsUnsent, KeyOf
<1>4. CallOwnsIntent' /\ FrameOwnsIntent'
  BY <1>2 DEF PublishNow, CallOwnsIntent, FrameOwnsIntent, KeyOf
<1>5. AtMostOneSend' /\ OutcomeMatchesEvidence'
  BY DEF PublishNow, AtMostOneSend, OutcomeMatchesEvidence
<1>6. QED
  BY <1>1, <1>3, <1>4, <1>5

-----------------------------------------------------------------------------
(* The statements of a call: approve's two writes, the start of a job, and *)
(* the attempt up to the provider call.                                    *)

LEMMA MintKeyInv ==
  ASSUME IndInv, MintKey
  PROVE  IndInv'
<1> USE DEF IndInv
<1> DEFINE i == frame.intent
<1>1. TypeOK'
  BY SynchronousType DEF Synchronous
<1>2. /\ i \in Intents /\ intents[i].state = "approved" /\ frame.pc = "mint"
      /\ \A c \in inflight : c.intent # i
      /\ starting = {}
  BY DEF MintKey, At, FrameOwnsIntent, CallOwnsIntent, JobsNameIntents
<1>3. PICK k \in Keys \ minted :
         /\ minted' = minted \cup {k}
         /\ intents' = [intents EXCEPT ![i].key = k]
         /\ frame' = [frame EXCEPT !.pc = "enqueue", !.key = k]
  BY DEF MintKey
<1>4. /\ k # NoKey
      /\ \A j \in Intents : KeyOf(j)' = IF j = i THEN k ELSE KeyOf(j)
      /\ \A j \in Intents : intents'[j].state = intents[j].state
  BY <1>2, <1>3, ConstantsAssumption DEF TypeOK, Intent, KeyOf
<1>5. /\ frame'.pc = "enqueue" /\ frame'.intent = i /\ frame'.key = k
      /\ frame'.job = frame.job
  BY <1>3 DEF TypeOK, Frame
<1>6. records[k].state = "none"
  BY <1>3 DEF KeysFresh
<1>7. UNCHANGED <<up, records, jobs, starting, inflight, sent>>
  BY DEF MintKey
<1>8. KeysFresh'
  BY <1>3, <1>4, <1>7 DEF KeysFresh
<1>9. JobsNameIntents'
  BY <1>2, <1>5, <1>7 DEF JobsNameIntents
<1>10. UnclaimedIsUnsent'
  BY <1>2, <1>4, <1>6, <1>7 DEF UnclaimedIsUnsent
<1>11. CallOwnsIntent'
  BY <1>2, <1>4, <1>7 DEF CallOwnsIntent, TypeOK, Call
<1>12. FrameOwnsIntent'
  BY <1>2, <1>3, <1>4, <1>5, <1>7 DEF FrameOwnsIntent
<1>13. AtMostOneSend' /\ OutcomeMatchesEvidence'
  BY <1>2, <1>4, <1>6, <1>7 DEF AtMostOneSend, OutcomeMatchesEvidence, KeyOf
<1>14. QED
  BY <1>1, <1>8, <1>9, <1>10, <1>11, <1>12, <1>13

LEMMA EnqueueJobInv ==
  ASSUME IndInv, EnqueueJob
  PROVE  IndInv'
<1> USE DEF IndInv
<1>1. TypeOK'
  BY SynchronousType DEF Synchronous
<1>2. /\ frame.intent \in Intents /\ frame.key \in Keys /\ starting = {}
      /\ frame'.pc = "idle" /\ frame'.job = NoKey
      /\ UNCHANGED <<up, intents, minted, records, starting, inflight, sent>>
  BY NoFrameFields DEF EnqueueJob, At, FrameOwnsIntent, JobsNameIntents
<1>3. \A k \in Keys : jobs'[k] = jobs[k] \/ jobs'[k].intent = frame.intent
  BY <1>2 DEF EnqueueJob, TypeOK
<1>4. JobsNameIntents'
  BY <1>2, <1>3 DEF JobsNameIntents
<1>5. KeysFresh' /\ UnclaimedIsUnsent' /\ CallOwnsIntent'
  BY <1>2 DEF KeysFresh, UnclaimedIsUnsent, CallOwnsIntent, KeyOf
<1>6. FrameOwnsIntent' /\ AtMostOneSend' /\ OutcomeMatchesEvidence'
  BY <1>2 DEF FrameOwnsIntent, AtMostOneSend, OutcomeMatchesEvidence
<1>7. QED
  BY <1>1, <1>4, <1>5, <1>6

LEMMA StartJobInv ==
  ASSUME IndInv, NEW k \in Keys, StartJob(k)
  PROVE  IndInv'
<1> USE DEF IndInv
<1>1. TypeOK'
  BY SynchronousType DEF Synchronous
<1>2. /\ jobs[k].intent \in Intents
      /\ frame'.pc = "read" /\ frame'.intent = jobs[k].intent /\ frame'.job = k
      /\ starting' = starting \ {k}
      /\ up
      /\ UNCHANGED <<up, intents, minted, records, jobs, inflight, sent>>
  BY NoFrameFields DEF StartJob, At, JobsNameIntents
<1>3. KeysFresh' /\ UnclaimedIsUnsent' /\ CallOwnsIntent'
  BY <1>2 DEF KeysFresh, UnclaimedIsUnsent, CallOwnsIntent, KeyOf
<1>4. JobsNameIntents'
  BY <1>2 DEF JobsNameIntents
<1>5. FrameOwnsIntent' /\ AtMostOneSend' /\ OutcomeMatchesEvidence'
  BY <1>2 DEF FrameOwnsIntent, AtMostOneSend, OutcomeMatchesEvidence
<1>6. QED
  BY <1>1, <1>3, <1>4, <1>5

LEMMA SkipAttemptInv ==
  ASSUME IndInv, SkipAttempt
  PROVE  IndInv'
<1> USE DEF IndInv
<1>1. TypeOK'
  BY SynchronousType DEF Synchronous
<1>2. /\ frame.pc = "read" /\ up
      /\ frame'.pc = "finish" /\ frame'.intent = frame.intent /\ frame'.job = frame.job
      /\ UNCHANGED <<up, intents, minted, records, jobs, starting, inflight, sent>>
  BY DEF SkipAttempt, At, TypeOK, Frame
<1>3. KeysFresh' /\ UnclaimedIsUnsent' /\ CallOwnsIntent'
  BY <1>2 DEF KeysFresh, UnclaimedIsUnsent, CallOwnsIntent, KeyOf
<1>4. JobsNameIntents'
  BY <1>2 DEF JobsNameIntents
<1>5. FrameOwnsIntent' /\ AtMostOneSend' /\ OutcomeMatchesEvidence'
  BY <1>2 DEF FrameOwnsIntent, AtMostOneSend, OutcomeMatchesEvidence
<1>6. QED
  BY <1>1, <1>3, <1>4, <1>5

\* What the guard of an attempt that goes on tells about its intent: it is
\* unsent, no call for it is out, and its key has no record.
LEMMA AttemptableFacts ==
  ASSUME IndInv, At("read"), Attemptable(frame.intent)
  PROVE  /\ frame.pc = "read" /\ frame.intent \in Intents
         /\ KeyOf(frame.intent) \in Keys /\ KeyOf(frame.intent) # NoKey
         /\ sent[frame.intent] = 0
         /\ records[KeyOf(frame.intent)].state = "none"
         /\ \A c \in inflight : c.intent # frame.intent
         /\ up
<1>1. frame.pc = "read" /\ frame.intent \in Intents /\ up
  BY DEF IndInv, FrameOwnsIntent, At
<1>2. KeyOf(frame.intent) \in Keys /\ KeyOf(frame.intent) # NoKey
  BY <1>1 DEF IndInv, TypeOK, Intent, KeyOf, Attemptable
<1>3. QED
  BY <1>1, <1>2 DEF IndInv, UnclaimedIsUnsent, CallOwnsIntent, Attemptable

LEMMA RefuseAttemptInv ==
  ASSUME IndInv, RefuseAttempt
  PROVE  IndInv'
<1> USE DEF IndInv
<1> DEFINE i == frame.intent
<1>1. TypeOK'
  BY SynchronousType DEF Synchronous
<1>2. At("read") /\ Attemptable(i)
  BY DEF RefuseAttempt
<1>3. /\ i \in Intents /\ frame.pc = "read"
      /\ records[KeyOf(i)].state = "none"
      /\ \A c \in inflight : c.intent # i
  BY <1>2, AttemptableFacts
<1>4. UNCHANGED <<up, minted, records, jobs, starting, inflight, sent>>
  BY <1>3 DEF RefuseAttempt, KeyOf
<1>5. /\ intents'[i].state = "failed"
      /\ \A j \in Intents : KeyOf(j)' = KeyOf(j)
      /\ \A j \in Intents : j # i => intents'[j] = intents[j]
  BY <1>3, IntentStateUpdate DEF RefuseAttempt, KeyOf
<1>6. frame'.pc = "finish" /\ frame'.intent = i /\ frame'.job = frame.job
  BY DEF RefuseAttempt, TypeOK, Frame
<1>7. KeysFresh' /\ UnclaimedIsUnsent'
  BY <1>4, <1>5 DEF KeysFresh, UnclaimedIsUnsent
<1>8. CallOwnsIntent'
  BY <1>3, <1>4, <1>5 DEF CallOwnsIntent, TypeOK, Call
<1>9. JobsNameIntents' /\ FrameOwnsIntent'
  BY <1>3, <1>4, <1>5, <1>6 DEF JobsNameIntents, FrameOwnsIntent
<1>10. AtMostOneSend' /\ OutcomeMatchesEvidence'
  BY <1>3, <1>4, <1>5 DEF AtMostOneSend, OutcomeMatchesEvidence, KeyOf
<1>11. QED
  BY <1>1, <1>7, <1>8, <1>9, <1>10

LEMMA ClaimIntentInv ==
  ASSUME IndInv, ClaimIntent
  PROVE  IndInv'
<1> USE DEF IndInv
<1> DEFINE i == frame.intent
           k == KeyOf(i)
<1>1. TypeOK'
  BY SynchronousType DEF Synchronous
<1>2. At("read") /\ Attemptable(i)
  BY DEF ClaimIntent
<1>3. /\ i \in Intents /\ frame.pc = "read" /\ k \in Keys /\ sent[i] = 0
      /\ records[k].state = "none" /\ up
      /\ \A c \in inflight : c.intent # i
  BY <1>2, AttemptableFacts
<1>4. /\ intents'[i].state = "publishing"
      /\ \A j \in Intents : KeyOf(j)' = KeyOf(j)
      /\ \A j \in Intents : j # i => intents'[j] = intents[j]
  BY <1>3, IntentStateUpdate DEF ClaimIntent, KeyOf
<1>5. /\ frame'.pc = "begin" /\ frame'.intent = i /\ frame'.job = frame.job
      /\ frame'.key = k
  BY DEF ClaimIntent, TypeOK, Frame, KeyOf
<1>6. UNCHANGED <<up, minted, records, jobs, starting, inflight, sent>>
  BY DEF ClaimIntent
<1>7. KeysFresh' /\ UnclaimedIsUnsent'
  BY <1>4, <1>6 DEF KeysFresh, UnclaimedIsUnsent
<1>8. CallOwnsIntent'
  BY <1>3, <1>4, <1>6 DEF CallOwnsIntent, TypeOK, Call
<1>9. JobsNameIntents'
  BY <1>3, <1>5, <1>6 DEF JobsNameIntents
<1>10. FrameOwnsIntent'
  BY <1>3, <1>4, <1>5, <1>6 DEF FrameOwnsIntent
<1>11. AtMostOneSend' /\ OutcomeMatchesEvidence'
  BY <1>4, <1>6 DEF AtMostOneSend, OutcomeMatchesEvidence, KeyOf
<1>12. QED
  BY <1>1, <1>7, <1>8, <1>9, <1>10, <1>11

-----------------------------------------------------------------------------
(* The attempt from its record to its end.                                 *)

LEMMA BeginRecordInv ==
  ASSUME IndInv, BeginRecord
  PROVE  IndInv'
<1> USE DEF IndInv
<1> DEFINE i == frame.intent
           k == frame.key
<1>1. TypeOK'
  BY SynchronousType DEF Synchronous
<1>2. /\ i \in Intents /\ frame.pc = "begin" /\ up
      /\ k = KeyOf(i) /\ k \in Keys /\ k # NoKey
      /\ intents[i].state = "publishing" /\ sent[i] = 0
      /\ records[k].state = "none"
      /\ \A c \in inflight : c.intent # i
  BY ConstantsAssumption DEF BeginRecord, At, FrameOwnsIntent
<1>3. \A j \in Intents : j # i => KeyOf(j) # k
  BY <1>2, KeysApart
<1>4. /\ records'[k].state = "attempting"
      /\ \A l \in Keys : l # k => records'[l] = records[l]
      /\ UNCHANGED <<up, intents, minted, jobs, starting, inflight, sent>>
  BY <1>2 DEF BeginRecord, TypeOK
<1>5. frame'.pc = "call" /\ frame'.intent = i /\ frame'.key = k /\ frame'.job = frame.job
  BY <1>2 DEF BeginRecord, TypeOK, Frame
<1>6. KeysFresh'
  BY <1>2, <1>4 DEF KeysFresh, KeyOf
<1>7. JobsNameIntents'
  BY <1>2, <1>4, <1>5 DEF JobsNameIntents
<1>8. UnclaimedIsUnsent'
  BY <1>2, <1>3, <1>4 DEF UnclaimedIsUnsent, TypeOK, Intent, KeyOf
<1>9. CallOwnsIntent'
  BY <1>2, <1>3, <1>4 DEF CallOwnsIntent, TypeOK, Call, KeyOf
<1>10. FrameOwnsIntent'
  BY <1>2, <1>4, <1>5 DEF FrameOwnsIntent, KeyOf
<1>11. OutcomeMatchesEvidence'
  BY <1>2, <1>3, <1>4 DEF OutcomeMatchesEvidence, TypeOK, Intent, KeyOf
<1>12. AtMostOneSend'
  BY <1>4 DEF AtMostOneSend
<1>13. QED
  BY <1>1, <1>6, <1>7, <1>8, <1>9, <1>10, <1>11, <1>12

LEMMA CallProviderInv ==
  ASSUME IndInv, CallProvider
  PROVE  IndInv'
<1> USE DEF IndInv
<1> DEFINE i == frame.intent
           c == [intent |-> frame.intent, key |-> frame.key, job |-> frame.job]
<1>1. TypeOK'
  BY SynchronousType DEF Synchronous
<1>2. /\ i \in Intents /\ frame.pc = "call" /\ up
      /\ frame.key = KeyOf(i)
      /\ intents[i].state = "publishing" /\ sent[i] = 0
      /\ records[frame.key].state = "attempting"
      /\ \A d \in inflight : d.intent # i
  BY DEF CallProvider, At, FrameOwnsIntent
<1>3. /\ inflight' = inflight \cup {c}
      /\ c.intent = i /\ c.key = frame.key
      /\ frame'.pc = "idle" /\ frame'.job = NoKey
      /\ UNCHANGED <<up, intents, minted, records, jobs, starting>>
  BY NoFrameFields DEF CallProvider
<1>4. \A j \in Intents : sent'[j] = IF j = i THEN 1 ELSE sent[j]
  BY <1>2 DEF CallProvider, TypeOK
<1>5. NoKey \notin starting
  BY ConstantsAssumption DEF TypeOK
<1>6. KeysFresh' /\ JobsNameIntents'
  BY <1>2, <1>3, <1>5 DEF KeysFresh, JobsNameIntents, KeyOf
<1>7. UnclaimedIsUnsent'
  BY <1>2, <1>3, <1>4 DEF UnclaimedIsUnsent, KeyOf
<1>8. CallOwnsIntent'
  <2>1. ASSUME NEW d \in inflight'
        PROVE  /\ d.key = KeyOf(d.intent)
               /\ intents[d.intent].state \in {"publishing", "withdrawn"}
               /\ records[d.key].state = "attempting"
    BY <1>2, <1>3, <2>1 DEF CallOwnsIntent
  <2>2. ASSUME NEW d \in inflight', NEW e \in inflight', d.intent = e.intent
        PROVE  d = e
    BY <1>2, <1>3, <2>2 DEF CallOwnsIntent
  <2>3. QED
    BY <1>3, <2>1, <2>2 DEF CallOwnsIntent, KeyOf
<1>9. FrameOwnsIntent'
  BY <1>3 DEF FrameOwnsIntent
<1>10. AtMostOneSend' /\ OutcomeMatchesEvidence'
  BY <1>3, <1>4 DEF AtMostOneSend, OutcomeMatchesEvidence
<1>11. QED
  BY <1>1, <1>6, <1>7, <1>8, <1>9, <1>10

LEMMA ProviderAnswersInv ==
  ASSUME IndInv, NEW c \in inflight, NEW outcome \in Outcomes, ProviderAnswers(c, outcome)
  PROVE  IndInv'
<1> USE DEF IndInv
<1>1. TypeOK'
  BY OtherType DEF Reply
<1>2. /\ c.intent \in Intents /\ c.key \in Keys
      /\ c.key = KeyOf(c.intent)
      /\ intents[c.intent].state \in {"publishing", "withdrawn"}
      /\ records[c.key].state = "attempting"
      /\ \A d \in inflight : d # c => d.intent # c.intent
  BY DEF CallOwnsIntent, TypeOK, Call
<1>3. /\ inflight' = inflight \ {c}
      /\ frame'.pc = "settle_record" /\ frame'.intent = c.intent /\ frame'.key = c.key
      /\ up /\ starting = {}
      /\ UNCHANGED <<up, intents, minted, records, jobs, starting, sent>>
  BY DEF ProviderAnswers, LoopFree
<1>4. KeysFresh' /\ JobsNameIntents' /\ UnclaimedIsUnsent' /\ CallOwnsIntent'
  BY <1>3 DEF KeysFresh, JobsNameIntents, UnclaimedIsUnsent, CallOwnsIntent, KeyOf
<1>5. FrameOwnsIntent'
  BY <1>2, <1>3 DEF FrameOwnsIntent, KeyOf
<1>6. AtMostOneSend' /\ OutcomeMatchesEvidence'
  BY <1>3 DEF AtMostOneSend, OutcomeMatchesEvidence
<1>7. QED
  BY <1>1, <1>4, <1>5, <1>6

LEMMA SettleRecordInv ==
  ASSUME IndInv, SettleRecord
  PROVE  IndInv'
<1> USE DEF IndInv
<1> DEFINE i == frame.intent
           k == frame.key
<1>1. TypeOK'
  BY SynchronousType DEF Synchronous
<1>2. /\ i \in Intents /\ frame.pc = "settle_record" /\ up
      /\ k = KeyOf(i) /\ k \in Keys /\ k # NoKey
      /\ intents[i].state \in {"publishing", "withdrawn"}
      /\ records[k].state = "attempting"
      /\ \A c \in inflight : c.intent # i
  BY ConstantsAssumption DEF SettleRecord, At, FrameOwnsIntent
<1>3. \A j \in Intents : j # i => KeyOf(j) # k
  BY <1>2, KeysApart
<1>4. /\ records'[k].state = frame.outcome
      /\ \A l \in Keys : l # k => records'[l] = records[l]
  BY <1>2, RecordStateUpdate DEF SettleRecord
<1>5. UNCHANGED <<up, intents, minted, jobs, starting, inflight, sent>>
  BY DEF SettleRecord
<1>6. /\ frame'.pc = "settle_intent" /\ frame'.intent = i /\ frame'.key = k
      /\ frame'.job = frame.job /\ frame'.outcome = frame.outcome
  BY DEF SettleRecord, TypeOK, Frame
<1>7. KeysFresh'
  BY <1>2, <1>4, <1>5 DEF KeysFresh, KeyOf
<1>8. JobsNameIntents'
  BY <1>2, <1>5, <1>6 DEF JobsNameIntents
<1>9. UnclaimedIsUnsent'
  BY <1>2, <1>3, <1>4, <1>5 DEF UnclaimedIsUnsent, TypeOK, Intent, KeyOf
<1>10. CallOwnsIntent'
  BY <1>2, <1>3, <1>4, <1>5 DEF CallOwnsIntent, TypeOK, Call, KeyOf
<1>11. FrameOwnsIntent'
  BY <1>2, <1>4, <1>5, <1>6 DEF FrameOwnsIntent, KeyOf
<1>12. AtMostOneSend' /\ OutcomeMatchesEvidence'
  BY <1>2, <1>3, <1>4, <1>5
     DEF AtMostOneSend, OutcomeMatchesEvidence, TypeOK, Intent, KeyOf
<1>13. QED
  BY <1>1, <1>7, <1>8, <1>9, <1>10, <1>11, <1>12

LEMMA SettleIntentInv ==
  ASSUME IndInv, SettleIntent
  PROVE  IndInv'
<1> USE DEF IndInv
<1> DEFINE i == frame.intent
           s == IF frame.outcome = "published" THEN "published" ELSE "failed"
<1>1. TypeOK'
  BY SynchronousType DEF Synchronous
<1>2. /\ i \in Intents /\ frame.pc = "settle_intent" /\ up
      /\ frame.key = KeyOf(i)
      /\ records[KeyOf(i)].state = frame.outcome
      /\ \A c \in inflight : c.intent # i
  BY DEF SettleIntent, At, FrameOwnsIntent
<1>3. /\ intents'[i].state = s
      /\ \A j \in Intents : KeyOf(j)' = KeyOf(j)
      /\ \A j \in Intents : j # i => intents'[j] = intents[j]
  <2>1. intents' = [intents EXCEPT ![i].state = s]
    BY DEF SettleIntent
  <2> HIDE DEF s
  <2>2. QED
    BY <1>2, <2>1, IntentStateUpdate DEF KeyOf
<1>4. frame'.pc = "finish" /\ frame'.intent = i /\ frame'.job = frame.job
  BY DEF SettleIntent, TypeOK, Frame
<1>5. UNCHANGED <<up, minted, records, jobs, starting, inflight, sent>>
  BY DEF SettleIntent
<1>6. KeysFresh' /\ UnclaimedIsUnsent'
  BY <1>3, <1>5 DEF KeysFresh, UnclaimedIsUnsent
<1>7. CallOwnsIntent'
  BY <1>2, <1>3, <1>5 DEF CallOwnsIntent, TypeOK, Call
<1>8. JobsNameIntents' /\ FrameOwnsIntent'
  BY <1>2, <1>4, <1>5 DEF JobsNameIntents, FrameOwnsIntent
<1>9. AtMostOneSend' /\ OutcomeMatchesEvidence'
  BY <1>2, <1>3, <1>5 DEF AtMostOneSend, OutcomeMatchesEvidence, KeyOf
<1>10. QED
  BY <1>1, <1>6, <1>7, <1>8, <1>9

LEMMA FinishAttemptInv ==
  ASSUME IndInv, FinishAttempt
  PROVE  IndInv'
<1> USE DEF IndInv
<1>1. TypeOK'
  BY SynchronousType DEF Synchronous
<1>2. /\ up /\ frame'.pc = "idle" /\ frame'.job = NoKey /\ NoKey \notin starting
      /\ UNCHANGED <<up, intents, minted, records, starting, inflight, sent>>
  BY NoFrameFields, ConstantsAssumption DEF FinishAttempt, At, TypeOK
<1>3. /\ \A k \in Keys : k # frame.job => jobs'[k] = jobs[k]
      /\ \A k \in Keys : jobs'[k].intent = jobs[k].intent
      /\ \A k \in Keys : jobs[k].state = "none" => jobs'[k].state = "none"
  BY DEF FinishAttempt, TypeOK, Job
<1>4. JobsNameIntents'
  BY <1>2, <1>3 DEF JobsNameIntents, TypeOK
<1>5. KeysFresh' /\ UnclaimedIsUnsent' /\ CallOwnsIntent'
  BY <1>2 DEF KeysFresh, UnclaimedIsUnsent, CallOwnsIntent, KeyOf
<1>6. FrameOwnsIntent' /\ AtMostOneSend' /\ OutcomeMatchesEvidence'
  BY <1>2 DEF FrameOwnsIntent, AtMostOneSend, OutcomeMatchesEvidence
<1>7. QED
  BY <1>1, <1>4, <1>5, <1>6

-----------------------------------------------------------------------------
(* The worker's poll and the environment.                                  *)

LEMMA WorkerPollInv ==
  ASSUME IndInv, WorkerPoll
  PROVE  IndInv'
<1> USE DEF IndInv
<1>1. TypeOK'
  BY OtherType
<1>2. PICK S \in SUBSET DueJobs :
         /\ jobs' = [k \in Keys |-> IF k \in S THEN [jobs[k] EXCEPT !.state = "leased"]
                                                ELSE jobs[k]]
         /\ starting' = S
  BY DEF WorkerPoll
<1>3. /\ frame.pc = "idle" /\ up
      /\ UNCHANGED <<up, intents, minted, records, frame, inflight, sent>>
  BY DEF WorkerPoll, LoopFree
<1>4. /\ \A k \in Keys : jobs'[k].intent = jobs[k].intent
      /\ \A k \in Keys : k \notin S => jobs'[k] = jobs[k]
      /\ \A k \in S : k \in Keys /\ jobs[k].state = "queued" /\ jobs'[k].state = "leased"
  BY <1>2 DEF TypeOK, Job, DueJobs
<1>5. JobsNameIntents'
  BY <1>2, <1>3, <1>4, ConstantsAssumption DEF JobsNameIntents
<1>6. KeysFresh' /\ UnclaimedIsUnsent' /\ CallOwnsIntent'
  BY <1>3 DEF KeysFresh, UnclaimedIsUnsent, CallOwnsIntent, KeyOf
<1>7. FrameOwnsIntent' /\ AtMostOneSend' /\ OutcomeMatchesEvidence'
  BY <1>3 DEF FrameOwnsIntent, AtMostOneSend, OutcomeMatchesEvidence
<1>8. QED
  BY <1>1, <1>5, <1>6, <1>7

LEMMA TickInv ==
  ASSUME IndInv, Tick
  PROVE  IndInv'
<1> USE DEF IndInv
<1>1. TypeOK'
  BY OtherType
<1>2. KeysFresh' /\ JobsNameIntents' /\ UnclaimedIsUnsent' /\ CallOwnsIntent'
  BY DEF Tick, KeysFresh, JobsNameIntents, UnclaimedIsUnsent, CallOwnsIntent, KeyOf
<1>3. FrameOwnsIntent' /\ AtMostOneSend' /\ OutcomeMatchesEvidence'
  BY DEF Tick, FrameOwnsIntent, AtMostOneSend, OutcomeMatchesEvidence, KeyOf
<1>4. QED
  BY <1>1, <1>2, <1>3

LEMMA CrashInv ==
  ASSUME IndInv, Crash
  PROVE  IndInv'
<1> USE DEF IndInv
<1>1. TypeOK'
  BY OtherType
<1>2. /\ inflight' = {} /\ starting' = {}
      /\ frame'.pc = "idle" /\ frame'.job = NoKey
      /\ UNCHANGED <<intents, minted, records, jobs, sent>>
  BY NoFrameFields DEF Crash
<1>3. KeysFresh' /\ JobsNameIntents' /\ UnclaimedIsUnsent' /\ CallOwnsIntent'
  BY <1>2 DEF KeysFresh, JobsNameIntents, UnclaimedIsUnsent, CallOwnsIntent, KeyOf
<1>4. FrameOwnsIntent' /\ AtMostOneSend' /\ OutcomeMatchesEvidence'
  BY <1>2 DEF FrameOwnsIntent, AtMostOneSend, OutcomeMatchesEvidence
<1>5. QED
  BY <1>1, <1>3, <1>4

LEMMA RestartInv ==
  ASSUME IndInv, Restart
  PROVE  IndInv'
<1> USE DEF IndInv
<1>1. TypeOK'
  BY OtherType
<1>2. /\ starting = {}
      /\ UNCHANGED <<intents, minted, records, frame, starting, inflight, sent>>
  BY DEF Restart, JobsNameIntents
<1>3. \A k \in Keys : /\ jobs'[k].intent = jobs[k].intent
                      /\ jobs[k].state = "none" => jobs'[k].state = "none"
  BY DEF Restart, TypeOK, Job
<1>4. JobsNameIntents'
  BY <1>2, <1>3 DEF JobsNameIntents
<1>5. KeysFresh' /\ UnclaimedIsUnsent' /\ CallOwnsIntent'
  BY <1>2 DEF KeysFresh, UnclaimedIsUnsent, CallOwnsIntent, KeyOf
<1>6. FrameOwnsIntent' /\ AtMostOneSend' /\ OutcomeMatchesEvidence'
  BY <1>2 DEF FrameOwnsIntent, AtMostOneSend, OutcomeMatchesEvidence, KeyOf
<1>7. QED
  BY <1>1, <1>4, <1>5, <1>6

-----------------------------------------------------------------------------
(* The theorems.                                                           *)

LEMMA NextInv ==
  ASSUME IndInv, [Next]_vars
  PROVE  IndInv'
<1>1. CASE Operator
  BY <1>1, StageInv, ScheduleInv, ApproveInv, WithdrawInv, PublishNowInv DEF Operator
<1>2. CASE Synchronous
  BY <1>2, MintKeyInv, EnqueueJobInv, StartJobInv, SkipAttemptInv, RefuseAttemptInv,
     ClaimIntentInv, BeginRecordInv, CallProviderInv, SettleRecordInv, SettleIntentInv,
     FinishAttemptInv DEF Synchronous
<1>3. CASE WorkerPoll \/ Tick \/ Crash \/ Restart
  BY <1>3, WorkerPollInv, TickInv, CrashInv, RestartInv
<1>4. CASE Reply
  BY <1>4, ProviderAnswersInv DEF Reply
<1>5. CASE UNCHANGED vars
  <2> USE <1>5 DEF vars, IndInv
  <2>1. TypeOK'
    BY DEF TypeOK
  <2>2. KeysFresh' /\ JobsNameIntents' /\ UnclaimedIsUnsent' /\ CallOwnsIntent'
    BY DEF KeysFresh, JobsNameIntents, UnclaimedIsUnsent, CallOwnsIntent, KeyOf
  <2>3. FrameOwnsIntent' /\ AtMostOneSend' /\ OutcomeMatchesEvidence'
    BY DEF FrameOwnsIntent, AtMostOneSend, OutcomeMatchesEvidence, KeyOf
  <2>4. QED
    BY <2>1, <2>2, <2>3
<1>6. QED
  BY <1>1, <1>2, <1>3, <1>4, <1>5 DEF Next

\* Whatever requests, jobs, replies and crashes interleave, the rows, the frame
\* and the calls in flight agree on who may send which post (database.ts rows,
\* runPublishAttempt's locals).
THEOREM Invariance == Spec => []IndInv
<1>1. Init => IndInv
  BY InitInv
<1>2. IndInv /\ [Next]_vars => IndInv'
  BY NextInv
<1>3. QED
  BY <1>1, <1>2, PTL DEF Spec

\* Every row written by the publishing statements has the declared shape.
THEOREM TypeCorrect == Spec => []TypeOK
<1>1. IndInv => TypeOK
  BY DEF IndInv
<1>2. QED
  BY <1>1, Invariance, PTL

\* runPublishAttempt calls executor.publish at most once for a post, for any
\* number of approvals, leftover jobs, manual sends and crashes.
THEOREM SentAtMostOnce == Spec => []AtMostOneSend
<1>1. IndInv => AtMostOneSend
  BY DEF IndInv
<1>2. QED
  BY <1>1, Invariance, PTL

\* settlePublishRecord and settlePublishIntent leave an intent whose outcome its
\* record bears out.
THEOREM EvidenceAgrees == Spec => []OutcomeMatchesEvidence
<1>1. IndInv => OutcomeMatchesEvidence
  BY DEF IndInv
<1>2. QED
  BY <1>1, Invariance, PTL

-----------------------------------------------------------------------------
(* What a send may never do.  Only CallProvider sends.                     *)

LEMMA OnlyCallProviderSends ==
  ASSUME [Next]_vars, sent' # sent
  PROVE  CallProvider
  BY DEF Next, Operator, Synchronous, Reply, vars, Stage, Schedule, Approve, Withdraw,
         PublishNow, MintKey, EnqueueJob, StartJob, SkipAttempt, RefuseAttempt,
         ClaimIntent, BeginRecord, SettleRecord, SettleIntent, FinishAttempt,
         WorkerPoll, ProviderAnswers, Tick, Crash, Restart

\* The send of a post follows beginPublishRecord: its intent is publishing and
\* its record open at the moment of the call.
THEOREM RecordPrecedesCall == Spec => RecordBeforeCall
<1>1. ASSUME IndInv, [Next]_vars, NEW i \in Intents, sent'[i] # sent[i]
      PROVE  /\ intents[i].state = "publishing"
             /\ records[intents[i].key].state = "attempting"
  <2>1. CallProvider
    BY <1>1, OnlyCallProviderSends
  <2>2. frame.intent \in Intents
    BY <1>1, <2>1 DEF IndInv, FrameOwnsIntent, CallProvider, At
  <2>3. i = frame.intent
    BY <1>1, <2>1, <2>2 DEF IndInv, TypeOK, CallProvider
  <2>4. QED
    BY <1>1, <2>1, <2>3 DEF IndInv, FrameOwnsIntent, CallProvider, At, KeyOf
<1>2. IndInv /\ [Next]_vars =>
        [\A i \in Intents : sent'[i] # sent[i] =>
            /\ intents[i].state = "publishing"
            /\ records[intents[i].key].state = "attempting"]_vars
  BY <1>1
<1>3. QED
  BY <1>2, Invariance, PTL DEF Spec, RecordBeforeCall

\* Between the claim and the call nothing else runs, so the daily limit checked
\* before the claim still holds at the call.
CeilingStillOpen ==
    /\ ~ up => frame.pc = "idle"
    /\ frame.pc \in {"begin", "call"} => ~ DailyLimitReached

LEMMA FrameStep ==
  ASSUME TypeOK, [Next]_vars
  PROVE  \/ ClaimIntent \/ BeginRecord
         \/ frame'.pc \notin {"begin", "call"} /\ (frame'.pc = "idle" \/ up')
         \/ UNCHANGED <<frame, records, now>> /\ (up' = up \/ frame.pc = "idle" \/ up')
         \/ Tick
<1> USE NoFrameFields
<1>1. ASSUME NEW i \in Intents, NEW t \in Times,
             Stage(i) \/ Schedule(i, t) \/ Withdraw(i)
      PROVE  UNCHANGED <<frame, records, now>> /\ up' = up
  BY <1>1 DEF Stage, Schedule, Withdraw
<1>2. ASSUME NEW i \in Intents, Approve(i) \/ PublishNow(i)
      PROVE  frame'.pc \in {"mint", "read"} /\ up' 
  <2>1. CASE Approve(i)
    BY <2>1 DEF Approve, LoopFree, NoFrame
  <2>2. CASE PublishNow(i)
    BY <2>2 DEF PublishNow, LoopFree
  <2>3. QED
    BY <1>2, <2>1, <2>2
<1>3. CASE Operator
  BY <1>1, <1>2, <1>3, ConstantsAssumption DEF Operator, Times
<1>4. ASSUME NEW pc, frame' = [frame EXCEPT !.pc = pc]
      PROVE  frame'.pc = pc
  BY <1>4 DEF TypeOK, Frame
<1>5. CASE MintKey
  BY <1>5 DEF MintKey, At, TypeOK, Frame
<1>6. CASE SkipAttempt \/ RefuseAttempt \/ SettleRecord \/ SettleIntent
  <2>1. frame'.pc \in {"finish", "settle_intent"}
    BY <1>4, <1>6 DEF SkipAttempt, RefuseAttempt, SettleRecord, SettleIntent
  <2>2. up'
    BY <1>6 DEF At, SkipAttempt, RefuseAttempt, SettleRecord, SettleIntent
  <2>3. QED
    BY <2>1, <2>2
<1>7. CASE EnqueueJob \/ CallProvider \/ FinishAttempt
  BY <1>7 DEF EnqueueJob, CallProvider, FinishAttempt
<1>8. ASSUME NEW k \in Keys, StartJob(k)
      PROVE  frame'.pc = "read" /\ up'
  BY <1>8 DEF StartJob, At
<1>9. CASE Synchronous
  BY <1>5, <1>6, <1>7, <1>8, <1>9 DEF Synchronous
<1>10. CASE WorkerPoll \/ Restart \/ UNCHANGED vars
  BY <1>10 DEF WorkerPoll, Restart, vars
<1>11. CASE Reply \/ Crash
  BY <1>11 DEF Reply, ProviderAnswers, LoopFree, Crash
<1>12. QED
  BY <1>3, <1>9, <1>10, <1>11 DEF Next

LEMMA SamePublished ==
  ASSUME now' = now,
         \A k \in Keys : records'[k].state = "published" <=> records[k].state = "published",
         \A k \in Keys : records[k].state = "published" => records'[k] = records[k]
  PROVE  DailyLimitReached' <=> DailyLimitReached
<1>1. {k \in Keys : /\ records'[k].state = "published"
                    /\ records'[k].at >= IF now' >= Window THEN now' - Window ELSE 0}
        = {k \in Keys : /\ records[k].state = "published"
                        /\ records[k].at >= IF now >= Window THEN now - Window ELSE 0}
  OBVIOUS
<1>2. QED
  BY <1>1 DEF DailyLimitReached, PublishedSince

LEMMA CeilingStillOpenStep ==
  ASSUME IndInv, CeilingStillOpen, [Next]_vars
  PROVE  CeilingStillOpen'
<1>1. TypeOK
  BY DEF IndInv
<1>2. CASE ClaimIntent
  BY <1>2 DEF ClaimIntent, At, DailyLimitReached, PublishedSince, CeilingStillOpen
<1>3. CASE BeginRecord
  <2>1. /\ frame.pc = "begin" /\ frame.key \in Keys /\ up
        /\ records[frame.key].state = "none"
        /\ now' = now /\ up' = up
    BY <1>3 DEF BeginRecord, At, IndInv, FrameOwnsIntent
  <2>2. records' = [records EXCEPT ![frame.key] = [state |-> "attempting", at |-> now]]
    BY <1>3, <2>1 DEF BeginRecord
  <2>3. /\ \A k \in Keys : k # frame.key => records'[k] = records[k]
        /\ records'[frame.key].state = "attempting"
    BY <1>1, <2>1, <2>2 DEF TypeOK
  <2>4. DailyLimitReached' <=> DailyLimitReached
    BY <2>1, <2>3, SamePublished
  <2>5. QED
    BY <2>1, <2>4 DEF CeilingStillOpen
<1>4. CASE Tick
  BY <1>4 DEF Tick, LoopFree, CeilingStillOpen
<1>5. CASE frame'.pc \notin {"begin", "call"} /\ (frame'.pc = "idle" \/ up')
  BY <1>5 DEF CeilingStillOpen
<1>6. CASE UNCHANGED <<frame, records, now>> /\ (up' = up \/ frame.pc = "idle" \/ up')
  BY <1>6, SamePublished DEF CeilingStillOpen
<1>7. QED
  BY <1>1, <1>2, <1>3, <1>4, <1>5, <1>6, FrameStep

\* dailyLimitReached is asked before the claim, and its answer still holds when
\* executor.publish is called.
THEOREM CeilingRespectedAtCall == Spec => NoSendOnceCeilingKnown
<1>1. Init => CeilingStillOpen
  BY DEF Init, NoFrame, CeilingStillOpen
<1>2. CeilingStillOpen /\ [Next]_vars => [sent' # sent => ~ DailyLimitReached]_vars
  BY OnlyCallProviderSends DEF CallProvider, At, CeilingStillOpen
<1>3. IndInv /\ CeilingStillOpen /\ [Next]_vars => CeilingStillOpen'
  BY CeilingStillOpenStep
<1>4. QED
  BY <1>1, <1>2, <1>3, Invariance, PTL DEF Spec, NoSendOnceCeilingKnown

-----------------------------------------------------------------------------
(* The pipeline implements the promise made to the operator.               *)

LEMMA PhaseInit == Init => Consents!Init
  BY DEF Init, Consents!Init, PhaseOf, Phase

\* One post changed, from a phase to a phase the promise lets it take.
LEMMA PhaseStep ==
  ASSUME NEW i \in Intents,
         \A j \in Intents : j # i => PhaseOf(j)' = PhaseOf(j),
         \/ PhaseOf(i)' = PhaseOf(i)
         \/ PhaseOf(i) = "draft" /\ PhaseOf(i)' \in {"consented", "closed"}
         \/ PhaseOf(i) = "consented" /\ PhaseOf(i)' \in {"draft", "sent", "closed"}
  PROVE  [Consents!Next]_Phase
<1> USE DEF Phase
<1>1. Phase' = [Phase EXCEPT ![i] = PhaseOf(i)']
  OBVIOUS
<1>2. CASE PhaseOf(i)' = PhaseOf(i)
  <2>1. Phase' = Phase
    BY <1>1, <1>2
  <2>2. QED
    BY <2>1
<1>3. CASE PhaseOf(i) = "draft" /\ PhaseOf(i)' = "consented"
  BY <1>1, <1>3 DEF Consents!Next, Consents!Consent, Consents!Become
<1>4. CASE PhaseOf(i) = "draft" /\ PhaseOf(i)' = "closed"
  BY <1>1, <1>4 DEF Consents!Next, Consents!Close, Consents!Become
<1>5. CASE PhaseOf(i) = "consented" /\ PhaseOf(i)' = "draft"
  BY <1>1, <1>5 DEF Consents!Next, Consents!Revoke, Consents!Become
<1>6. CASE PhaseOf(i) = "consented" /\ PhaseOf(i)' = "sent"
  BY <1>1, <1>6 DEF Consents!Next, Consents!Send, Consents!Become
<1>7. CASE PhaseOf(i) = "consented" /\ PhaseOf(i)' = "closed"
  BY <1>1, <1>7 DEF Consents!Next, Consents!Close, Consents!Become
<1>8. QED
  BY <1>2, <1>3, <1>4, <1>5, <1>6, <1>7

LEMMA PhaseUnchanged ==
  ASSUME \A j \in Intents : intents'[j].state = intents[j].state,
         \A j \in Intents : sent'[j] = sent[j]
  PROVE  [Consents!Next]_Phase
<1>1. \A j \in Intents : PhaseOf(j)' = PhaseOf(j)
  BY DEF PhaseOf
<1>2. CASE Intents = {}
  BY <1>2 DEF Phase
<1>3. CASE Intents # {}
  BY <1>1, <1>3, PhaseStep
<1>4. QED
  BY <1>2, <1>3

LEMMA PhaseOfState ==
  ASSUME NEW i \in Intents
  PROVE  /\ sent[i] > 0 => PhaseOf(i) = "sent"
         /\ ~ (sent[i] > 0) =>
              /\ intents[i].state \in {"absent", "staged"} => PhaseOf(i) = "draft"
              /\ intents[i].state \in {"approved", "publishing"} => PhaseOf(i) = "consented"
              /\ intents[i].state \in {"published", "failed", "withdrawn"}
                   => PhaseOf(i) = "closed"
  BY DEF PhaseOf

LEMMA PhaseOfNextState ==
  ASSUME NEW i \in Intents
  PROVE  /\ sent'[i] > 0 => PhaseOf(i)' = "sent"
         /\ ~ (sent'[i] > 0) =>
              /\ intents'[i].state \in {"absent", "staged"} => PhaseOf(i)' = "draft"
              /\ intents'[i].state \in {"approved", "publishing"}
                   => PhaseOf(i)' = "consented"
              /\ intents'[i].state \in {"published", "failed", "withdrawn"}
                   => PhaseOf(i)' = "closed"
  BY DEF PhaseOf

LEMMA OperatorPhase ==
  ASSUME IndInv, NEW i \in Intents, NEW t \in Times,
         Stage(i) \/ Schedule(i, t) \/ Approve(i) \/ Withdraw(i)
  PROVE  [Consents!Next]_Phase
<1>1. sent' = sent /\ \A j \in Intents : j # i => intents'[j] = intents[j]
  BY DEF Stage, Schedule, Approve, Withdraw, IndInv, TypeOK
<1>2. \A j \in Intents : j # i => PhaseOf(j)' = PhaseOf(j)
  BY <1>1 DEF PhaseOf
<1>3. intents[i].state \in IntentState
  BY IntentRow DEF IndInv, TypeOK
<1>4. CASE Stage(i)
  <2>1. intents[i].state = "absent" /\ intents'[i].state = "staged"
    BY <1>4, IntentStateUpdate DEF Stage, IndInv
  <2>2. QED
    BY <1>1, <1>2, <2>1, PhaseStep, PhaseOfState, PhaseOfNextState
<1>5. CASE Schedule(i, t)
  <2>1. intents'[i].state = IF intents[i].state = "approved" THEN "staged"
                                                             ELSE intents[i].state
    BY <1>5 DEF Schedule, IndInv, TypeOK, Intent
  <2>2. CASE intents[i].state = "approved"
    BY <1>1, <1>2, <2>1, <2>2, PhaseStep, PhaseOfState, PhaseOfNextState
  <2>3. CASE intents[i].state # "approved"
    BY <1>1, <2>1, <2>3, PhaseUnchanged
  <2>4. QED
    BY <2>2, <2>3
<1>6. CASE Approve(i)
  <2>1. intents[i].state = "staged" /\ intents'[i].state = "approved"
    BY <1>6, IntentStateUpdate DEF Approve, IndInv
  <2>2. QED
    BY <1>1, <1>2, <2>1, PhaseStep, PhaseOfState, PhaseOfNextState
<1>7. CASE Withdraw(i)
  <2>1. intents'[i].state = "withdrawn"
    BY <1>7, IntentStateUpdate DEF Withdraw, IndInv
  <2>2. \/ PhaseOf(i)' = PhaseOf(i)
        \/ PhaseOf(i) \in {"draft", "consented"} /\ PhaseOf(i)' = "closed"
    BY <1>1, <1>3, <2>1, PhaseOfState, PhaseOfNextState DEF IntentState
  <2>3. QED
    BY <1>2, <2>2, PhaseStep
<1>8. QED
  BY <1>4, <1>5, <1>6, <1>7

LEMMA AttemptPhase ==
  ASSUME IndInv, RefuseAttempt \/ ClaimIntent \/ CallProvider \/ SettleIntent
  PROVE  [Consents!Next]_Phase
<1> DEFINE i == frame.intent
<1>1. i \in Intents
  BY DEF RefuseAttempt, ClaimIntent, CallProvider, SettleIntent, At, IndInv, FrameOwnsIntent
<1>2. CASE RefuseAttempt
  <2>1. /\ intents[i].state = "approved" /\ intents'[i].state = "failed"
        /\ sent' = sent
        /\ \A j \in Intents : j # i => intents'[j] = intents[j]
    BY <1>1, <1>2, IntentStateUpdate DEF RefuseAttempt, Attemptable, IndInv
  <2>2. \A j \in Intents : j # i => PhaseOf(j)' = PhaseOf(j)
    BY <2>1 DEF PhaseOf
  <2>3. \/ PhaseOf(i) = "consented" /\ (sent'[i] > 0 \/ intents'[i].state = "failed")
        \/ PhaseOf(i) = "sent" /\ sent'[i] > 0
    BY <1>1, <2>1, PhaseOfState
  <2>4. QED
    BY <1>1, <2>1, <2>2, <2>3, PhaseStep, PhaseOfState, PhaseOfNextState
<1>3. CASE ClaimIntent
  <2>1. /\ intents[i].state = "approved" /\ intents'[i].state = "publishing"
        /\ sent' = sent
        /\ \A j \in Intents : j # i => intents'[j] = intents[j]
    BY <1>1, <1>3, IntentStateUpdate DEF ClaimIntent, Attemptable, IndInv
  <2>2. \A j \in Intents : PhaseOf(j)' = PhaseOf(j)
    BY <2>1 DEF PhaseOf
  <2>3. QED
    BY <1>1, <2>2, PhaseStep
<1>4. CASE CallProvider
  <2>1. /\ intents[i].state = "publishing" /\ sent[i] = 0 /\ sent'[i] = 1
        /\ intents' = intents
        /\ \A j \in Intents : j # i => sent'[j] = sent[j]
    BY <1>1, <1>4 DEF CallProvider, At, IndInv, FrameOwnsIntent, TypeOK
  <2>2. \A j \in Intents : j # i => PhaseOf(j)' = PhaseOf(j)
    BY <2>1 DEF PhaseOf
  <2>3. PhaseOf(i) = "consented" /\ sent'[i] > 0
    BY <1>1, <2>1, PhaseOfState
  <2>4. QED
    BY <1>1, <2>2, <2>3, PhaseStep, PhaseOfNextState
<1>5. CASE SettleIntent
  <2>1. /\ intents[i].state \in {"publishing", "withdrawn"}
        /\ intents'[i].state \in {"published", "failed"}
        /\ sent' = sent
        /\ \A j \in Intents : j # i => intents'[j] = intents[j]
    BY <1>1, <1>5 DEF SettleIntent, At, IndInv, FrameOwnsIntent, TypeOK, Intent
  <2>2. \A j \in Intents : j # i => PhaseOf(j)' = PhaseOf(j)
    BY <2>1 DEF PhaseOf
  <2>3. QED
    BY <1>1, <2>1, <2>2, PhaseStep, PhaseOfState, PhaseOfNextState
<1>6. QED
  BY <1>2, <1>3, <1>4, <1>5

LEMMA NextPhase ==
  ASSUME IndInv, [Next]_vars
  PROVE  [Consents!Next]_Phase
<1>1. CASE UNCHANGED <<intents, sent>>
  BY <1>1, PhaseUnchanged
<1>2. CASE Operator
  <2>1. PICK i \in Intents :
           \/ \E t \in Times : Stage(i) \/ Schedule(i, t) \/ Approve(i) \/ Withdraw(i)
           \/ PublishNow(i)
    BY <1>2, ConstantsAssumption DEF Operator, Times
  <2>2. QED
    BY <1>1, <2>1, OperatorPhase DEF PublishNow
<1>3. CASE MintKey
  <2>1. \A j \in Intents : intents'[j].state = intents[j].state
    BY <1>3 DEF MintKey, IndInv, TypeOK, Intent
  <2>2. QED
    BY <1>3, <2>1, PhaseUnchanged DEF MintKey
<1>4. CASE BeginRecord
  BY <1>1, <1>4 DEF BeginRecord, At, IndInv, FrameOwnsIntent
<1>5. CASE RefuseAttempt \/ ClaimIntent \/ CallProvider \/ SettleIntent
  BY <1>5, AttemptPhase
<1>6. CASE EnqueueJob \/ SkipAttempt \/ SettleRecord \/ FinishAttempt
  BY <1>1, <1>6 DEF EnqueueJob, SkipAttempt, SettleRecord, FinishAttempt
<1>7. ASSUME NEW k \in Keys, StartJob(k)
      PROVE  UNCHANGED <<intents, sent>>
  BY <1>7 DEF StartJob
<1>8. CASE WorkerPoll \/ Reply \/ Tick \/ Crash \/ Restart \/ UNCHANGED vars
  BY <1>1, <1>8 DEF WorkerPoll, Reply, ProviderAnswers, Tick, Crash, Restart, vars
<1>9. QED
  BY <1>1, <1>2, <1>3, <1>4, <1>5, <1>6, <1>7, <1>8 DEF Next, Synchronous

\* The publishing path as a whole (stage, schedule, approve, withdraw,
\* publishNow, the job handler and its crashes) implements PublishConsent.
THEOREM PipelineKeepsConsent == Spec => ImplementsConsent
<1>1. Init => Consents!Init
  BY PhaseInit
<1>2. IndInv /\ [Next]_vars => [Consents!Next]_Phase
  BY NextPhase
<1>3. QED
  BY <1>1, <1>2, Invariance, PTL DEF Spec, ImplementsConsent, Consents!Spec

-----------------------------------------------------------------------------
(* A job and its slot.                                                     *)

\* A queued job is not due before its slot; a leased one, and the attempt it
\* started, are past it.
SlotReached ==
    /\ \A k \in Keys : jobs[k].state = "queued" => jobs[k].due >= jobs[k].slot
    /\ \A k \in Keys : jobs[k].state = "leased" => now >= jobs[k].slot
    /\ \A k \in Keys : frame.pc \in {"read", "begin", "call"} /\ frame.job = k
                         => now >= jobs[k].slot

LEMMA SlotReachedStep ==
  ASSUME IndInv, SlotReached, [Next]_vars
  PROVE  SlotReached'
<1> USE NoFrameFields
<1>1. /\ \A k \in Keys : jobs[k].due \in Nat /\ jobs[k].slot \in Nat
      /\ now \in Nat
  BY ConstantsAssumption DEF IndInv, TypeOK, Job, Times
<1>2. NoKey \notin Keys
  BY ConstantsAssumption
<1>3. CASE UNCHANGED <<now, jobs, frame>>
  BY <1>3 DEF SlotReached
<1>4. CASE Operator
  <2>1. ASSUME NEW i \in Intents, NEW t \in Times,
               Stage(i) \/ Schedule(i, t) \/ Withdraw(i)
        PROVE  UNCHANGED <<now, jobs, frame>>
    BY <2>1 DEF Stage, Schedule, Withdraw
  <2>2. ASSUME NEW i \in Intents, Approve(i)
        PROVE  frame'.pc = "mint" /\ UNCHANGED <<now, jobs>>
    BY <2>2 DEF Approve, NoFrame
  <2>3. ASSUME NEW i \in Intents, PublishNow(i)
        PROVE  frame'.job = NoKey /\ UNCHANGED <<now, jobs>>
    BY <2>3 DEF PublishNow
  <2>4. \/ UNCHANGED <<now, jobs, frame>>
        \/ UNCHANGED <<now, jobs>> /\ (frame'.pc = "mint" \/ frame'.job = NoKey)
    BY <1>4, <2>1, <2>2, <2>3, ConstantsAssumption DEF Operator, Times
  <2>5. QED
    BY <1>2, <2>4 DEF SlotReached
<1>5. CASE EnqueueJob
  <2>1. /\ frame'.pc = "idle" /\ now' = now
        /\ \A k \in Keys : \/ jobs'[k] = jobs[k]
                           \/ jobs'[k].state = "queued" /\ jobs'[k].due = jobs'[k].slot
    BY <1>5 DEF EnqueueJob, IndInv, TypeOK
  <2>2. jobs' \in [Keys -> Job]
    BY NextType DEF IndInv, TypeOK
  <2>3. \A k \in Keys : jobs'[k].due >= jobs'[k].due
    BY <2>2 DEF Job, Times
  <2>4. QED
    BY <2>1, <2>3 DEF SlotReached
<1>6. ASSUME NEW j \in Keys, StartJob(j)
      PROVE  SlotReached'
  <2>1. /\ frame'.job = j /\ jobs[j].state = "leased"
        /\ UNCHANGED <<now, jobs>>
    BY <1>6 DEF StartJob, IndInv, JobsNameIntents
  <2>2. QED
    BY <2>1 DEF SlotReached
<1>7. CASE MintKey \/ SkipAttempt \/ RefuseAttempt \/ SettleRecord \/ SettleIntent
  <2>1. frame'.pc \in {"enqueue", "finish", "settle_intent"}
    BY <1>7 DEF MintKey, SkipAttempt, RefuseAttempt, SettleRecord, SettleIntent,
       IndInv, TypeOK, Frame
  <2>2. UNCHANGED <<now, jobs>>
    BY <1>7 DEF MintKey, SkipAttempt, RefuseAttempt, SettleRecord, SettleIntent
  <2>3. QED
    BY <2>1, <2>2 DEF SlotReached
<1>8. CASE ClaimIntent \/ BeginRecord
  <2>1. /\ frame.pc \in {"read", "begin"} /\ frame'.job = frame.job
        /\ UNCHANGED <<now, jobs>>
    BY <1>8 DEF ClaimIntent, BeginRecord, At, IndInv, TypeOK, Frame
  <2>2. QED
    BY <2>1 DEF SlotReached
<1>9. CASE CallProvider
  BY <1>9 DEF CallProvider, SlotReached
<1>10. CASE FinishAttempt
  <2>1. /\ frame'.pc = "idle" /\ now' = now
        /\ \A k \in Keys : jobs'[k] = jobs[k] \/ jobs'[k].state = "succeeded"
    BY <1>10 DEF FinishAttempt, IndInv, TypeOK, Job
  <2>2. QED
    BY <2>1 DEF SlotReached
<1>11. CASE WorkerPoll
  <2>1. PICK S \in SUBSET DueJobs :
           jobs' = [k \in Keys |-> IF k \in S THEN [jobs[k] EXCEPT !.state = "leased"]
                                              ELSE jobs[k]]
    BY <1>11 DEF WorkerPoll
  <2>2. \A k \in Keys :
           \/ jobs'[k] = jobs[k]
           \/ /\ jobs'[k].state = "leased" /\ jobs'[k].slot = jobs[k].slot
              /\ jobs[k].state = "queued" /\ jobs[k].due <= now
    BY <2>1 DEF DueJobs, IndInv, TypeOK, Job
  <2>3. UNCHANGED <<now, frame>> /\ frame.pc = "idle"
    BY <1>11 DEF WorkerPoll, LoopFree
  <2>4. QED
    BY <1>1, <2>2, <2>3 DEF SlotReached
<1>12. CASE Reply
  BY <1>12 DEF Reply, ProviderAnswers, SlotReached
<1>13. CASE Tick
  BY <1>1, <1>13 DEF Tick, SlotReached
<1>14. CASE Crash
  BY <1>14 DEF Crash, SlotReached
<1>15. CASE Restart
  <2> DEFINE requeued(k) == [jobs[k] EXCEPT !.state = "queued", !.due = now]
  <2>1. ASSUME NEW k \in Keys
        PROVE  /\ requeued(k).state = "queued" /\ requeued(k).due = now
               /\ requeued(k).slot = jobs[k].slot
    BY DEF IndInv, TypeOK, Job
  <2>2. \A k \in Keys : jobs'[k] = IF jobs[k].state = "leased" THEN requeued(k)
                                                               ELSE jobs[k]
    BY <1>15 DEF Restart
  <2> HIDE DEF requeued
  <2>3. UNCHANGED <<now, frame>>
    BY <1>15 DEF Restart
  <2>4. QED
    BY <1>1, <2>1, <2>2, <2>3 DEF SlotReached
<1>16. QED
  BY <1>3, <1>4, <1>5, <1>6, <1>7, <1>8, <1>9, <1>10, <1>11, <1>12, <1>13, <1>14,
     <1>15 DEF Next, Synchronous, vars

\* recoverInterruptedRuns and claimJobs never let a job send before the time it
\* was enqueued for.
THEOREM JobsWaitForTheirSlot == Spec => JobNeverBeforeItsSlot
<1>1. Init => SlotReached
  BY DEF Init, NoFrame, SlotReached
<1>2. IndInv /\ SlotReached /\ [Next]_vars => SlotReached'
  BY SlotReachedStep
<1>3. SlotReached /\ [Next]_vars =>
        [\A k \in Keys : (sent' # sent /\ frame.job = k) => now >= jobs[k].slot]_vars
  BY OnlyCallProviderSends DEF CallProvider, At, SlotReached
<1>4. QED
  BY <1>1, <1>2, <1>3, Invariance, PTL DEF Spec, JobNeverBeforeItsSlot

-----------------------------------------------------------------------------
(* No lease is stranded.                                                   *)

LEMMA FrameMoves ==
  ASSUME TypeOK, NEW pc, frame' = [frame EXCEPT !.pc = pc]
  PROVE  frame'.pc = pc /\ frame'.job = frame.job /\ frame'.intent = frame.intent
         /\ frame'.key = frame.key
  BY DEF TypeOK, Frame

\* A request's frame is no job's.
ApprovalHasNoJob == frame.pc \in {"mint", "enqueue"} => frame.job = NoKey

LEMMA ApprovalHasNoJobStep ==
  ASSUME TypeOK, ApprovalHasNoJob, [Next]_vars
  PROVE  ApprovalHasNoJob'
<1> USE NoFrameFields
<1>1. CASE Operator
  <2>1. PICK i \in Intents : \/ Stage(i) \/ (\E t \in Times : Schedule(i, t))
                             \/ Approve(i) \/ Withdraw(i) \/ PublishNow(i)
    BY <1>1 DEF Operator
  <2>2. CASE Approve(i)
    BY <2>2 DEF Approve, NoFrame, ApprovalHasNoJob
  <2>3. CASE PublishNow(i)
    BY <2>3 DEF PublishNow, ApprovalHasNoJob
  <2>4. CASE Stage(i) \/ (\E t \in Times : Schedule(i, t)) \/ Withdraw(i)
    BY <2>4 DEF Stage, Schedule, Withdraw, ApprovalHasNoJob
  <2> QED BY <2>1, <2>2, <2>3, <2>4
<1>2. CASE MintKey
  BY <1>2 DEF MintKey, At, TypeOK, Frame, ApprovalHasNoJob
<1>3. CASE SkipAttempt \/ RefuseAttempt \/ ClaimIntent \/ BeginRecord
           \/ SettleRecord \/ SettleIntent
  <2>1. frame'.pc \notin {"mint", "enqueue"}
    BY <1>3 DEF SkipAttempt, RefuseAttempt, ClaimIntent, BeginRecord, SettleRecord,
                SettleIntent, TypeOK, Frame
  <2> QED BY <2>1 DEF ApprovalHasNoJob
<1>4. CASE EnqueueJob \/ CallProvider \/ FinishAttempt \/ Crash \/ Reply
  BY <1>4 DEF EnqueueJob, CallProvider, FinishAttempt, Crash, Reply, ProviderAnswers,
              ApprovalHasNoJob
<1>5. ASSUME NEW k \in Keys, StartJob(k)
      PROVE  ApprovalHasNoJob'
  BY <1>5 DEF StartJob, ApprovalHasNoJob
<1>6. CASE WorkerPoll \/ Tick \/ Restart \/ UNCHANGED vars
  BY <1>6 DEF WorkerPoll, Tick, Restart, vars, ApprovalHasNoJob
<1> QED
  BY <1>1, <1>2, <1>3, <1>4, <1>5, <1>6 DEF Next, Synchronous

LEMMA LeasedIsInHandStep ==
  ASSUME IndInv, ApprovalHasNoJob, LeasedIsInHand, [Next]_vars
  PROVE  LeasedIsInHand'
<1> USE NoFrameFields
<1>1. /\ TypeOK
      /\ NoKey \notin Keys
      /\ frame.pc = "idle" => frame.job = NoKey
  BY ConstantsAssumption DEF IndInv, JobsNameIntents
<1>2. CASE UNCHANGED <<up, jobs, frame, starting, inflight>>
  BY <1>2 DEF LeasedIsInHand
<1>3. CASE Operator
  <2>1. PICK i \in Intents : \/ Stage(i) \/ (\E t \in Times : Schedule(i, t))
                             \/ Approve(i) \/ Withdraw(i) \/ PublishNow(i)
    BY <1>3 DEF Operator
  <2>2. UNCHANGED <<up, jobs, starting, inflight>> /\ frame.pc = "idle"
    BY <2>1 DEF Stage, Schedule, Approve, Withdraw, PublishNow, LoopFree
  <2> QED BY <1>1, <2>2 DEF LeasedIsInHand
<1>4. CASE EnqueueJob
  <2>1. /\ \A k \in Keys : jobs'[k] = jobs[k] \/ jobs'[k].state = "queued"
        /\ UNCHANGED <<up, starting, inflight>>
    BY <1>1, <1>4 DEF EnqueueJob, TypeOK
  <2>2. frame.job = NoKey
    BY <1>4 DEF EnqueueJob, At, ApprovalHasNoJob
  <2> QED BY <1>1, <2>1, <2>2 DEF LeasedIsInHand
<1>5. ASSUME NEW j \in Keys, StartJob(j)
      PROVE  LeasedIsInHand'
  <2>1. /\ starting' = starting \ {j} /\ frame'.job = j /\ frame.pc = "idle"
        /\ UNCHANGED <<up, jobs, inflight>>
    BY <1>5 DEF StartJob, At
  <2> QED BY <1>1, <2>1 DEF LeasedIsInHand
<1>6. CASE MintKey \/ SkipAttempt \/ RefuseAttempt \/ ClaimIntent \/ BeginRecord
           \/ SettleRecord \/ SettleIntent
  <2>1. frame'.job = frame.job
    BY <1>1, <1>6 DEF MintKey, SkipAttempt, RefuseAttempt, ClaimIntent, BeginRecord,
                      SettleRecord, SettleIntent, TypeOK, Frame
  <2>2. UNCHANGED <<up, jobs, starting, inflight>>
    BY <1>6 DEF MintKey, SkipAttempt, RefuseAttempt, ClaimIntent, BeginRecord,
                SettleRecord, SettleIntent
  <2> QED BY <2>1, <2>2 DEF LeasedIsInHand
<1>7. CASE CallProvider
  <2> DEFINE call == [intent |-> frame.intent, key |-> frame.key, job |-> frame.job]
  <2>1. inflight' = inflight \cup {call} /\ UNCHANGED <<up, jobs, starting>>
    BY <1>7 DEF CallProvider
  <2>2. call.job = frame.job
    OBVIOUS
  <2> HIDE DEF call
  <2> QED BY <2>1, <2>2 DEF LeasedIsInHand
<1>8. CASE FinishAttempt
  <2>1. /\ \A k \in Keys : jobs'[k] = jobs[k] \/ jobs'[k].state = "succeeded"
        /\ frame.job \in Keys => jobs'[frame.job].state # "leased"
        /\ UNCHANGED <<up, starting, inflight>>
    BY <1>1, <1>8 DEF FinishAttempt, TypeOK, Job
  <2> QED BY <2>1 DEF LeasedIsInHand
<1>9. CASE WorkerPoll
  <2>1. PICK S \in SUBSET DueJobs :
           /\ jobs' = [k \in Keys |-> IF k \in S THEN [jobs[k] EXCEPT !.state = "leased"]
                                              ELSE jobs[k]]
           /\ starting' = S
    BY <1>9 DEF WorkerPoll
  <2>2. \A k \in Keys : jobs[k].state # "leased"
    BY <1>9 DEF WorkerPoll, Leased
  <2> QED BY <2>1, <2>2 DEF LeasedIsInHand
<1>10. ASSUME NEW c \in inflight, NEW outcome \in Outcomes, ProviderAnswers(c, outcome)
       PROVE  LeasedIsInHand'
  <2>1. /\ inflight' = inflight \ {c} /\ frame'.job = c.job /\ frame.pc = "idle"
        /\ UNCHANGED <<up, jobs, starting>>
    BY <1>10 DEF ProviderAnswers, LoopFree
  <2> QED BY <1>1, <2>1 DEF LeasedIsInHand
<1>11. CASE Crash
  BY <1>11 DEF Crash, LeasedIsInHand
<1>12. CASE Restart
  <2> DEFINE requeued(k) == [jobs[k] EXCEPT !.state = "queued", !.due = now]
  <2>1. \A k \in Keys : requeued(k).state = "queued"
    BY <1>1 DEF TypeOK, Job
  <2>2. \A k \in Keys : jobs'[k] = IF jobs[k].state = "leased" THEN requeued(k)
                                                               ELSE jobs[k]
    BY <1>12 DEF Restart
  <2> HIDE DEF requeued
  <2> QED BY <2>1, <2>2 DEF LeasedIsInHand
<1>13. CASE Tick \/ UNCHANGED vars
  BY <1>2, <1>13 DEF Tick, vars
<1> QED
  BY <1>3, <1>4, <1>5, <1>6, <1>7, <1>8, <1>9, <1>10, <1>11, <1>12, <1>13
  DEF Next, Synchronous, Reply

\* claimJobs leases nothing that is then forgotten: while the daemon is up every leased
\* job is about to be handled, is handled, or awaits its provider's answer.
THEOREM NoLeaseIsStranded == Spec => []LeasedIsInHand
<1>1. Init => ApprovalHasNoJob /\ LeasedIsInHand
  BY DEF Init, NoFrame, ApprovalHasNoJob, LeasedIsInHand
<1>2. IndInv /\ ApprovalHasNoJob /\ LeasedIsInHand /\ [Next]_vars
        => ApprovalHasNoJob' /\ LeasedIsInHand'
  BY ApprovalHasNoJobStep, LeasedIsInHandStep DEF IndInv
<1> QED BY <1>1, <1>2, Invariance, PTL DEF Spec


-----------------------------------------------------------------------------
(* An abandoned attempt.                                                   *)

\* What one step may do to whether the attempt under k is abandoned.
AbandonedMoves(k) ==
    /\ Abandoned(k) => Abandoned(k)'
    /\ Abandoned(k)' => Abandoned(k) \/ crashes' > crashes

\* A step that neither writes the record nor comes to, or from, the awaited call.
LEMMA AbandonedSame ==
  ASSUME NEW k \in Keys, records'[k] = records[k], inflight' = inflight,
         \/ frame' = frame
         \/ /\ frame.pc \notin {"call", "settle_record"}
            /\ frame'.pc \notin {"call", "settle_record"}
  PROVE  AbandonedMoves(k)
  BY DEF AbandonedMoves, Abandoned

LEMMA AbandonedStep ==
  ASSUME IndInv, [Next]_vars, NEW k \in Keys
  PROVE  AbandonedMoves(k)
<1> USE NoFrameFields
<1>1. TypeOK
  BY DEF IndInv
<1>2. CASE Operator
  <2>1. PICK i \in Intents : \/ Stage(i) \/ (\E t \in Times : Schedule(i, t))
                             \/ Approve(i) \/ Withdraw(i) \/ PublishNow(i)
    BY <1>2 DEF Operator
  <2>2. UNCHANGED <<records, inflight>> /\ frame.pc = "idle"
    BY <2>1 DEF Stage, Schedule, Approve, Withdraw, PublishNow, LoopFree
  <2>3. CASE Approve(i)
    <3>1. frame'.pc = "mint"
      BY <2>3 DEF Approve, NoFrame
    <3> QED BY <2>2, <3>1, AbandonedSame
  <2>4. CASE PublishNow(i)
    <3>1. frame'.pc = "read"
      BY <2>4 DEF PublishNow
    <3> QED BY <2>2, <3>1, AbandonedSame
  <2>5. CASE Stage(i) \/ (\E t \in Times : Schedule(i, t)) \/ Withdraw(i)
    <3>1. frame' = frame
      BY <2>5 DEF Stage, Schedule, Withdraw
    <3> QED BY <2>2, <3>1, AbandonedSame
  <2> QED BY <2>1, <2>3, <2>4, <2>5
<1>3. CASE MintKey \/ EnqueueJob \/ SkipAttempt \/ ClaimIntent \/ SettleIntent \/ FinishAttempt
  <2>1. /\ UNCHANGED <<records, inflight>>
        /\ frame.pc \notin {"call", "settle_record"}
        /\ frame'.pc \notin {"call", "settle_record"}
    BY <1>1, <1>3 DEF MintKey, EnqueueJob, SkipAttempt, ClaimIntent, SettleIntent,
                      FinishAttempt, At, TypeOK, Frame
  <2> QED BY <2>1, AbandonedSame
<1>4. ASSUME NEW j \in Keys, StartJob(j)
      PROVE  AbandonedMoves(k)
  <2>1. UNCHANGED <<records, inflight>> /\ frame.pc = "idle" /\ frame'.pc = "read"
    BY <1>4 DEF StartJob, At
  <2> QED BY <2>1, AbandonedSame
<1>5. CASE RefuseAttempt
  <2>1. /\ frame.intent \in Intents /\ frame.pc = "read"
        /\ records[KeyOf(frame.intent)].state # "attempting"
    BY <1>5 DEF RefuseAttempt, At, Attemptable, IndInv, FrameOwnsIntent, UnclaimedIsUnsent, KeyOf
  <2>2. UNCHANGED <<records, inflight>>
    BY <1>5, <2>1 DEF RefuseAttempt, KeyOf
  <2>3. frame'.pc = "finish"
    BY <1>1, <1>5 DEF RefuseAttempt, TypeOK, Frame
  <2> QED BY <2>1, <2>2, <2>3, AbandonedSame
<1>6. CASE BeginRecord
  <2>1. /\ frame.key \in Keys /\ records[frame.key].state = "none" /\ frame.pc = "begin"
        /\ inflight' = inflight
    BY <1>6 DEF BeginRecord, At, IndInv, FrameOwnsIntent
  <2>2. /\ records' = [records EXCEPT ![frame.key] = [state |-> "attempting", at |-> now]]
        /\ frame' = [frame EXCEPT !.pc = "call"]
    BY <1>6, <2>1 DEF BeginRecord
  <2>3. frame'.pc = "call" /\ frame'.key = frame.key
    BY <1>1, <2>2 DEF TypeOK, Frame
  <2>4. k # frame.key => records'[k] = records[k]
    BY <1>1, <2>2 DEF TypeOK
  <2>5. CASE k = frame.key
    BY <2>1, <2>3, <2>5 DEF AbandonedMoves, Abandoned
  <2>6. CASE k # frame.key
    BY <2>1, <2>3, <2>4, <2>6 DEF AbandonedMoves, Abandoned
  <2> QED BY <2>5, <2>6
<1>7. CASE CallProvider
  <2> DEFINE call == [intent |-> frame.intent, key |-> frame.key, job |-> frame.job]
  <2>1. /\ inflight' = inflight \cup {call} /\ records' = records
        /\ frame.pc = "call" /\ frame'.pc = "idle"
    BY <1>7 DEF CallProvider, At
  <2>2. call.key = frame.key
    OBVIOUS
  <2> HIDE DEF call
  <2> QED BY <2>1, <2>2 DEF AbandonedMoves, Abandoned
<1>8. ASSUME NEW c \in inflight, NEW outcome \in Outcomes, ProviderAnswers(c, outcome)
      PROVE  AbandonedMoves(k)
  <2>1. /\ inflight' = inflight \ {c} /\ records' = records /\ frame.pc = "idle"
        /\ frame'.pc = "settle_record" /\ frame'.key = c.key
    BY <1>8 DEF ProviderAnswers, LoopFree
  <2> QED BY <2>1 DEF AbandonedMoves, Abandoned
<1>9. CASE SettleRecord
  <2>1. /\ frame.key \in Keys /\ records[frame.key].state = "attempting"
        /\ frame.pc = "settle_record" /\ inflight' = inflight
    BY <1>9 DEF SettleRecord, At, IndInv, FrameOwnsIntent
  <2>2. records' = [records EXCEPT ![frame.key].state = frame.outcome]
    BY <1>9, <2>1 DEF SettleRecord
  <2>3. /\ records'[frame.key].state = frame.outcome /\ frame.outcome \in Outcomes
        /\ k # frame.key => records'[k] = records[k]
    BY <1>1, <2>1, <2>2, RecordStateUpdate DEF TypeOK, Frame
  <2>4. frame'.pc = "settle_intent"
    BY <1>1, <1>9 DEF SettleRecord, TypeOK, Frame
  <2>5. CASE k = frame.key
    BY <2>1, <2>3, <2>5 DEF AbandonedMoves, Abandoned, Outcomes
  <2>6. CASE k # frame.key
    BY <2>1, <2>3, <2>4, <2>6 DEF AbandonedMoves, Abandoned
  <2> QED BY <2>5, <2>6
<1>10. CASE Crash
  <2>1. crashes' > crashes
    BY <1>1, <1>10, ConstantsAssumption DEF Crash, TypeOK
  <2>2. frame'.pc = "idle" /\ inflight' = {} /\ records' = records
    BY <1>10 DEF Crash
  <2> QED BY <2>1, <2>2 DEF AbandonedMoves, Abandoned
<1>11. CASE WorkerPoll \/ Tick \/ Restart \/ UNCHANGED vars
  <2>1. UNCHANGED <<records, frame, inflight>>
    BY <1>11 DEF WorkerPoll, Tick, Restart, vars
  <2> QED BY <2>1, AbandonedSame
<1> QED
  BY <1>2, <1>3, <1>4, <1>5, <1>6, <1>7, <1>8, <1>9, <1>10, <1>11
  DEF Next, Synchronous, Reply

\* A crash after beginPublishRecord leaves the record attempting for good: RefuseAttempt's
\* repair of it is out of reach, because no path approves its post again.
THEOREM AbandonedForGood == Spec => AbandonedStaysOpen
<1>1. IndInv /\ [Next]_vars =>
        [\A k \in Keys :
            /\ Abandoned(k) => Abandoned(k)'
            /\ Abandoned(k)' => Abandoned(k) \/ crashes' > crashes]_vars
  BY AbandonedStep DEF AbandonedMoves
<1> QED BY <1>1, Invariance, PTL DEF Spec, AbandonedStaysOpen

-----------------------------------------------------------------------------
(* A job and the approval it was enqueued by.                              *)

\* A job is enqueued once, under a fresh key, for a post that has a slot; the frame and
\* the calls in flight name the job they run for.
JobsFit ==
    /\ frame.pc = "enqueue" => jobs[frame.key].state = "none"
    /\ \A k \in Keys : jobs[k].state # "none" =>
          k \in minted /\ intents[jobs[k].intent].at # NotScheduled
    /\ frame.job # NoKey =>
          jobs[frame.job].state # "none" /\ jobs[frame.job].intent = frame.intent
    /\ \A c \in inflight : c.job # NoKey =>
          jobs[c.job].state # "none" /\ jobs[c.job].intent = c.intent

\* A job that exists goes on to exist, for the same post and slot.
LEMMA JobsRemain ==
  ASSUME IndInv, JobsFit, [Next]_vars, NEW k \in Keys, jobs[k].state # "none"
  PROVE  /\ jobs'[k].state # "none"
         /\ jobs'[k].intent = jobs[k].intent /\ jobs'[k].slot = jobs[k].slot
<1>1. /\ jobs \in [Keys -> Job] /\ jobs[k] \in Job
      /\ \A s : [jobs[k] EXCEPT !.state = s].state = s
                /\ [jobs[k] EXCEPT !.state = s].intent = jobs[k].intent
                /\ [jobs[k] EXCEPT !.state = s].slot = jobs[k].slot
  BY DEF IndInv, TypeOK, Job
<1>2. CASE UNCHANGED jobs
  BY <1>2
<1>3. CASE EnqueueJob
  <2>1. frame.key # k
    BY <1>3 DEF EnqueueJob, At, JobsFit
  <2> QED BY <1>1, <1>3, <2>1 DEF EnqueueJob
<1>4. CASE FinishAttempt
  BY <1>1, <1>4 DEF FinishAttempt
<1>5. CASE WorkerPoll
  <2>1. jobs'[k] = jobs[k] \/ jobs'[k] = [jobs[k] EXCEPT !.state = "leased"]
    BY <1>5 DEF WorkerPoll
  <2> QED BY <1>1, <2>1
<1>6. CASE Restart
  <2> DEFINE requeued == [jobs[k] EXCEPT !.state = "queued", !.due = now]
  <2>1. requeued.state = "queued" /\ requeued.intent = jobs[k].intent
        /\ requeued.slot = jobs[k].slot
    BY <1>1 DEF Job
  <2>2. jobs'[k] = jobs[k] \/ jobs'[k] = requeued
    BY <1>6 DEF Restart
  <2> HIDE DEF requeued
  <2> QED BY <2>1, <2>2
<1> QED
  BY <1>2, <1>3, <1>4, <1>5, <1>6
  DEF Next, Operator, Stage, Schedule, Approve, Withdraw, PublishNow, Synchronous, MintKey,
      StartJob, SkipAttempt, RefuseAttempt, ClaimIntent, BeginRecord, CallProvider,
      SettleRecord, SettleIntent, Reply, ProviderAnswers, Tick, Crash, vars

LEMMA SlotRemains ==
  ASSUME IndInv, [Next]_vars, NEW i \in Intents, intents[i].at # NotScheduled
  PROVE  intents'[i].at # NotScheduled
<1>1. /\ intents \in [Intents -> Intent] /\ intents[i] \in Intent
      /\ \A s : [intents[i] EXCEPT !.state = s].at = intents[i].at
      /\ \A k : [intents[i] EXCEPT !.key = k].at = intents[i].at
  BY DEF IndInv, TypeOK, Intent
<1>2. ASSUME NEW j \in Intents, NEW t \in Times, Schedule(j, t)
      PROVE  intents'[i].at # NotScheduled
  <2>1. t # NotScheduled
    BY ConstantsAssumption DEF Times
  <2>2. [intents[j] EXCEPT !.at = t,
           !.state = IF intents[j].state = "approved" THEN "staged" ELSE intents[j].state].at = t
    BY DEF IndInv, TypeOK, Intent
  <2> QED BY <1>1, <1>2, <2>1, <2>2 DEF Schedule
<1>3. ASSUME NEW j \in Intents, NEW s, intents' = [intents EXCEPT ![j].state = s]
      PROVE  intents'[i].at # NotScheduled
  <2>1. intents'[i] = intents[i] \/ intents'[i] = [intents[i] EXCEPT !.state = s]
    BY <1>1, <1>3
  <2> QED BY <1>1, <2>1
<1>4. ASSUME NEW j \in Intents, Stage(j) \/ Approve(j) \/ Withdraw(j)
      PROVE  intents'[i].at # NotScheduled
  BY <1>3, <1>4 DEF Stage, Approve, Withdraw
<1>5. CASE MintKey
  <2>1. PICK k \in Keys : intents' = [intents EXCEPT ![frame.intent].key = k]
    BY <1>5 DEF MintKey
  <2>2. intents'[i] = intents[i] \/ intents'[i] = [intents[i] EXCEPT !.key = k]
    BY <1>1, <2>1
  <2> QED BY <1>1, <2>2
<1>6. CASE RefuseAttempt \/ ClaimIntent \/ BeginRecord \/ SettleIntent
  <2>1. frame.intent \in Intents
    BY <1>6 DEF RefuseAttempt, ClaimIntent, BeginRecord, SettleIntent, At, IndInv, FrameOwnsIntent
  <2>2. UNCHANGED intents \/ \E s : intents' = [intents EXCEPT ![frame.intent].state = s]
    BY <1>6 DEF RefuseAttempt, ClaimIntent, BeginRecord, SettleIntent
  <2> QED BY <1>3, <2>1, <2>2
<1>7. CASE UNCHANGED intents
  BY <1>7
<1> QED
  BY <1>2, <1>4, <1>7, <1>5, <1>6
  DEF Next, Operator, PublishNow, Synchronous, EnqueueJob, StartJob, SkipAttempt, CallProvider,
      SettleRecord, FinishAttempt, WorkerPoll, Reply, ProviderAnswers, Tick, Crash, Restart, vars

LEMMA JobsFitStep ==
  ASSUME IndInv, ApprovalHasNoJob, JobsFit, [Next]_vars
  PROVE  JobsFit'
<1> USE NoFrameFields
<1>1. /\ TypeOK /\ TypeOK' /\ NoKey \notin Keys
      /\ frame.job \in Keys \cup {NoKey}
      /\ \A c \in inflight : c.job \in Keys \cup {NoKey}
      /\ \A k \in Keys : jobs[k].state # "none" => jobs[k].intent \in Intents
      /\ frame.pc = "idle" => frame.job = NoKey
  BY NextType, ConstantsAssumption DEF IndInv, TypeOK, Frame, Call, JobsNameIntents
<1>minted. minted \subseteq minted'
  BY DEF Next, Operator, Stage, Schedule, Approve, Withdraw, PublishNow, Synchronous, MintKey,
      EnqueueJob, StartJob, SkipAttempt, RefuseAttempt, ClaimIntent, BeginRecord, CallProvider,
      SettleRecord, SettleIntent, FinishAttempt, WorkerPoll, Reply, ProviderAnswers, Tick,
      Crash, Restart, vars
\* What stood before stands after: only what is new is left to show.
<1>old. /\ \A k \in Keys : jobs[k].state # "none" =>
              /\ jobs'[k].state # "none" /\ jobs'[k].intent = jobs[k].intent
              /\ k \in minted' /\ intents'[jobs'[k].intent].at # NotScheduled
        /\ frame.job # NoKey =>
              jobs'[frame.job].state # "none" /\ jobs'[frame.job].intent = frame.intent
        /\ \A c \in inflight : c.job # NoKey =>
              jobs'[c.job].state # "none" /\ jobs'[c.job].intent = c.intent
  BY <1>1, <1>minted, JobsRemain, SlotRemains DEF JobsFit
<1>2. ASSUME \A k \in Keys : jobs[k].state = "none" => jobs'[k].state = "none",
             frame'.pc # "enqueue",
             \/ frame'.job = NoKey
             \/ frame'.job = frame.job /\ frame'.intent = frame.intent,
             inflight' \subseteq inflight
      PROVE  JobsFit'
  BY <1>1, <1>2, <1>old DEF JobsFit
<1>none. ASSUME UNCHANGED jobs \/ WorkerPoll \/ Restart \/ FinishAttempt, NEW k \in Keys,
                jobs[k].state = "none"
         PROVE  jobs'[k].state = "none"
  BY <1>1, <1>none DEF WorkerPoll, DueJobs, Restart, FinishAttempt
<1>3. CASE Operator
  <2>1. PICK i \in Intents : \/ Stage(i) \/ (\E t \in Times : Schedule(i, t))
                             \/ Approve(i) \/ Withdraw(i) \/ PublishNow(i)
    BY <1>3 DEF Operator
  <2>2. UNCHANGED <<jobs, inflight>> /\ frame.pc = "idle"
    BY <2>1 DEF Stage, Schedule, Approve, Withdraw, PublishNow, LoopFree
  <2>3. frame'.pc # "enqueue" /\ frame'.job = NoKey
    <3>1. CASE Approve(i)
      BY <3>1 DEF Approve, NoFrame
    <3>2. CASE PublishNow(i)
      BY <3>2 DEF PublishNow
    <3>3. CASE Stage(i) \/ (\E t \in Times : Schedule(i, t)) \/ Withdraw(i)
      BY <1>1, <2>2, <3>3 DEF Stage, Schedule, Withdraw
    <3> QED BY <2>1, <3>1, <3>2, <3>3
  <2> QED BY <1>2, <2>2, <2>3
<1>4. CASE MintKey
  <2>1. PICK key \in Keys \ minted : frame' = [frame EXCEPT !.pc = "enqueue", !.key = key]
    BY <1>4 DEF MintKey
  <2>2. /\ frame'.key = key /\ frame'.job = frame.job /\ frame.job = NoKey
        /\ UNCHANGED <<jobs, inflight>>
    BY <1>1, <1>4, <2>1 DEF MintKey, At, TypeOK, Frame, ApprovalHasNoJob
  <2>3. jobs'[key].state = "none"
    BY <2>2 DEF JobsFit
  <2> QED BY <1>1, <1>old, <2>2, <2>3 DEF JobsFit
<1>5. CASE EnqueueJob
  <2>1. /\ frame'.pc = "idle" /\ frame'.job = NoKey
        /\ inflight' = inflight /\ intents' = intents /\ minted' = minted
        /\ frame.key \in Keys /\ frame.key = KeyOf(frame.intent) /\ frame.intent \in Intents
    BY <1>5 DEF EnqueueJob, At, IndInv, FrameOwnsIntent
  <2>2. CASE intents[frame.intent].at = NotScheduled
    BY <1>2, <1>5, <2>1, <2>2 DEF EnqueueJob
  <2>3. CASE intents[frame.intent].at # NotScheduled
    <3> DEFINE new == [state |-> "queued", intent |-> frame.intent,
                       due |-> intents[frame.intent].at, slot |-> intents[frame.intent].at]
    <3>1. jobs' = [jobs EXCEPT ![frame.key] = new]
      BY <1>5, <2>3 DEF EnqueueJob
    <3>2. new.intent = frame.intent
      OBVIOUS
    <3> HIDE DEF new
    <3>3. frame.key \in minted
      BY <2>1, ConstantsAssumption DEF IndInv, KeysFresh
    <3>4. ASSUME NEW k \in Keys, jobs'[k].state # "none"
          PROVE  k \in minted' /\ intents'[jobs'[k].intent].at # NotScheduled
      <4>1. CASE k = frame.key
        BY <1>1, <2>1, <2>3, <3>1, <3>2, <3>3, <4>1 DEF TypeOK
      <4>2. CASE k # frame.key
        BY <1>1, <1>old, <3>1, <3>4, <4>2 DEF TypeOK
      <4> QED BY <4>1, <4>2
    <3> QED BY <1>1, <1>old, <2>1, <3>4 DEF JobsFit
  <2> QED BY <2>2, <2>3
<1>6. ASSUME NEW j \in Keys, StartJob(j)
      PROVE  JobsFit'
  <2>1. /\ frame' = Attempt(jobs[j].intent, j) /\ UNCHANGED <<jobs, inflight>>
        /\ jobs[j].state = "leased"
    BY <1>6 DEF StartJob, IndInv, JobsNameIntents
  <2> QED BY <1>old, <2>1 DEF JobsFit
<1>7. CASE SkipAttempt \/ RefuseAttempt \/ ClaimIntent \/ BeginRecord \/ SettleRecord
           \/ SettleIntent
  <2>1. UNCHANGED <<jobs, inflight>>
    BY <1>7 DEF SkipAttempt, RefuseAttempt, ClaimIntent, BeginRecord, SettleRecord, SettleIntent
  <2>2. /\ frame \in Frame
        /\ \/ \E pc \in Pc \ {"enqueue"} : frame' = [frame EXCEPT !.pc = pc]
           \/ \E k : frame' = [frame EXCEPT !.pc = "begin", !.key = k]
    BY <1>1, <1>7 DEF SkipAttempt, RefuseAttempt, ClaimIntent, BeginRecord, SettleRecord,
                      SettleIntent, TypeOK, Pc
  <2>3. frame'.pc # "enqueue" /\ frame'.job = frame.job /\ frame'.intent = frame.intent
    BY <2>2 DEF Frame
  <2> QED BY <1>2, <2>1, <2>3
<1>8. CASE CallProvider
  <2> DEFINE call == [intent |-> frame.intent, key |-> frame.key, job |-> frame.job]
  <2>1. inflight' = inflight \cup {call} /\ UNCHANGED jobs /\ frame' = NoFrame
    BY <1>8 DEF CallProvider
  <2>2. call.job = frame.job /\ call.intent = frame.intent
    OBVIOUS
  <2> HIDE DEF call
  <2> QED BY <1>old, <2>1, <2>2 DEF JobsFit
<1>9. ASSUME NEW c \in inflight, NEW outcome \in Outcomes, ProviderAnswers(c, outcome)
      PROVE  JobsFit'
  <2>1. /\ inflight' = inflight \ {c} /\ UNCHANGED jobs
        /\ frame'.pc = "settle_record" /\ frame'.job = c.job /\ frame'.intent = c.intent
    BY <1>9 DEF ProviderAnswers
  <2> QED BY <1>old, <2>1 DEF JobsFit
<1>10. CASE FinishAttempt \/ Crash
  <2>1. frame' = NoFrame /\ inflight' \subseteq inflight
    BY <1>10 DEF FinishAttempt, Crash
  <2>2. \A k \in Keys : jobs[k].state = "none" => jobs'[k].state = "none"
    BY <1>none, <1>10 DEF Crash
  <2> QED BY <1>2, <2>1, <2>2
<1>11. CASE WorkerPoll \/ Tick \/ Restart \/ UNCHANGED vars
  <2>1. UNCHANGED <<frame, inflight>>
    BY <1>11 DEF WorkerPoll, Tick, Restart, vars
  <2>2. \A k \in Keys : jobs[k].state = "none" => jobs'[k].state = "none"
    BY <1>none, <1>11 DEF Tick, vars
  <2>3. CASE frame.pc # "enqueue"
    BY <1>2, <2>1, <2>2, <2>3
  <2>4. CASE frame.pc = "enqueue"
    <3>1. UNCHANGED jobs \/ ~ up
      BY <1>11, <2>4 DEF WorkerPoll, LoopFree, Tick, Restart, vars
    <3>2. frame.key \in Keys
      BY <2>4 DEF IndInv, FrameOwnsIntent
    <3>3. jobs'[frame'.key].state = "none"
      BY <2>1, <2>2, <2>4, <3>2 DEF JobsFit
    <3> QED BY <1>1, <1>old, <2>1, <2>2, <3>3 DEF JobsFit
  <2> QED BY <2>3, <2>4
<1> QED
  BY <1>3, <1>4, <1>5, <1>6, <1>7, <1>8, <1>9, <1>10, <1>11
  DEF Next, Synchronous, Reply

-----------------------------------------------------------------------------
(* A post that stands approved for a slot, and the job that sends it then. *)

\* approve is still at work on post i.
Approving(i) == frame.pc \in {"mint", "enqueue"} /\ frame.intent = i

Due(i) == intents[i].state = "approved" /\ intents[i].at # NotScheduled /\ ~ Approving(i)

Untouched(k) == k \in starting \/ (frame.job = k /\ frame.pc = "read")

ItsJob(i) ==
    LET k == KeyOf(i) IN
    /\ k \in Keys
    /\ jobs[k].state \in {"queued", "leased"}
    /\ jobs[k].state = "leased" => Untouched(k)
    /\ jobs[k].intent = i
    /\ jobs[k].slot = intents[i].at

\* The job that claimed its own post has the slot the post stands approved for.
ClaimedOnTime ==
    (/\ frame.pc \in {"begin", "call"}
     /\ frame.job # NoKey /\ frame.job = KeyOf(frame.intent)) =>
        /\ intents[frame.intent].at # NotScheduled
        /\ jobs[frame.job].slot = intents[frame.intent].at

StandingJob ==
    crashes = 0 =>
        /\ up
        /\ \A i \in Intents \ NoPublisher : Due(i) => ItsJob(i)
        /\ ClaimedOnTime

\* A step that leaves the post and its job as they are, and the claimed job unhandled.
LEMMA ItsJobSame ==
  ASSUME NEW i \in Intents, Due(i) => ItsJob(i),
         intents'[i] = intents[i], Approving(i) => Approving(i)',
         KeyOf(i) \in Keys => jobs'[KeyOf(i)] = jobs[KeyOf(i)],
         (KeyOf(i) \in Keys /\ jobs[KeyOf(i)].intent = i /\ Untouched(KeyOf(i))) =>
             Untouched(KeyOf(i))'
  PROVE  Due(i)' => ItsJob(i)'
<1> SUFFICES ASSUME Due(i)' PROVE ItsJob(i)'
  OBVIOUS
<1>1. Due(i) /\ ItsJob(i)
  BY DEF Due
<1>2. KeyOf(i)' = KeyOf(i) /\ KeyOf(i) \in Keys
  BY <1>1 DEF KeyOf, ItsJob
<1>3. jobs[KeyOf(i)].state = "leased" => Untouched(KeyOf(i))'
  BY <1>1, <1>2 DEF ItsJob
<1>4. jobs'[KeyOf(i)] = jobs[KeyOf(i)] /\ intents'[i].at = intents[i].at
  BY <1>2
<1>5. jobs[KeyOf(i)].state \in {"queued", "leased"} /\ jobs[KeyOf(i)].intent = i
      /\ jobs[KeyOf(i)].slot = intents[i].at
  BY <1>1 DEF ItsJob
<1>6. Untouched(KeyOf(i))' = (KeyOf(i) \in starting' \/ (frame'.job = KeyOf(i) /\ frame'.pc = "read"))
  BY <1>2 DEF Untouched
<1> QED
  BY <1>2, <1>3, <1>4, <1>5, <1>6 DEF ItsJob, Untouched

LEMMA DueKeepsItsJob ==
  ASSUME IndInv, JobsFit, [Next]_vars, up, up', NEW i \in Intents \ NoPublisher,
         Due(i) => ItsJob(i)
  PROVE  Due(i)' => ItsJob(i)'
<1> USE NoFrameFields
<1>1. /\ TypeOK /\ frame \in Frame /\ NoKey \notin Keys
      /\ intents \in [Intents -> Intent] /\ jobs \in [Keys -> Job]
  BY ConstantsAssumption DEF IndInv, TypeOK
\* A post no longer approved has nothing to show.
<1>2. ASSUME intents'[i].state # "approved"
      PROVE  Due(i)' => ItsJob(i)'
  BY <1>2 DEF Due
\* Between two turns of the event loop no claimed job is untouched.
<1>4. LoopFree => \A k : ~ Untouched(k)
  BY DEF LoopFree, Untouched
<1>5. ASSUME LoopFree, intents'[i] = intents[i], UNCHANGED jobs, ~ Approving(i)
      PROVE  Due(i)' => ItsJob(i)'
  BY <1>4, <1>5, ItsJobSame
<1>6. frame.pc = "idle" => ~ Approving(i)
  BY DEF Approving
<1>7. CASE \E j \in Intents : Stage(j) \/ Withdraw(j)
  <2>1. PICK j \in Intents : Stage(j) \/ Withdraw(j)
    BY <1>7
  <2>2. /\ LoopFree /\ UNCHANGED jobs /\ frame.pc = "idle"
        /\ \E s \in {"staged", "withdrawn"} : intents' = [intents EXCEPT ![j].state = s]
    BY <2>1 DEF Stage, Withdraw, LoopFree
  <2>3. j # i => intents'[i] = intents[i]
    BY <1>1, <2>2
  <2>4. j = i => intents'[i].state # "approved"
    BY <1>1, <2>2, IntentStateUpdate
  <2> QED BY <1>2, <1>5, <1>6, <2>2, <2>3, <2>4
<1>8. ASSUME NEW j \in Intents, NEW t \in Times, Schedule(j, t)
      PROVE  Due(i)' => ItsJob(i)'
  <2>1. LoopFree /\ UNCHANGED jobs /\ frame.pc = "idle"
    BY <1>8 DEF Schedule, LoopFree
  <2>2. j # i => intents'[i] = intents[i]
    BY <1>1, <1>8 DEF Schedule
  <2> DEFINE moved == [intents[i] EXCEPT !.at = t,
                         !.state = IF intents[i].state = "approved" THEN "staged"
                                   ELSE intents[i].state]
  <2>3. moved.state # "approved"
    BY <1>1 DEF Intent
  <2>4. j = i => intents'[i] = moved
    BY <1>1, <1>8 DEF Schedule
  <2> HIDE DEF moved
  <2> QED BY <1>2, <1>5, <1>6, <2>1, <2>2, <2>3, <2>4
<1>9. ASSUME NEW j \in Intents, Approve(j)
      PROVE  Due(i)' => ItsJob(i)'
  <2>1. LoopFree /\ UNCHANGED jobs /\ frame.pc = "idle"
    BY <1>9 DEF Approve, LoopFree
  <2>2. j # i => intents'[i] = intents[i]
    BY <1>1, <1>9 DEF Approve
  <2>3. frame'.pc = "mint" /\ frame'.intent = j
    BY <1>9 DEF Approve, NoFrame
  <2>4. j = i => ~ Due(i)'
    BY <2>3 DEF Due, Approving
  <2> QED BY <1>5, <1>6, <2>1, <2>2, <2>4
<1>10. CASE (\E j \in Intents : PublishNow(j)) \/ Reply
  BY <1>5, <1>6, <1>10 DEF PublishNow, Reply, ProviderAnswers, LoopFree
<1>11. CASE MintKey
  <2>1. PICK k \in Keys : /\ intents' = [intents EXCEPT ![frame.intent].key = k]
                          /\ frame' = [frame EXCEPT !.pc = "enqueue", !.key = k]
    BY <1>11 DEF MintKey
  <2>2. frame.intent \in Intents /\ frame.pc = "mint" /\ UNCHANGED <<jobs, starting>>
    BY <1>11 DEF MintKey, At, IndInv, FrameOwnsIntent
  <2>3. frame'.pc = "enqueue" /\ frame'.intent = frame.intent
    BY <1>1, <2>1 DEF Frame
  <2>4. CASE frame.intent = i
    BY <2>3, <2>4 DEF Due, Approving
  <2>5. CASE frame.intent # i
    <3>1. intents'[i] = intents[i] /\ ~ Approving(i)
      BY <1>1, <2>1, <2>2, <2>5 DEF Approving
    <3>2. Untouched(KeyOf(i)) => Untouched(KeyOf(i))'
      BY <2>2, <3>1 DEF Untouched, KeyOf
    <3> QED BY <2>2, <3>1, <3>2, ItsJobSame
  <2> QED BY <2>4, <2>5
<1>12. CASE EnqueueJob
  <2>1. /\ frame.pc = "enqueue" /\ frame.intent \in Intents /\ frame.key \in Keys
        /\ frame.key = KeyOf(frame.intent) /\ UNCHANGED <<intents, starting>>
        /\ frame' = NoFrame
    BY <1>12 DEF EnqueueJob, At, IndInv, FrameOwnsIntent
  <2>2. CASE frame.intent = i
    <3>1. SUFFICES ASSUME Due(i)' PROVE ItsJob(i)'
      OBVIOUS
    <3> DEFINE new == [state |-> "queued", intent |-> frame.intent,
                       due |-> intents[frame.intent].at, slot |-> intents[frame.intent].at]
    <3>2. intents[i].at # NotScheduled
      BY <2>1, <3>1 DEF Due
    <3>3. jobs' = [jobs EXCEPT ![frame.key] = new]
      BY <1>12, <2>2, <3>2 DEF EnqueueJob
    <3>4. new.intent = frame.intent /\ new.slot = intents[frame.intent].at
          /\ new.state = "queued"
      OBVIOUS
    <3> HIDE DEF new
    <3>5. KeyOf(i)' = frame.key /\ jobs'[frame.key] = new
      BY <1>1, <2>1, <2>2, <3>3 DEF KeyOf
    <3> QED BY <2>1, <2>2, <3>4, <3>5 DEF ItsJob
  <2>3. CASE frame.intent # i
    <3>1. KeyOf(i) # frame.key
      BY <1>1, <2>1, <2>3, KeysApart DEF IndInv
    <3>2. KeyOf(i) \in Keys => jobs'[KeyOf(i)] = jobs[KeyOf(i)]
      BY <1>1, <1>12, <3>1 DEF EnqueueJob
    <3>3. ~ Approving(i) /\ (Untouched(KeyOf(i)) => Untouched(KeyOf(i))')
      BY <2>1, <2>3 DEF Approving, Untouched, KeyOf
    <3> QED BY <2>1, <3>2, <3>3, ItsJobSame
  <2> QED BY <2>2, <2>3
<1>13. ASSUME NEW j \in Keys, StartJob(j)
       PROVE  Due(i)' => ItsJob(i)'
  <2>1. /\ UNCHANGED <<intents, jobs>> /\ starting' = starting \ {j} /\ frame.pc = "idle"
        /\ frame'.pc = "read" /\ frame'.job = j
    BY <1>13 DEF StartJob, At
  <2>2. Untouched(KeyOf(i)) => Untouched(KeyOf(i))'
    BY <2>1 DEF Untouched, KeyOf
  <2> QED BY <1>6, <2>1, <2>2, ItsJobSame
<1>14. CASE SkipAttempt
  <2>1. /\ frame.pc = "read" /\ UNCHANGED <<intents, jobs, starting>>
    BY <1>14 DEF SkipAttempt, At
  <2>2. CASE Due(i) /\ frame.job = KeyOf(i) /\ KeyOf(i) \in Keys /\ jobs[KeyOf(i)].intent = i
    <3>1. frame.intent = i
      BY <1>1, <2>2 DEF JobsFit
    <3>2. Attemptable(i)
      BY <1>1, <2>2 DEF Attemptable, Due, KeyOf
    <3>3. records[KeyOf(i)].state = "none"
      BY <1>1, <2>2 DEF Due, IndInv, UnclaimedIsUnsent
    <3> QED BY <1>14, <3>1, <3>2, <3>3 DEF SkipAttempt, Outcomes, KeyOf
  <2>3. CASE ~ (/\ Due(i) /\ frame.job = KeyOf(i) /\ KeyOf(i) \in Keys
                /\ jobs[KeyOf(i)].intent = i)
    <3>1. ~ Approving(i) /\ ~ Approving(i)'
      BY <1>1, <1>14, <2>1 DEF SkipAttempt, Approving, Frame
    <3>2. CASE ~ Due(i)
      BY <2>1, <3>1, <3>2 DEF Due
    <3>3. CASE Due(i)
      <4>1. (/\ KeyOf(i) \in Keys /\ jobs[KeyOf(i)].intent = i /\ Untouched(KeyOf(i)))
               => Untouched(KeyOf(i))'
        BY <2>1, <2>3, <3>3 DEF Untouched, KeyOf
      <4> QED BY <2>1, <3>1, <4>1, ItsJobSame
    <3> QED BY <3>2, <3>3
  <2> QED BY <2>2, <2>3
\* The other statements of an attempt, on post j: another post's claimed job is not theirs.
<1>15. ASSUME frame.intent # i, frame.pc \notin {"mint", "enqueue"}, starting' = starting
       PROVE  /\ ~ Approving(i)
              /\ (/\ KeyOf(i) \in Keys /\ jobs[KeyOf(i)].intent = i /\ Untouched(KeyOf(i))
                  /\ intents'[i] = intents[i]) => Untouched(KeyOf(i))'
  <2>1. ~ Approving(i)
    BY <1>15 DEF Approving
  <2>2. ASSUME KeyOf(i) \in Keys, jobs[KeyOf(i)].intent = i, Untouched(KeyOf(i)),
               intents'[i] = intents[i]
        PROVE  Untouched(KeyOf(i))'
    <3>1. frame.job # KeyOf(i)
      BY <1>1, <1>15, <2>2 DEF JobsFit
    <3> QED BY <1>15, <2>2, <3>1 DEF Untouched, KeyOf
  <2> QED BY <2>1, <2>2
<1>16. CASE RefuseAttempt \/ ClaimIntent \/ BeginRecord \/ SettleIntent
  <2>1. /\ frame.intent \in Intents /\ frame.pc \in {"read", "begin", "settle_intent"}
        /\ UNCHANGED <<jobs, starting>>
    BY <1>16 DEF RefuseAttempt, ClaimIntent, BeginRecord, SettleIntent, At, IndInv, FrameOwnsIntent
  <2>2. \/ \E s : s # "approved" /\ intents' = [intents EXCEPT ![frame.intent].state = s]
        \/ intents' = intents /\ intents[frame.intent].state # "approved"
    BY <1>16 DEF RefuseAttempt, ClaimIntent, BeginRecord, SettleIntent, At, IndInv, FrameOwnsIntent
  <2>3. CASE frame.intent = i
    <3>1. intents'[i].state # "approved"
      BY <1>1, <2>1, <2>2, <2>3, IntentStateUpdate
    <3> QED BY <1>2, <3>1
  <2>4. CASE frame.intent # i
    <3>1. intents'[i] = intents[i]
      BY <1>1, <2>1, <2>2, <2>4
    <3> QED BY <1>15, <2>1, <2>4, <3>1, ItsJobSame
  <2> QED BY <2>3, <2>4
<1>17. CASE CallProvider \/ SettleRecord
  <2>1. /\ frame.pc \in {"call", "settle_record"}
        /\ UNCHANGED <<intents, jobs, starting>>
    BY <1>17 DEF CallProvider, SettleRecord, At
  <2>2. ~ Approving(i) /\ (Untouched(KeyOf(i)) => Untouched(KeyOf(i))')
    BY <2>1 DEF Approving, Untouched, KeyOf
  <2> QED BY <2>1, <2>2, ItsJobSame
<1>18. CASE FinishAttempt
  <2>1. frame.pc = "finish" /\ UNCHANGED <<intents, starting>>
    BY <1>18 DEF FinishAttempt, At
  <2>2. SUFFICES ASSUME Due(i)' PROVE ItsJob(i)'
    OBVIOUS
  <2>3. ItsJob(i)
    BY <2>1, <2>2 DEF Due, Approving
  <2>4. ~ Approving(i) /\ (Untouched(KeyOf(i)) => Untouched(KeyOf(i))')
    BY <2>1 DEF Approving, Untouched, KeyOf
  <2>5. jobs[KeyOf(i)].state = "leased" => KeyOf(i) # frame.job
    BY <2>1, <2>3 DEF ItsJob, Untouched, IndInv, JobsNameIntents
  <2>6. jobs'[KeyOf(i)] = jobs[KeyOf(i)]
    BY <1>18, <2>3, <2>5 DEF FinishAttempt, ItsJob
  <2> QED BY <2>1, <2>2, <2>4, <2>6, ItsJobSame
<1>19. CASE WorkerPoll
  <2>1. PICK S \in SUBSET DueJobs :
             /\ jobs' = [k \in Keys |-> IF k \in S THEN [jobs[k] EXCEPT !.state = "leased"]
                                                    ELSE jobs[k]]
             /\ starting' = S
    BY <1>19 DEF WorkerPoll
  <2>2. /\ LoopFree /\ Leased = {} /\ UNCHANGED <<intents, frame>>
        /\ \A k \in Keys : \/ jobs'[k] = jobs[k]
                            \/ /\ k \in starting'
                               /\ jobs'[k] = [jobs[k] EXCEPT !.state = "leased"]
    BY <1>19, <2>1 DEF WorkerPoll
  <2>3. SUFFICES ASSUME Due(i)' PROVE ItsJob(i)'
    OBVIOUS
  <2>4. ItsJob(i)
    <3>1. Due(i)
      BY <2>2, <2>3 DEF Due, Approving, LoopFree
    <3> QED BY <3>1
  <2>5. KeyOf(i)' = KeyOf(i)
    BY <2>2 DEF KeyOf
  <2>6. ItsJob(i) /\ KeyOf(i)' = KeyOf(i) /\ KeyOf(i) \in Keys
    BY <2>4, <2>5 DEF ItsJob
  <2>7. CASE jobs'[KeyOf(i)] = jobs[KeyOf(i)]
    <3>1. jobs[KeyOf(i)].state # "leased"
      BY <2>2, <2>6 DEF Leased
    <3> QED BY <2>2, <2>6, <2>7, <3>1 DEF ItsJob
  <2>8. CASE KeyOf(i) \in starting'
             /\ jobs'[KeyOf(i)] = [jobs[KeyOf(i)] EXCEPT !.state = "leased"]
    <3>1. /\ jobs'[KeyOf(i)].state = "leased"
          /\ jobs'[KeyOf(i)].intent = jobs[KeyOf(i)].intent
          /\ jobs'[KeyOf(i)].slot = jobs[KeyOf(i)].slot
      BY <1>1, <2>6, <2>8 DEF Job
    <3> QED BY <2>2, <2>6, <2>8, <3>1 DEF ItsJob, Untouched
  <2> QED BY <2>2, <2>6, <2>7, <2>8
<1>20. CASE Tick \/ UNCHANGED vars
  <2>1. UNCHANGED <<intents, jobs, frame, starting>>
    BY <1>20 DEF Tick, vars
  <2>2. (Approving(i) => Approving(i)') /\ (Untouched(KeyOf(i)) => Untouched(KeyOf(i))')
    BY <2>1 DEF Approving, Untouched, KeyOf
  <2> QED BY <2>1, <2>2, ItsJobSame
<1>21. ~ Crash /\ ~ Restart
  BY DEF Crash, Restart
<1> QED
  BY <1>7, <1>8, <1>9, <1>10, <1>11, <1>12, <1>13, <1>14, <1>16, <1>17, <1>18, <1>19, <1>20,
     <1>21
  DEF Next, Operator, Synchronous

LEMMA StandingJobStep ==
  ASSUME IndInv, JobsFit, StandingJob, [Next]_vars
  PROVE  StandingJob'
<1> SUFFICES ASSUME crashes' = 0 PROVE StandingJob'
  BY DEF StandingJob
<1>1. ~ Crash /\ crashes = 0
  <2>1. crashes \in Nat
    BY ConstantsAssumption DEF IndInv, TypeOK
  <2>2. crashes' = crashes \/ crashes' = crashes + 1
    BY DEF Next, Operator, Stage, Schedule, Approve, Withdraw, PublishNow, Synchronous, MintKey,
      EnqueueJob, StartJob, SkipAttempt, RefuseAttempt, ClaimIntent, BeginRecord, CallProvider,
      SettleRecord, SettleIntent, FinishAttempt, WorkerPoll, Reply, ProviderAnswers, Tick,
      Crash, Restart, vars
  <2>3. crashes = 0
    BY <2>1, <2>2
  <2> QED BY <2>3 DEF Crash
<1>2. up /\ up' /\ ClaimedOnTime /\ \A i \in Intents \ NoPublisher : Due(i) => ItsJob(i)
  <2>1. up /\ ClaimedOnTime /\ \A i \in Intents \ NoPublisher : Due(i) => ItsJob(i)
    BY <1>1 DEF StandingJob
  <2>2. up'
    BY <1>1, <2>1 DEF Next, Operator, Stage, Schedule, Approve, Withdraw, PublishNow,
      Synchronous, MintKey, EnqueueJob, StartJob, SkipAttempt, RefuseAttempt, ClaimIntent,
      BeginRecord, CallProvider, SettleRecord, SettleIntent, FinishAttempt, WorkerPoll, Reply,
      ProviderAnswers, Tick, Restart, vars
  <2> QED BY <2>1, <2>2
<1>3. \A i \in Intents \ NoPublisher : Due(i)' => ItsJob(i)'
  BY <1>2, DueKeepsItsJob
<1>4. ClaimedOnTime'
  <2>1. TypeOK /\ frame \in Frame /\ intents \in [Intents -> Intent] /\ NoKey \notin Keys
    BY ConstantsAssumption DEF IndInv, TypeOK
  <2>2. CASE ClaimIntent
    <3> DEFINE i == frame.intent
               k == KeyOf(i)
    <3>1. /\ frame.pc = "read" /\ i \in Intents /\ UNCHANGED jobs /\ Attemptable(i)
          /\ intents' = [intents EXCEPT ![i].state = "publishing"]
          /\ frame' = [frame EXCEPT !.pc = "begin", !.key = k]
      BY <2>2 DEF ClaimIntent, At, KeyOf, IndInv, FrameOwnsIntent
    <3>2. frame'.intent = i /\ frame'.job = frame.job
      BY <2>1, <3>1 DEF Frame
    <3>3. intents'[i].at = intents[i].at /\ intents'[i].key = intents[i].key
      BY <2>1, <3>1 DEF Intent
    <3>4. SUFFICES ASSUME frame.job # NoKey, frame.job = k
                   PROVE  intents[i].at # NotScheduled /\ jobs[k].slot = intents[i].at
      BY <3>1, <3>2, <3>3 DEF ClaimedOnTime, KeyOf
    <3>5. frame.job \in Keys
      BY <2>1, <3>4 DEF Frame
    <3>6. intents[i].at # NotScheduled
      BY <3>4, <3>5 DEF JobsFit
    <3>7. Due(i) /\ i \in Intents \ NoPublisher
      BY <3>1, <3>6 DEF Due, Attemptable, Approving
    <3>8. ItsJob(i)
      BY <1>2, <3>7
    <3> QED BY <3>6, <3>8 DEF ItsJob
  <2>3. CASE BeginRecord
    <3>1. /\ frame.pc = "begin" /\ frame.intent \in Intents /\ UNCHANGED jobs
          /\ \/ UNCHANGED intents
             \/ intents' = [intents EXCEPT ![frame.intent].state = "failed"]
          /\ \E pc \in Pc : frame' = [frame EXCEPT !.pc = pc]
      BY <2>3 DEF BeginRecord, At, IndInv, FrameOwnsIntent, Pc
    <3>2. frame'.intent = frame.intent /\ frame'.job = frame.job
      BY <2>1, <3>1, FrameMoves DEF IndInv
    <3>3. intents'[frame.intent].at = intents[frame.intent].at
          /\ intents'[frame.intent].key = intents[frame.intent].key
      BY <2>1, <3>1 DEF Intent
    <3> QED BY <1>2, <3>1, <3>2, <3>3 DEF ClaimedOnTime, KeyOf
  <2>4. CASE frame'.pc \notin {"begin", "call"}
    BY <2>4 DEF ClaimedOnTime
  <2>5. CASE UNCHANGED frame /\ frame.pc \in {"begin", "call"}
    <3>1. CASE Operator \/ WorkerPoll \/ Reply \/ Restart
      BY <1>2, <2>5, <3>1 DEF Operator, Stage, Schedule, Approve, Withdraw, PublishNow,
         WorkerPoll, Reply, ProviderAnswers, Restart, LoopFree
    <3>2. CASE MintKey \/ EnqueueJob \/ SkipAttempt \/ RefuseAttempt \/ SettleRecord
               \/ SettleIntent \/ FinishAttempt \/ (\E k \in Keys : StartJob(k))
      BY <2>5, <3>2 DEF MintKey, EnqueueJob, SkipAttempt, RefuseAttempt, SettleRecord,
         SettleIntent, FinishAttempt, StartJob, At
    <3>3. CASE CallProvider
      BY <2>5, <3>3, NoFrameFields DEF CallProvider
    <3>4. CASE Tick \/ UNCHANGED vars
      BY <1>2, <2>5, <3>4 DEF Tick, vars, ClaimedOnTime, KeyOf
    <3> QED BY <1>1, <2>2, <2>3, <3>1, <3>2, <3>3, <3>4 DEF Next, Synchronous
  <2>6. Tick => UNCHANGED frame
    BY DEF Tick
  <2> QED BY <2>1, <2>2, <2>3, <2>4, <2>5, <2>6, FrameStep
<1> QED BY <1>2, <1>3, <1>4 DEF StandingJob

LEMMA StandingInvariance == Spec => [](IndInv /\ SlotReached /\ JobsFit /\ StandingJob)
<1>1. Init => ApprovalHasNoJob /\ SlotReached /\ JobsFit /\ StandingJob
  BY NoFrameFields DEF Init, ApprovalHasNoJob, SlotReached, JobsFit, StandingJob, Due,
     ClaimedOnTime
<1>2. /\ IndInv /\ ApprovalHasNoJob /\ SlotReached /\ JobsFit /\ StandingJob /\ [Next]_vars
      => (ApprovalHasNoJob /\ SlotReached /\ JobsFit /\ StandingJob)'
  BY ApprovalHasNoJobStep, SlotReachedStep, JobsFitStep, StandingJobStep DEF IndInv
<1> QED BY <1>1, <1>2, Invariance, PTL DEF Spec

\* As long as the daemon has not crashed, a post that stands approved for a slot is waited
\* for by the job that sends it at that slot.
THEOREM ScheduledPostHasItsJob == Spec => []ScheduledHasItsJob
<1>1. IndInv /\ StandingJob => ScheduledHasItsJob
  <2>1. SUFFICES ASSUME IndInv, StandingJob, crashes = 0, LoopFree,
                        NEW i \in Intents \ NoPublisher,
                        intents[i].state = "approved", intents[i].at # NotScheduled
                 PROVE  /\ KeyOf(i) \in Keys /\ jobs[KeyOf(i)].state = "queued"
                        /\ jobs[KeyOf(i)].intent = i /\ jobs[KeyOf(i)].slot = intents[i].at
    BY DEF ScheduledHasItsJob, KeyOf
  <2>2. Due(i) /\ ItsJob(i)
    BY <2>1 DEF StandingJob, Due, Approving, LoopFree
  <2>3. ~ Untouched(KeyOf(i))
    BY <2>1 DEF Untouched, LoopFree
  <2> QED BY <2>2, <2>3 DEF ItsJob
<1> QED BY <1>1, StandingInvariance, PTL

\* As long as the daemon has not crashed, the job of the approval that stands sends its
\* post no earlier than the time it was approved for: only a job left over from another
\* approval can.
THEOREM StandingApprovalIsOnTime == Spec => StandingJobIsOnTime
<1>1. IndInv /\ SlotReached /\ StandingJob /\ [Next]_vars =>
        [\A i \in Intents :
            (/\ crashes = 0
             /\ sent'[i] # sent[i]
             /\ frame.job # NoKey /\ frame.job = intents[i].key) =>
                intents[i].at # NotScheduled /\ now >= intents[i].at]_vars
  <2>1. SUFFICES ASSUME IndInv, SlotReached, StandingJob, [Next]_vars, NEW i \in Intents,
                        crashes = 0, sent'[i] # sent[i], frame.job # NoKey,
                        frame.job = intents[i].key
                 PROVE  intents[i].at # NotScheduled /\ now >= intents[i].at
    OBVIOUS
  <2>2. CallProvider
    BY <2>1, OnlyCallProviderSends
  <2>3. frame.pc = "call" /\ frame.intent = i /\ frame.job \in Keys
    BY <2>1, <2>2 DEF CallProvider, At, IndInv, TypeOK, Frame
  <2>4. ClaimedOnTime
    BY <2>1 DEF StandingJob
  <2>5. intents[i].at # NotScheduled /\ jobs[frame.job].slot = intents[i].at
    BY <2>1, <2>3, <2>4 DEF ClaimedOnTime, KeyOf
  <2>6. now >= jobs[frame.job].slot
    BY <2>1, <2>3 DEF SlotReached
  <2> QED BY <2>5, <2>6
<1> QED BY <1>1, StandingInvariance, PTL DEF Spec, StandingJobIsOnTime

-----------------------------------------------------------------------------
(* Without a crash.                                                        *)

\* As long as the daemon has not crashed an attempt that is open has its caller: what
\* NoAttemptLeftOpen says holds, and fails only after a crash.
THEOREM NoneLeftOpenWithoutCrash == Spec => [](crashes = 0 => NoAttemptLeftOpen)
<1> DEFINE NoneAbandoned == crashes = 0 => \A k \in Keys : ~ Abandoned(k)
<1>1. Init => NoneAbandoned
  BY InitRecords DEF Abandoned
<1>2. IndInv /\ NoneAbandoned /\ [Next]_vars => NoneAbandoned'
  <2> SUFFICES ASSUME IndInv, NoneAbandoned, [Next]_vars, crashes' = 0, NEW k \in Keys
               PROVE  ~ Abandoned(k)'
    OBVIOUS
  <2>1. crashes \in Nat
    BY ConstantsAssumption DEF IndInv, TypeOK
  <2>2. crashes' = crashes \/ crashes' = crashes + 1
    BY DEF Next, Operator, Stage, Schedule, Approve, Withdraw, PublishNow, Synchronous, MintKey,
      EnqueueJob, StartJob, SkipAttempt, RefuseAttempt, ClaimIntent, BeginRecord, CallProvider,
      SettleRecord, SettleIntent, FinishAttempt, WorkerPoll, Reply, ProviderAnswers, Tick,
      Crash, Restart, vars
  <2>3. crashes = 0 /\ ~ (crashes' > crashes)
    BY <2>1, <2>2
  <2> QED BY <2>3, AbandonedStep DEF AbandonedMoves
<1>3. NoneAbandoned => (crashes = 0 => NoAttemptLeftOpen)
  BY DEF NoAttemptLeftOpen, Abandoned
<1> HIDE DEF NoneAbandoned
<1> QED BY <1>1, <1>2, <1>3, Invariance, PTL DEF Spec
=============================================================================
