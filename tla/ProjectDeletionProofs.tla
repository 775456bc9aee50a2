------------------------- MODULE ProjectDeletionProofs -------------------------
(***************************************************************************)
(* Theorems about ProjectDeletion, for any number of runs, directories,    *)
(* calls, crashes and failed file operations.                              *)
(*                                                                         *)
(* The argument follows the data of one location: it is moved, never       *)
(* copied, so at every point of the synchronous code it is either live or  *)
(* in one staging directory; a staging directory that holds anything has   *)
(* its manifest; and no directory is removed before it is empty, unless    *)
(* the rows are gone.                                                      *)
(***************************************************************************)
EXTENDS ProjectDeletion, TLAPS

\* The staging directory the synchronous code works on.
Current == stagings[frame.del]

Moving == frame.pc \in {"move", "delete", "rollback"}
Deleting == frame.pc \in {"mkdir", "tmp", "manifest", "move", "delete", "rollback",
                          "discard", "finalize"}

\* A staging directory is made before anything is in it, and not before its call
\* has waited for the runs.
Unfolded ==
    /\ frame.pc \notin {"idle", "boot"} => frame.del \in Deletions
    /\ \A d \in Deletions : Holds(stagings[d]) # {} => stagings[d].made
    /\ \A d \in Deletions : ops[d].state \in {"unused", "waiting"} => stagings[d] = NoStaging
    /\ frame.pc = "mkdir" => Current = NoStaging /\ ops[frame.del].state = "over"

\* Data is only where some was put, and only of runs with a row while there are rows.
Sources ==
    /\ \A l \in Loc : live[l] = "data" => l \in held
    /\ \A d \in Deletions, l \in Loc : stagings[d].files[l] = "data" => l \in held
    /\ project => \A r \in Runs : r \in held => runs[r] \in Stored
    /\ ~project => \A r \in Runs : runs[r] \notin Stored

\* What was put somewhere is live or staged, and what is staged is named.
Kept == project => \A l \in held :
            live[l] = "data" \/ \E d \in Deletions : stagings[d].files[l] = "data"

Labelled == project => \A d \in Deletions : Holds(stagings[d]) # {} =>
                /\ stagings[d].manifest = "done"
                /\ Holds(stagings[d]) \subseteq Named(stagings[d])

\* Before the rows go: what has been moved is away, what has not is not staged.
Ahead ==
    /\ frame.pc \in {"tmp", "manifest"} => Current.made /\ Holds(Current) = {}
    /\ frame.pc \in {"move", "delete"} => Current.made /\ Current.manifest = "done"
    /\ frame.pc \in {"manifest", "move", "delete"} => Current.runIds = ops[frame.del].runIds
    /\ frame.pc = "move" =>
           /\ frame.locs \subseteq Named(Current)
           /\ \A l \in frame.locs : Current.files[l] = "none"
           /\ \A l \in Named(Current) : l \notin frame.locs => live[l] = "none"
    /\ frame.pc = "delete" => \A l \in Named(Current) : live[l] = "none"

\* What is staged can be put back where it was.
Reversible ==
    /\ Moving => \A l \in Holds(Current) :
           /\ live[l] = "none"
           /\ ~project /\ Current.files[l] = "data" => l \in missed
    /\ frame.pc = "rollback" =>
           /\ frame.locs \subseteq Holds(Current)
           /\ ~frame.failed => Holds(Current) \subseteq frame.locs
    /\ frame.pc = "restore" => project /\ Holds(Current) \subseteq frame.locs

\* A directory is removed when it is empty, or when the project is gone.
Disposable ==
    /\ frame.pc \in {"discard", "sweep"} /\ project => Holds(Current) = {}
    /\ frame.pc = "finalize" => ~project

\* While no cleanup is pending, no staging directory is left but the current one.
Tidy ==
    /\ LoopFree /\ ~pending => \A d \in Deletions : ~stagings[d].made
    /\ Deleting /\ ~pending => \A d \in Deletions : d # frame.del => ~stagings[d].made

IInv ==
    /\ TypeOK
    /\ Unfolded
    /\ Sources
    /\ Kept
    /\ Labelled
    /\ Ahead
    /\ Reversible
    /\ Disposable
    /\ Tidy
    /\ OnlyMissedRunsRemain

-----------------------------------------------------------------------------
(* Records.                                                                *)

LEMMA StagingFields ==
  ASSUME NEW s \in Staging
  PROVE  /\ s.made \in BOOLEAN /\ s.manifest \in {"none", "tmp", "done"}
         /\ s.runIds \subseteq Runs /\ \A l \in Loc : s.files[l] \in Content
         /\ Named(s) \subseteq Loc /\ Holds(s) \subseteq Loc
  BY DEF Staging, Store, Named, Holds, Loc

LEMMA NoStagingFields ==
  /\ NoStaging \in Staging
  /\ NoStaging.manifest = "none" /\ ~NoStaging.made /\ Holds(NoStaging) = {}
  /\ \A l \in Loc : NoStaging.files[l] = "none"
  BY DEF NoStaging, Staging, Store, Empty, Content, Holds

LEMMA LabelEdits ==
  ASSUME NEW s \in Staging, NEW made \in BOOLEAN, NEW manifest \in {"none", "tmp", "done"},
         NEW runIds \in SUBSET Runs, NEW t,
         t = [s EXCEPT !.made = made, !.manifest = manifest, !.runIds = runIds]
  PROVE  /\ t \in Staging /\ t.made = made /\ t.manifest = manifest /\ t.runIds = runIds
         /\ t.files = s.files
  BY DEF Staging

LEMMA FileEdit ==
  ASSUME NEW s \in Staging, NEW l \in Loc, NEW c \in Content
  PROVE  LET t == [s EXCEPT !.files[l] = c] IN
         /\ t \in Staging /\ t.made = s.made /\ t.manifest = s.manifest
         /\ t.runIds = s.runIds
         /\ \A k \in Loc : t.files[k] = IF k = l THEN c ELSE s.files[k]
  BY DEF Staging, Store

LEMMA FrameFields ==
  ASSUME TypeOK
  PROVE  /\ frame \in Frame /\ frame.pc \in Pc /\ frame.del \in Deletions \cup {NoDeletion}
         /\ frame.locs \subseteq Loc /\ frame.entries \subseteq Deletions
         /\ frame.failed \in BOOLEAN
  BY DEF TypeOK, Frame

LEMMA NoFrameFields ==
  NoFrame \in Frame /\ NoFrame.pc = "idle"
  BY DEF NoFrame, Frame, Pc

\* One staging directory changes.
LEMMA OneChanges ==
  ASSUME TypeOK, NEW d \in Deletions, NEW t \in Staging,
         stagings' = [stagings EXCEPT ![d] = t]
  PROVE  /\ stagings' \in [Deletions -> Staging]
         /\ stagings'[d] = t
         /\ \A e \in Deletions : e # d => stagings'[e] = stagings[e]
  BY DEF TypeOK

-----------------------------------------------------------------------------
(* Steps between two turns of the event loop.                              *)

\* The parts of the invariant that speak of data and not of the code under way.
LEMMA DataStands ==
  ASSUME IInv, UNCHANGED <<project, live, stagings, held, missed>>,
         project => \A r \in Runs : runs[r] \in Stored => runs'[r] \in Stored,
         ~project => \A r \in Runs : runs'[r] \notin Stored
  PROVE  Sources' /\ Kept' /\ Labelled' /\ OnlyMissedRunsRemain'
<1>1. Sources'
  BY DEF IInv, Sources
<1>2. Kept' /\ Labelled'
  BY DEF IInv, Kept, Labelled
<1>3. OnlyMissedRunsRemain'
  BY DEF IInv, OnlyMissedRunsRemain
<1> QED BY <1>1, <1>2, <1>3

LEMMA InitHolds ==
  ASSUME Init
  PROVE  IInv
<1>1. /\ project /\ frame = NoFrame /\ frame.pc = "idle"
      /\ live = [l \in Loc |-> IF l \in Dirs THEN "data" ELSE "none"]
      /\ held = Dirs /\ missed = {} /\ up
      /\ \A d \in Deletions : stagings[d] = NoStaging
      /\ \A r \in Runs : runs[r] = "unused"
  BY NoFrameFields DEF Init
<1>2. TypeOK
  <2>1. live \in Store
    BY <1>1 DEF Store, Content
  <2>2. stagings \in [Deletions -> Staging]
    BY NoStagingFields DEF Init
  <2>3. ops \in [Deletions -> Op]
    BY DEF Init, Op
  <2>4. 0 \in 0..MaxCrashes /\ 0 \in 0..MaxFaults
    BY ConstantsAssumption
  <2>5. runs \in [Runs -> Status] /\ exec \in [Runs -> Stage] /\ held \subseteq Loc
    BY DEF Init, Status, Stage, Loc
  <2> QED BY <1>1, <2>1, <2>2, <2>3, <2>4, <2>5, NoFrameFields DEF Init, TypeOK
<1>3. \A d \in Deletions : /\ Holds(stagings[d]) = {} /\ ~stagings[d].made
                           /\ \A l \in Loc : stagings[d].files[l] = "none"
  BY <1>1, NoStagingFields
<1>4. Unfolded
  BY <1>1, <1>3 DEF Unfolded
<1>5. Sources
  BY <1>1, <1>3, ConstantsAssumption DEF Sources, Loc
<1>6. Kept /\ Labelled
  BY <1>1, <1>3 DEF Kept, Labelled, Loc
<1>7. Ahead /\ Reversible /\ Disposable
  BY <1>1 DEF Ahead, Reversible, Disposable, Moving
<1>8. Tidy /\ OnlyMissedRunsRemain
  BY <1>1, <1>3 DEF Tidy, OnlyMissedRunsRemain, Deleting
<1> QED BY <1>2, <1>4, <1>5, <1>6, <1>7, <1>8 DEF IInv

\* Rows, executions and signals change; files do not.
LEMMA RunTurnKeeps ==
  ASSUME IInv, LoopFree,
         UNCHANGED <<up, crashes, faults, project, live, stagings, ops, frame, pending,
                     held, missed>>,
         runs' \in [Runs -> Status], exec' \in [Runs -> Stage], aborted' \subseteq Runs,
         project => \A r \in Runs : runs[r] \in Stored => runs'[r] \in Stored,
         ~project => \A r \in Runs : runs'[r] \notin Stored
  PROVE  IInv'
<1>1. TypeOK'
  BY DEF IInv, TypeOK
<1>2. Sources' /\ Kept' /\ Labelled' /\ OnlyMissedRunsRemain'
  BY DataStands
<1>3. Unfolded'
  BY DEF IInv, Unfolded, Current
<1>4. Ahead' /\ Reversible' /\ Disposable'
  BY DEF LoopFree, Ahead, Reversible, Disposable, Moving
<1>5. Tidy'
  BY DEF IInv, Tidy, LoopFree, Deleting
<1> QED BY <1>1, <1>2, <1>3, <1>4, <1>5 DEF IInv

\* Runs that are cancelled end; what was over stays so.
LEMMA AbortEnds ==
  ASSUME IInv, NEW rs \in SUBSET Runs, Abort(rs), \A r \in rs : runs[r] \in Stored
  PROVE  /\ runs' \in [Runs -> Status] /\ aborted' \subseteq Runs
         /\ project => \A r \in Runs : runs[r] \in Stored => runs'[r] \in Stored
         /\ ~project => \A r \in Runs : runs'[r] \notin Stored
<1>1. TypeOK
  BY DEF IInv
<1>2. runs' \in [Runs -> Status] /\ aborted' \subseteq Runs
  BY <1>1 DEF TypeOK, Abort, Status
<1>3. \A r \in Runs : runs'[r] = IF r \in rs THEN "over" ELSE runs[r]
  BY DEF Abort
<1>4. "over" \in Stored
  BY DEF Stored
<1> QED BY <1>2, <1>3, <1>4 DEF IInv, Sources

LEMMA RunStepKeeps ==
  ASSUME IInv, NEW r \in Runs,
         Start(r) \/ Cancel(r) \/ BeginExecution(r) \/ ExecutionEnds(r)
  PROVE  IInv'
<1>1. TypeOK /\ Sources
  BY DEF IInv
<1>2. CASE Start(r)
  <2>1. runs' \in [Runs -> Status]
    BY <1>1, <1>2 DEF Start, TypeOK, Status
  <2>2. \A q \in Runs : runs[q] \in Stored => runs'[q] \in Stored
    BY <1>1, <1>2 DEF Start, TypeOK, Stored
  <2>3. LoopFree /\ project /\ exec' \in [Runs -> Stage] /\ aborted' \subseteq Runs
    BY <1>1, <1>2 DEF Start, TypeOK
  <2> QED BY <1>2, <2>1, <2>2, <2>3, RunTurnKeeps DEF Start
<1>3. CASE Cancel(r)
  <2>1. LoopFree /\ Abort({r}) /\ \A q \in {r} : runs[q] \in Stored
    BY <1>3 DEF Cancel, Stored
  <2>2. exec' \in [Runs -> Stage]
    BY <1>1, <1>3 DEF Cancel, TypeOK
  <2> QED BY <1>3, <2>1, <2>2, AbortEnds, RunTurnKeeps DEF Cancel
<1>4. CASE BeginExecution(r)
  <2>1. runs' \in [Runs -> Status] /\ exec' \in [Runs -> Stage] /\ aborted' \subseteq Runs
    BY <1>1, <1>4 DEF BeginExecution, TypeOK, Status, Stage
  <2>2. \A q \in Runs : runs[q] \in Stored => runs'[q] \in Stored
    BY <1>1, <1>4 DEF BeginExecution, TypeOK, Stored
  <2>3. project
    BY <1>1, <1>4 DEF BeginExecution, Sources, Stored
  <2>4. LoopFree
    BY <1>4 DEF BeginExecution
  <2> QED BY <1>4, <2>1, <2>2, <2>3, <2>4, RunTurnKeeps DEF BeginExecution
<1>5. CASE ExecutionEnds(r)
  <2>1. PICK s \in {"over", "queued"} :
            runs' = [runs EXCEPT ![r] = IF runs[r] = "running" THEN s ELSE runs[r]]
    BY <1>5 DEF ExecutionEnds
  <2>2. runs' \in [Runs -> Status] /\ exec' \in [Runs -> Stage] /\ aborted' \subseteq Runs
    BY <1>1, <1>5, <2>1 DEF ExecutionEnds, TypeOK, Status, Stage
  <2>3. \A q \in Runs : runs'[q] \in Stored <=> runs[q] \in Stored
    BY <1>1, <2>1 DEF TypeOK, Stored
  <2>4. LoopFree
    BY <1>5 DEF ExecutionEnds
  <2> QED BY <1>1, <1>5, <2>2, <2>3, <2>4, RunTurnKeeps DEF ExecutionEnds, Sources
<1> QED BY <1>2, <1>3, <1>4, <1>5

LEMMA EngineLoadsKeeps ==
  ASSUME IInv, NEW r \in Runs, EngineLoads(r)
  PROVE  IInv'
<1>1. /\ LoopFree /\ frame.pc = "idle" /\ TypeOK /\ ProjectDir \in Loc
      /\ live' = [live EXCEPT ![ProjectDir] = IF live[ProjectDir] = "none" THEN "new"
                                              ELSE live[ProjectDir]]
      /\ UNCHANGED <<up, crashes, faults, project, runs, aborted, stagings, ops,
                     frame, pending, held, missed>>
  BY ConstantsAssumption DEF EngineLoads, LoopFree, IInv, Loc
<1>2. live' \in Store /\ \A l \in Loc : live'[l] = "data" <=> live[l] = "data"
  BY <1>1 DEF TypeOK, Store, Content
<1>3. exec' \in [Runs -> Stage]
  BY <1>1 DEF EngineLoads, TypeOK, Stage
<1>4. TypeOK'
  BY <1>1, <1>2, <1>3 DEF TypeOK
<1>5. Sources'
  BY <1>1, <1>2 DEF IInv, Sources
<1>6. Kept' /\ Labelled'
  BY <1>1, <1>2 DEF IInv, Kept, Labelled, TypeOK
<1>7. OnlyMissedRunsRemain'
  BY <1>1, <1>2 DEF IInv, OnlyMissedRunsRemain
<1>8. Unfolded' /\ Ahead' /\ Reversible' /\ Disposable'
  BY <1>1 DEF IInv, Unfolded, Ahead, Reversible, Disposable, Moving
<1>9. Tidy'
  BY <1>1 DEF IInv, Tidy, LoopFree, Deleting
<1> QED BY <1>4, <1>5, <1>6, <1>7, <1>8, <1>9 DEF IInv

LEMMA SaveArtifactsKeeps ==
  ASSUME IInv, NEW r \in Runs, SaveArtifacts(r)
  PROVE  IInv'
<1>1. /\ LoopFree /\ frame.pc = "idle" /\ TypeOK /\ r \in Loc /\ runs[r] = "running"
      /\ live' = [live EXCEPT ![r] = "data"] /\ held' = held \cup {r}
      /\ UNCHANGED <<up, crashes, faults, project, runs, aborted, stagings, ops,
                     frame, pending, missed>>
  BY DEF SaveArtifacts, LoopFree, IInv, Loc
<1>2. /\ live' \in Store
      /\ \A l \in Loc : live'[l] = "data" <=> live[l] = "data" \/ l = r
  BY <1>1 DEF TypeOK, Store, Content
<1>3. runs[r] \in Stored /\ project
  BY <1>1 DEF IInv, Sources, Stored
<1>4. exec' \in [Runs -> Stage]
  BY <1>1 DEF SaveArtifacts, TypeOK, Stage
<1>5. TypeOK'
  BY <1>1, <1>2, <1>4 DEF TypeOK
<1>6. Sources'
  BY <1>1, <1>2, <1>3 DEF IInv, Sources
<1>7. Kept' /\ Labelled'
  BY <1>1, <1>2 DEF IInv, Kept, Labelled, TypeOK
<1>8. OnlyMissedRunsRemain'
  BY <1>1, <1>3 DEF OnlyMissedRunsRemain
<1>9. Unfolded' /\ Ahead' /\ Reversible' /\ Disposable'
  BY <1>1 DEF IInv, Unfolded, Ahead, Reversible, Disposable, Moving
<1>10. Tidy'
  BY <1>1 DEF IInv, Tidy, LoopFree, Deleting
<1> QED BY <1>5, <1>6, <1>7, <1>8, <1>9, <1>10 DEF IInv

\* A call is over or waits; its staging directory is not made before it has waited.
LEMMA CallStepKeeps ==
  ASSUME IInv, NEW d \in Deletions, CallStep(d)
  PROVE  IInv'
<1>1. TypeOK /\ Unfolded /\ LoopFree /\ frame.pc = "idle"
  BY DEF IInv, CallStep, Request, GiveUp, StopWaiting, LoopFree
<1>2. UNCHANGED <<up, crashes, faults, project, live, stagings, held, missed, exec, pending>>
  BY DEF CallStep, Request, GiveUp, StopWaiting
<1>3. /\ runs' \in [Runs -> Status] /\ aborted' \subseteq Runs
      /\ project => \A r \in Runs : runs[r] \in Stored => runs'[r] \in Stored
      /\ ~project => \A r \in Runs : runs'[r] \notin Stored
  <2>1. CASE Request(d)
    <3> DEFINE active == {r \in Runs : runs[r] \in {"queued", "running"}}
    <3>1. Abort(active) /\ active \in SUBSET Runs /\ \A r \in active : runs[r] \in Stored
      BY <2>1 DEF Request, Stored
    <3> HIDE DEF active
    <3> QED BY <3>1, AbortEnds
  <2>2. CASE GiveUp(d) \/ StopWaiting(d)
    BY <1>1, <2>2 DEF GiveUp, StopWaiting, TypeOK, IInv, Sources
  <2> QED BY <2>1, <2>2 DEF CallStep
<1>4. ops' \in [Deletions -> Op] /\ \A e \in Deletions : e # d => ops'[e] = ops[e]
  <2>1. CASE Request(d)
    BY <1>1, <2>1 DEF Request, TypeOK, Op, Stored
  <2>2. CASE GiveUp(d) \/ StopWaiting(d)
    BY <1>1, <2>2 DEF GiveUp, StopWaiting, TypeOK, Op
  <2> QED BY <2>1, <2>2 DEF CallStep
<1>5. stagings[d] = NoStaging
  BY <1>1 DEF Unfolded, CallStep, Request, GiveUp, StopWaiting
<1>6. Sources' /\ Kept' /\ Labelled' /\ OnlyMissedRunsRemain'
  BY <1>2, <1>3, DataStands
<1>7. CASE frame' = frame
  <2>1. TypeOK'
    BY <1>1, <1>2, <1>3, <1>4, <1>7 DEF TypeOK
  <2>2. Unfolded'
    BY <1>1, <1>2, <1>4, <1>5, <1>7 DEF Unfolded
  <2>3. Ahead' /\ Reversible' /\ Disposable'
    BY <1>1, <1>7 DEF Ahead, Reversible, Disposable, Moving
  <2>4. Tidy'
    BY <1>1, <1>2, <1>7 DEF IInv, Tidy, LoopFree, Deleting
  <2> QED BY <1>6, <2>1, <2>2, <2>3, <2>4 DEF IInv
<1>8. CASE StopWaiting(d)
  <2>1. frame' \in Frame /\ frame'.pc = "mkdir" /\ frame'.del = d
    BY <1>8 DEF StopWaiting, NoFrame, Frame, Pc
  <2>2. TypeOK'
    BY <1>1, <1>2, <1>3, <1>4, <2>1 DEF TypeOK
  <2>3. Unfolded'
    <3>1. ops'[d].state = "over"
      BY <1>1, <1>8 DEF StopWaiting, TypeOK, Op
    <3> QED BY <1>1, <1>2, <1>4, <1>5, <2>1, <3>1 DEF Unfolded, Current
  <2>4. Ahead' /\ Reversible' /\ Disposable'
    BY <2>1 DEF Ahead, Reversible, Disposable, Moving
  <2>5. Tidy'
    BY <1>1, <1>2, <2>1 DEF IInv, Tidy, LoopFree
  <2> QED BY <1>6, <2>2, <2>3, <2>4, <2>5 DEF IInv
<1> QED BY <1>7, <1>8 DEF CallStep, Request, GiveUp

LEMMA CrashKeeps ==
  ASSUME IInv, Crash
  PROVE  IInv'
<1>1. /\ up' = FALSE /\ frame' = NoFrame /\ frame'.pc = "idle" /\ TypeOK
      /\ UNCHANGED <<faults, project, runs, live, stagings, held, missed>>
      /\ crashes' \in 0..MaxCrashes
  BY ConstantsAssumption, NoFrameFields DEF Crash, IInv, TypeOK
<1>2. /\ ops' \in [Deletions -> Op]
      /\ \A d \in Deletions : ops'[d].state \in {"unused", "waiting"} => ops[d].state = "unused"
  BY <1>1 DEF Crash, TypeOK, Op
<1>3. TypeOK'
  <2>1. exec' \in [Runs -> Stage] /\ aborted' \subseteq Runs /\ pending' \in BOOLEAN
    BY DEF Crash, Stage
  <2> QED BY <1>1, <1>2, <2>1, NoFrameFields DEF TypeOK
<1>4. Sources' /\ Kept' /\ Labelled' /\ OnlyMissedRunsRemain'
  BY <1>1, DataStands DEF IInv, Sources
<1>5. Unfolded'
  BY <1>1, <1>2 DEF IInv, Unfolded
<1>6. Ahead' /\ Reversible' /\ Disposable' /\ Tidy'
  BY <1>1 DEF Ahead, Reversible, Disposable, Moving, Tidy, LoopFree, Deleting
<1> QED BY <1>3, <1>4, <1>5, <1>6 DEF IInv

LEMMA RestartKeeps ==
  ASSUME IInv, Restart
  PROVE  IInv'
<1>1. /\ frame' \in Frame /\ frame'.pc = "boot" /\ up' = TRUE /\ TypeOK
      /\ UNCHANGED <<crashes, faults, project, runs, exec, aborted, live, stagings,
                     ops, pending, held, missed>>
  BY DEF Restart, NoFrame, Frame, Pc, IInv
<1>2. TypeOK'
  BY <1>1 DEF TypeOK
<1>3. Sources' /\ Kept' /\ Labelled' /\ OnlyMissedRunsRemain'
  BY <1>1, DataStands DEF IInv, Sources
<1>4. Unfolded'
  BY <1>1 DEF IInv, Unfolded
<1>5. Ahead' /\ Reversible' /\ Disposable' /\ Tidy'
  BY <1>1 DEF Ahead, Reversible, Disposable, Moving, Tidy, LoopFree, Deleting
<1> QED BY <1>2, <1>3, <1>4, <1>5 DEF IInv

LEMMA ReadyKeeps ==
  ASSUME IInv, Ready
  PROVE  IInv'
<1>1. /\ up /\ frame' = NoFrame /\ frame'.pc = "idle" /\ TypeOK
      /\ pending' = (frame.failed \/ AnyStaged)
      /\ UNCHANGED <<Others, faults, project, live, stagings, missed>>
  BY NoFrameFields DEF Ready, At, IInv
<1>2. /\ runs' \in [Runs -> Status]
      /\ \A r \in Runs : runs'[r] \in Stored <=> runs[r] \in Stored
  BY <1>1 DEF Ready, TypeOK, Status, Stored
<1>3. pending' \in BOOLEAN
  BY <1>1, FrameFields DEF AnyStaged
<1>4. TypeOK'
  BY <1>1, <1>2, <1>3, NoFrameFields DEF TypeOK, Others
<1>5. Sources' /\ Kept' /\ Labelled' /\ OnlyMissedRunsRemain'
  BY <1>1, <1>2, DataStands DEF IInv, Sources, Others
<1>6. Unfolded'
  BY <1>1 DEF IInv, Unfolded, Others
<1>7. Ahead' /\ Reversible' /\ Disposable'
  BY <1>1 DEF Ahead, Reversible, Disposable, Moving
<1>8. Tidy'
  BY <1>1 DEF Tidy, Deleting, AnyStaged
<1> QED BY <1>4, <1>5, <1>6, <1>7, <1>8 DEF IInv

-----------------------------------------------------------------------------
(* Synchronous steps that move nothing.                                    *)

LEMMA FrameStepKeeps ==
  ASSUME IInv, UNCHANGED <<Others, project, runs, live, stagings, missed>>,
         faults' \in 0..MaxFaults, pending' \in BOOLEAN, frame' \in Frame,
         frame'.pc = "idle" => frame' = NoFrame,
         frame'.pc \notin {"idle", "boot"} => frame'.del \in Deletions,
         frame'.pc # "mkdir", Ahead', Reversible', Disposable', Tidy'
  PROVE  IInv'
<1>1. TypeOK'
  BY DEF IInv, TypeOK, Others
<1>2. Sources' /\ Kept' /\ Labelled' /\ OnlyMissedRunsRemain'
  BY DataStands DEF IInv, Sources, Others
<1>3. Unfolded'
  BY DEF IInv, Unfolded, Others
<1> QED BY <1>1, <1>2, <1>3 DEF IInv

LEMMA FaultType ==
  ASSUME TypeOK, Fault
  PROVE  faults' \in 0..MaxFaults
  BY ConstantsAssumption DEF TypeOK, Fault

LEMMA StagingDoneKeeps ==
  ASSUME IInv, StagingDone
  PROVE  IInv'
<1>1. /\ up /\ frame.pc = "move" /\ frame.locs = {} /\ TypeOK
      /\ UNCHANGED <<Others, faults, project, runs, live, stagings, pending, missed>>
  BY DEF StagingDone, At, IInv
<1>2. frame' \in Frame /\ frame'.pc = "delete" /\ frame'.del = frame.del
  BY <1>1, FrameFields DEF StagingDone, Goto, Frame, Pc
<1>3. Current' = Current /\ frame.del \in Deletions
  BY <1>1, <1>2 DEF Current, IInv, Unfolded
<1>4. Ahead'
  BY <1>1, <1>2, <1>3 DEF IInv, Ahead, Others, Named
<1>5. Reversible'
  BY <1>1, <1>2, <1>3 DEF IInv, Reversible, Moving, Holds
<1>6. Disposable'
  BY <1>2 DEF Disposable
<1>7. Tidy'
  BY <1>1, <1>2 DEF IInv, Tidy, LoopFree, Deleting, Others
<1>8. faults' \in 0..MaxFaults /\ pending' \in BOOLEAN
  BY <1>1 DEF TypeOK
<1> QED BY <1>1, <1>2, <1>3, <1>4, <1>5, <1>6, <1>7, <1>8, FrameStepKeeps

LEMMA RollBackKeeps ==
  ASSUME IInv, AlreadyDeleted \/ StepFails
  PROVE  IInv'
<1>1. /\ up /\ frame.pc \in {"mkdir", "tmp", "manifest", "move", "delete"} /\ RollBack
      /\ UNCHANGED <<Others, project, runs, live, stagings, pending, missed>>
      /\ TypeOK
  BY DEF AlreadyDeleted, StepFails, At, IInv
<1>2. frame.del \in Deletions /\ Current \in Staging
  BY <1>1 DEF IInv, Unfolded, Current, TypeOK
<1>3. /\ frame' \in Frame /\ frame'.pc = "rollback" /\ frame'.del = frame.del
      /\ frame'.locs = Holds(Current)
  <2>1. Holds(Current) \subseteq Loc
    BY <1>2, StagingFields
  <2> QED BY <1>1, <2>1, FrameFields DEF RollBack, Frame, Pc, Current
<1>4. Current' = Current /\ Holds(Current)' = Holds(Current)
  BY <1>1, <1>3 DEF Current, Holds
<1>5. \A l \in Holds(Current) : /\ live[l] = "none"
                                /\ ~project /\ Current.files[l] = "data" => l \in missed
  <2>1. CASE frame.pc \in {"mkdir", "tmp", "manifest"}
    BY <2>1, NoStagingFields DEF IInv, Unfolded, Ahead
  <2>2. CASE frame.pc \in {"move", "delete"}
    BY <2>2 DEF IInv, Reversible, Moving
  <2> QED BY <1>1, <2>1, <2>2
<1>6. Ahead' /\ Disposable'
  BY <1>3 DEF Ahead, Disposable
<1>7. Reversible'
  BY <1>1, <1>3, <1>4, <1>5 DEF Reversible, Moving
<1>8. Tidy'
  BY <1>1, <1>3 DEF IInv, Tidy, LoopFree, Deleting, Others
<1>9. faults' \in 0..MaxFaults /\ pending' \in BOOLEAN
  BY <1>1, FaultType DEF AlreadyDeleted, StepFails, TypeOK
<1> QED BY <1>1, <1>2, <1>3, <1>6, <1>7, <1>8, <1>9, FrameStepKeeps

LEMMA PutBackFailsKeeps ==
  ASSUME IInv, NEW l \in Loc, PutBackFails(l)
  PROVE  IInv'
<1>1. /\ up /\ frame.pc = "rollback" /\ Fault /\ TypeOK
      /\ UNCHANGED <<Others, project, runs, live, stagings, pending, missed>>
  BY DEF PutBackFails, At, IInv
<1>2. /\ frame' \in Frame /\ frame'.pc = "rollback" /\ frame'.del = frame.del
      /\ frame'.locs = frame.locs \ {l} /\ frame'.failed
  BY <1>1, FrameFields DEF PutBackFails, Frame
<1>3. /\ Current' = Current /\ Holds(Current)' = Holds(Current) /\ frame.del \in Deletions
  BY <1>1, <1>2 DEF Current, Holds, IInv, Unfolded
<1>4. Ahead' /\ Disposable'
  BY <1>2 DEF Ahead, Disposable
<1>5. Reversible'
  BY <1>1, <1>2, <1>3 DEF IInv, Reversible, Moving
<1>6. Tidy'
  BY <1>1, <1>2 DEF IInv, Tidy, LoopFree, Deleting, Others
<1>7. faults' \in 0..MaxFaults /\ pending' \in BOOLEAN
  BY <1>1, FaultType DEF TypeOK
<1> QED BY <1>1, <1>2, <1>3, <1>4, <1>5, <1>6, <1>7, FrameStepKeeps

LEMMA RolledBackKeeps ==
  ASSUME IInv, RolledBack
  PROVE  IInv'
<1>1. /\ up /\ frame.pc = "rollback" /\ frame.locs = {} /\ TypeOK /\ frame.del \in Deletions
      /\ UNCHANGED <<Others, faults, project, runs, live, stagings, missed>>
      /\ faults' \in 0..MaxFaults
  BY DEF RolledBack, At, IInv, TypeOK, Unfolded
<1>2. CASE frame.failed
  <2>1. pending' = TRUE /\ frame' = NoFrame /\ frame'.pc = "idle"
    BY <1>2, NoFrameFields DEF RolledBack
  <2>2. Ahead' /\ Reversible' /\ Disposable' /\ Tidy'
    BY <2>1 DEF Ahead, Reversible, Disposable, Moving, Tidy, Deleting
  <2> QED BY <1>1, <2>1, <2>2, NoFrameFields, FrameStepKeeps
<1>3. CASE ~frame.failed
  <2>1. /\ frame' \in Frame /\ frame'.pc = "discard" /\ frame'.del = frame.del
        /\ pending' = pending
    BY <1>1, <1>3, FrameFields DEF RolledBack, Goto, Frame, Pc
  <2>2. Current' = Current /\ Holds(Current)' = {}
    BY <1>1, <1>3, <2>1 DEF Current, Holds, IInv, Reversible
  <2>3. Ahead' /\ Reversible' /\ Disposable'
    BY <2>1, <2>2 DEF Ahead, Reversible, Disposable, Moving
  <2>4. Tidy'
    BY <1>1, <2>1 DEF IInv, Tidy, LoopFree, Deleting, Others
  <2>5. pending' \in BOOLEAN
    BY <1>1, <2>1 DEF TypeOK
  <2> QED BY <1>1, <2>1, <2>3, <2>4, <2>5, FrameStepKeeps
<1> QED BY <1>2, <1>3

LEMMA RemovalFailsKeeps ==
  ASSUME IInv, RemovalFails
  PROVE  IInv'
<1>1. /\ frame.pc \in {"discard", "finalize", "sweep"} /\ TypeOK /\ Fault
      /\ UNCHANGED <<Others, project, runs, live, stagings, missed>>
      /\ frame.del \in Deletions
  BY DEF RemovalFails, AtRemoval, IInv, Unfolded
<1>2. /\ frame' \in Frame /\ frame'.pc \in {"idle", "boot"}
      /\ frame'.pc = "idle" => frame' = NoFrame /\ pending' = TRUE
      /\ pending' \in BOOLEAN
  <2>1. CASE frame.pc = "sweep"
    <3>1. frame' = [NoFrame EXCEPT !.pc = "boot", !.entries = frame.entries \ {frame.del},
                                   !.failed = frame.failed \/ ~FALSE]
      BY <2>1 DEF RemovalFails, AfterRemoval
    <3> QED BY <1>1, <2>1, <3>1, FrameFields DEF RemovalFails, NoFrame, Frame, Pc, TypeOK
  <2>2. CASE frame.pc # "sweep"
    BY <2>2, NoFrameFields DEF RemovalFails, AfterRemoval
  <2> QED BY <2>1, <2>2
<1>3. Ahead' /\ Reversible' /\ Disposable' /\ Tidy'
  BY <1>2 DEF Ahead, Reversible, Disposable, Moving, Tidy, LoopFree, Deleting
<1>4. faults' \in 0..MaxFaults
  BY <1>1, FaultType
<1> QED BY <1>1, <1>2, <1>3, <1>4, FrameStepKeeps

\* Back to the listing of the staging base.
LEMMA SkipKeeps ==
  ASSUME IInv, NEW d, Skip(d), up, faults' \in 0..MaxFaults,
         UNCHANGED <<Others, project, runs, live, stagings, pending, missed>>
  PROVE  IInv'
<1>1. TypeOK
  BY DEF IInv
<1>2. frame' \in Frame /\ frame'.pc = "boot" /\ pending' \in BOOLEAN
  BY <1>1, FrameFields DEF Skip, Frame, Pc, TypeOK
<1>3. Ahead' /\ Reversible' /\ Disposable' /\ Tidy'
  BY <1>2 DEF Ahead, Reversible, Disposable, Moving, Tidy, LoopFree, Deleting
<1> QED BY <1>2, <1>3, FrameStepKeeps

LEMMA ReadEntryKeeps ==
  ASSUME IInv, NEW d \in Deletions, ReadEntry(d)
  PROVE  IInv'
<1>1. /\ up /\ frame.pc = "boot" /\ TypeOK /\ stagings[d] \in Staging
      /\ UNCHANGED <<Others, faults, project, runs, live, stagings, pending, missed>>
      /\ faults' \in 0..MaxFaults /\ pending' \in BOOLEAN
  BY DEF ReadEntry, At, IInv, TypeOK
<1>2. CASE /\ frame' = [frame EXCEPT !.pc = "sweep", !.del = d]
           /\ project => Holds(stagings[d]) = {}
  <2>1. frame' \in Frame /\ frame'.pc = "sweep" /\ frame'.del = d
    BY <1>1, <1>2, FrameFields DEF Frame, Pc
  <2>2. Current' = stagings[d] /\ Holds(Current)' = Holds(stagings[d])
    BY <1>1, <2>1 DEF Current, Holds
  <2>3. Ahead' /\ Reversible' /\ Disposable' /\ Tidy'
    BY <1>1, <1>2, <2>1, <2>2 DEF Ahead, Reversible, Disposable, Moving, Tidy, LoopFree, Deleting
  <2> QED BY <1>1, <2>1, <2>3, FrameStepKeeps
<1>3. CASE Skip(d)
  BY <1>1, <1>3, SkipKeeps
<1>4. CASE /\ frame' = [frame EXCEPT !.pc = "restore", !.del = d, !.locs = Named(stagings[d])]
           /\ project
  <2>1. /\ frame' \in Frame /\ frame'.pc = "restore" /\ frame'.del = d
        /\ frame'.locs = Named(stagings[d])
    BY <1>1, <1>4, FrameFields, StagingFields DEF Frame, Pc
  <2>2. Current' = stagings[d] /\ Holds(Current)' = Holds(stagings[d])
    BY <1>1, <2>1 DEF Current, Holds
  <2>3. Holds(stagings[d]) \subseteq Named(stagings[d])
    BY <1>4 DEF IInv, Labelled
  <2>4. Ahead' /\ Reversible' /\ Disposable' /\ Tidy'
    BY <1>1, <1>4, <2>1, <2>2, <2>3
       DEF Ahead, Reversible, Disposable, Moving, Tidy, LoopFree, Deleting
  <2> QED BY <1>1, <2>1, <2>4, FrameStepKeeps
<1> QED BY <1>2, <1>3, <1>4 DEF ReadEntry

LEMMA RestoreStopsKeeps ==
  ASSUME IInv, RestoreFails \/ \E l \in Loc : RestoreConflicts(l)
  PROVE  IInv'
<1>1. TypeOK
  BY DEF IInv
<1>2. faults' \in 0..MaxFaults
  BY <1>1, FaultType DEF RestoreFails, RestoreConflicts, TypeOK
<1>3. /\ Skip(frame.del) /\ up
      /\ UNCHANGED <<Others, project, runs, live, stagings, pending, missed>>
  BY DEF RestoreFails, RestoreConflicts, At
<1> QED BY <1>2, <1>3, SkipKeeps

LEMMA RestoredKeeps ==
  ASSUME IInv, Restored
  PROVE  IInv'
<1>1. /\ up /\ frame.pc = "restore" /\ frame.locs = {} /\ TypeOK /\ frame.del \in Deletions
      /\ UNCHANGED <<Others, faults, project, runs, live, stagings, pending, missed>>
      /\ faults' \in 0..MaxFaults /\ pending' \in BOOLEAN
  BY DEF Restored, At, IInv, TypeOK, Unfolded
<1>2. frame' \in Frame /\ frame'.pc = "sweep" /\ frame'.del = frame.del
  BY <1>1, FrameFields DEF Restored, Goto, Frame, Pc
<1>3. Holds(Current)' = {}
  BY <1>1, <1>2 DEF Current, Holds, IInv, Reversible
<1>4. Ahead' /\ Reversible' /\ Disposable' /\ Tidy'
  BY <1>1, <1>2, <1>3 DEF Ahead, Reversible, Disposable, Moving, Tidy, LoopFree, Deleting
<1> QED BY <1>1, <1>2, <1>4, FrameStepKeeps

-----------------------------------------------------------------------------
(* Synchronous steps that change a staging directory, its manifest or both. *)

\* What is staged stays; the directory or its manifest comes or goes.
LEMMA LabelsChange ==
  ASSUME IInv, NEW d \in Deletions, NEW t \in Staging,
         stagings' = [stagings EXCEPT ![d] = t], t.files = stagings[d].files,
         UNCHANGED <<project, runs, live, held, missed>>
  PROVE  /\ Sources' /\ Kept' /\ OnlyMissedRunsRemain'
         /\ stagings' \in [Deletions -> Staging]
         /\ stagings'[d] = t
         /\ \A e \in Deletions : e # d => stagings'[e] = stagings[e]
         /\ \A e \in Deletions : Holds(stagings'[e]) = Holds(stagings[e])
<1>1. TypeOK
  BY DEF IInv
<1>2. /\ stagings' \in [Deletions -> Staging] /\ stagings'[d] = t
      /\ \A e \in Deletions : e # d => stagings'[e] = stagings[e]
  BY <1>1, OneChanges
<1>3. \A e \in Deletions : stagings'[e].files = stagings[e].files
  BY <1>2
<1>4. \A e \in Deletions : Holds(stagings'[e]) = Holds(stagings[e])
  BY <1>3 DEF Holds
<1>5. Sources'
  BY <1>3 DEF IInv, Sources
<1>6. Kept'
  BY <1>3 DEF IInv, Kept
<1>7. OnlyMissedRunsRemain'
  BY DEF IInv, OnlyMissedRunsRemain
<1> QED BY <1>2, <1>4, <1>5, <1>6, <1>7

LEMMA MakeStagingKeeps ==
  ASSUME IInv, MakeStaging
  PROVE  IInv'
<1>1. /\ up /\ frame.pc = "mkdir" /\ TypeOK /\ frame.del \in Deletions
      /\ Current = NoStaging /\ ops[frame.del].state = "over"
      /\ UNCHANGED <<Others, faults, project, runs, live, pending, missed>>
  BY DEF MakeStaging, At, IInv, Unfolded
<1>2. PICK d \in Deletions : d = frame.del
  BY <1>1
<1>3. /\ frame' \in Frame /\ frame'.pc = "tmp" /\ frame'.del = d
  BY <1>1, <1>2, FrameFields DEF MakeStaging, Goto, Frame, Pc
<1>4. PICK t \in Staging : /\ stagings' = [stagings EXCEPT ![d] = t]
                           /\ t.made /\ t.files = stagings[d].files
  <2> DEFINE t == [stagings[d] EXCEPT !.made = TRUE]
  <2>1. stagings' = [stagings EXCEPT ![d] = t] /\ stagings[d] \in Staging
    BY <1>1, <1>2 DEF MakeStaging, TypeOK
  <2>2. t \in Staging /\ t.made /\ t.files = stagings[d].files
    BY <2>1 DEF Staging
  <2> QED BY <2>1, <2>2
<1>5. /\ Sources' /\ Kept' /\ OnlyMissedRunsRemain'
      /\ stagings' \in [Deletions -> Staging]
      /\ stagings'[d] = t
      /\ \A e \in Deletions : e # d => stagings'[e] = stagings[e]
      /\ \A e \in Deletions : Holds(stagings'[e]) = Holds(stagings[e])
  BY <1>1, <1>4, LabelsChange DEF Others
<1>6. Holds(stagings[d]) = {} /\ Current' = t /\ Holds(Current)' = {}
  <2>1. Holds(stagings[d]) = {}
    BY <1>1, <1>2, NoStagingFields DEF Current
  <2> QED BY <1>3, <1>5, <2>1 DEF Current, Holds
<1>7. TypeOK'
  BY <1>1, <1>3, <1>5 DEF TypeOK, Others
<1>8. Unfolded'
  BY <1>1, <1>2, <1>3, <1>4, <1>5 DEF IInv, Unfolded, Others
<1>9. Labelled'
  BY <1>1, <1>5, <1>6 DEF IInv, Labelled, Others
<1>10. Ahead'
  BY <1>3, <1>4, <1>6 DEF Ahead
<1>11. Reversible' /\ Disposable'
  BY <1>3 DEF Reversible, Disposable, Moving
<1>12. Tidy'
  BY <1>1, <1>2, <1>3, <1>5 DEF IInv, Tidy, LoopFree, Deleting, Others
<1> QED BY <1>5, <1>7, <1>8, <1>9, <1>10, <1>11, <1>12 DEF IInv

LEMMA WriteManifestKeeps ==
  ASSUME IInv, WriteManifest
  PROVE  IInv'
<1>1. /\ up /\ frame.pc = "tmp" /\ TypeOK /\ frame.del \in Deletions
      /\ Current.made /\ Holds(Current) = {}
      /\ UNCHANGED <<Others, faults, project, runs, live, pending, missed>>
  BY DEF WriteManifest, At, IInv, Unfolded, Ahead
<1>2. PICK d \in Deletions : d = frame.del
  BY <1>1
<1>3. /\ frame' \in Frame /\ frame'.pc = "manifest" /\ frame'.del = d
  BY <1>1, <1>2, FrameFields DEF WriteManifest, Goto, Frame, Pc
<1>4. PICK t \in Staging : /\ stagings' = [stagings EXCEPT ![d] = t]
                           /\ t.made /\ t.files = stagings[d].files
                           /\ t.runIds = ops[d].runIds
  <2> DEFINE t == [stagings[d] EXCEPT !.manifest = "tmp", !.runIds = ops[d].runIds]
  <2>1. stagings[d] \in Staging /\ stagings[d].made /\ ops[d].runIds \in SUBSET Runs
    BY <1>1, <1>2 DEF TypeOK, Op, Current
  <2>2. stagings' = [stagings EXCEPT ![d] = t]
    BY <1>1, <1>2, <2>1 DEF WriteManifest, TypeOK
  <2>3. /\ t \in Staging /\ t.made /\ t.files = stagings[d].files
        /\ t.runIds = ops[d].runIds
    BY <2>1 DEF Staging
  <2> QED BY <2>2, <2>3
<1>5. /\ Sources' /\ Kept' /\ OnlyMissedRunsRemain'
      /\ stagings' \in [Deletions -> Staging]
      /\ stagings'[d] = t
      /\ \A e \in Deletions : e # d => stagings'[e] = stagings[e]
      /\ \A e \in Deletions : Holds(stagings'[e]) = Holds(stagings[e])
  BY <1>1, <1>4, LabelsChange DEF Others
<1>6. Holds(stagings[d]) = {} /\ Current' = t /\ Holds(Current)' = {}
  <2>1. Holds(stagings[d]) = {}
    BY <1>1, <1>2 DEF Current
  <2> QED BY <1>3, <1>5, <2>1 DEF Current, Holds
<1>7. TypeOK'
  BY <1>1, <1>3, <1>5 DEF TypeOK, Others
<1>8. Unfolded'
  <2>1. ops[d].state \notin {"unused", "waiting"}
    BY <1>1, <1>2, NoStagingFields DEF IInv, Unfolded, Current
  <2> QED BY <1>1, <1>2, <1>3, <1>4, <1>5, <2>1 DEF IInv, Unfolded, Others
<1>9. Labelled'
  BY <1>1, <1>5, <1>6 DEF IInv, Labelled, Others
<1>10. Ahead'
  BY <1>1, <1>3, <1>4, <1>6 DEF Ahead, Others
<1>11. Reversible' /\ Disposable'
  BY <1>3 DEF Reversible, Disposable, Moving
<1>12. Tidy'
  BY <1>1, <1>2, <1>3, <1>5 DEF IInv, Tidy, LoopFree, Deleting, Others
<1> QED BY <1>5, <1>7, <1>8, <1>9, <1>10, <1>11, <1>12 DEF IInv

LEMMA PublishManifestKeeps ==
  ASSUME IInv, PublishManifest
  PROVE  IInv'
<1>1. /\ up /\ frame.pc = "manifest" /\ TypeOK /\ frame.del \in Deletions
      /\ Current.made /\ Holds(Current) = {} /\ Current.runIds = ops[frame.del].runIds
      /\ UNCHANGED <<Others, faults, project, runs, live, pending, missed>>
  BY DEF PublishManifest, At, IInv, Unfolded, Ahead
<1>2. PICK d \in Deletions : d = frame.del
  BY <1>1
<1>3. PICK t \in Staging : /\ stagings' = [stagings EXCEPT ![d] = t]
                           /\ t.made /\ t.files = stagings[d].files
                           /\ t.manifest = "done"
                           /\ t.runIds = stagings[d].runIds
  <2> DEFINE t == [stagings[d] EXCEPT !.manifest = "done"]
  <2>1. stagings[d] \in Staging /\ stagings[d].made
    BY <1>1, <1>2 DEF TypeOK, Current
  <2>2. stagings' = [stagings EXCEPT ![d] = t]
    BY <1>1, <1>2 DEF PublishManifest, TypeOK
  <2>3. /\ t \in Staging /\ t.made /\ t.files = stagings[d].files
        /\ t.manifest = "done" /\ t.runIds = stagings[d].runIds
    BY <2>1 DEF Staging
  <2> QED BY <2>2, <2>3
<1>4. /\ frame' \in Frame /\ frame'.pc = "move" /\ frame'.del = d
      /\ frame'.locs = Named(t)
  <2>1. Named(stagings[d]) = Named(t) /\ Named(t) \subseteq Loc
    BY <1>3, StagingFields DEF Named
  <2> QED BY <1>1, <1>2, <2>1, FrameFields DEF PublishManifest, Frame, Pc
<1>5. /\ Sources' /\ Kept' /\ OnlyMissedRunsRemain'
      /\ stagings' \in [Deletions -> Staging]
      /\ stagings'[d] = t
      /\ \A e \in Deletions : e # d => stagings'[e] = stagings[e]
      /\ \A e \in Deletions : Holds(stagings'[e]) = Holds(stagings[e])
  BY <1>1, <1>3, LabelsChange DEF Others
<1>6. Holds(stagings[d]) = {} /\ Current' = t /\ Holds(t) = {}
  <2>1. Holds(stagings[d]) = {}
    BY <1>1, <1>2 DEF Current
  <2> QED BY <1>3, <1>4, <1>5, <2>1 DEF Current, Holds
<1>7. TypeOK'
  BY <1>1, <1>4, <1>5 DEF TypeOK, Others
<1>8. Unfolded'
  <2>1. ops[d].state \notin {"unused", "waiting"}
    BY <1>1, <1>2, NoStagingFields DEF IInv, Unfolded, Current
  <2> QED BY <1>1, <1>2, <1>3, <1>4, <1>5, <2>1 DEF IInv, Unfolded, Others
<1>9. Labelled'
  BY <1>1, <1>5, <1>6 DEF IInv, Labelled, Others
<1>10. Ahead'
  <2>1. Named(Current)' = Named(t)
    BY <1>6 DEF Named
  <2>2. \A l \in Named(t) : t.files[l] = "none"
    BY <1>6, StagingFields DEF Holds
  <2>3. t.runIds = ops'[d].runIds
    BY <1>1, <1>2, <1>3 DEF Current, Others
  <2> QED BY <1>3, <1>4, <1>6, <2>1, <2>2, <2>3 DEF Ahead
<1>11. Reversible' /\ Disposable'
  <2>1. Holds(Current)' = {}
    BY <1>6 DEF Holds
  <2> QED BY <1>4, <2>1 DEF Reversible, Disposable
<1>12. Tidy'
  BY <1>1, <1>2, <1>4, <1>5 DEF IInv, Tidy, LoopFree, Deleting, Others
<1> QED BY <1>5, <1>7, <1>8, <1>9, <1>10, <1>11, <1>12 DEF IInv

LEMMA RemoveManifestKeeps ==
  ASSUME IInv, RemoveManifest
  PROVE  IInv'
<1>1. /\ frame.pc \in {"discard", "finalize", "sweep"} /\ TypeOK
      /\ frame.del \in Deletions /\ Current.manifest # "none"
      /\ UNCHANGED <<Others, faults, project, runs, live, frame, pending, missed>>
  BY DEF RemoveManifest, AtRemoval, IInv, Unfolded, Current
<1>2. PICK d \in Deletions : d = frame.del
  BY <1>1
<1>3. PICK t \in Staging : /\ stagings' = [stagings EXCEPT ![d] = t]
                           /\ t.made = stagings[d].made /\ t.files = stagings[d].files
  <2> DEFINE t == [stagings[d] EXCEPT !.manifest = "none", !.runIds = {}]
  <2>1. stagings[d] \in Staging
    BY <1>1, <1>2 DEF TypeOK
  <2>2. stagings' = [stagings EXCEPT ![d] = t]
    BY <1>1, <1>2 DEF RemoveManifest, TypeOK
  <2>3. t \in Staging /\ t.made = stagings[d].made /\ t.files = stagings[d].files
    BY <2>1 DEF Staging
  <2> QED BY <2>2, <2>3
<1>4. /\ Sources' /\ Kept' /\ OnlyMissedRunsRemain'
      /\ stagings' \in [Deletions -> Staging]
      /\ stagings'[d] = t
      /\ \A e \in Deletions : e # d => stagings'[e] = stagings[e]
      /\ \A e \in Deletions : Holds(stagings'[e]) = Holds(stagings[e])
  BY <1>1, <1>3, LabelsChange DEF Others
<1>5. project => Holds(stagings[d]) = {}
  <2>1. CASE frame.pc \in {"discard", "sweep"}
    BY <1>2, <2>1 DEF IInv, Disposable, Current
  <2>2. CASE frame.pc = "finalize"
    BY <2>2 DEF IInv, Disposable
  <2> QED BY <1>1, <2>1, <2>2
<1>6. Holds(Current)' = Holds(Current)
  BY <1>1, <1>2, <1>4 DEF Current, Holds
<1>7. TypeOK'
  BY <1>1, <1>4 DEF TypeOK, Others
<1>8. Unfolded'
  <2>1. ops[d].state \notin {"unused", "waiting"}
    BY <1>1, <1>2, NoStagingFields DEF IInv, Unfolded, Current
  <2>2. \A e \in Deletions : stagings'[e].made = stagings[e].made
    BY <1>3, <1>4
  <2> QED BY <1>1, <1>2, <1>4, <2>1, <2>2 DEF IInv, Unfolded, Others
<1>9. Labelled'
  BY <1>1, <1>4, <1>5 DEF IInv, Labelled, Others
<1>10. Ahead' /\ Reversible'
  BY <1>1 DEF Ahead, Reversible, Moving
<1>11. Disposable'
  BY <1>1, <1>6 DEF IInv, Disposable
<1>12. Tidy'
  <2>1. \A e \in Deletions : stagings'[e].made = stagings[e].made
    BY <1>3, <1>4
  <2> QED BY <1>1, <2>1 DEF IInv, Tidy, LoopFree, Deleting, Others
<1> QED BY <1>4, <1>7, <1>8, <1>9, <1>10, <1>11, <1>12 DEF IInv

LEMMA RemoveRootKeeps ==
  ASSUME IInv, RemoveRoot
  PROVE  IInv'
<1>1. /\ frame.pc \in {"discard", "finalize", "sweep"} /\ TypeOK /\ up
      /\ frame.del \in Deletions /\ Current.manifest = "none" /\ Holds(Current) = {}
      /\ pending' = (IF frame.pc = "finalize" THEN AnyStaged' ELSE pending)
      /\ UNCHANGED <<Others, faults, project, runs, live, missed>>
  BY DEF RemoveRoot, AtRemoval, IInv, Unfolded, Current
<1>2. PICK d \in Deletions : d = frame.del
  BY <1>1
<1>3. PICK t \in Staging : /\ stagings' = [stagings EXCEPT ![d] = t]
                           /\ ~t.made /\ t.files = stagings[d].files
                           /\ stagings[d] = NoStaging => t = NoStaging
  <2> DEFINE t == [stagings[d] EXCEPT !.made = FALSE]
  <2>1. stagings[d] \in Staging
    BY <1>1, <1>2 DEF TypeOK
  <2>2. stagings' = [stagings EXCEPT ![d] = t]
    BY <1>1, <1>2 DEF RemoveRoot, TypeOK
  <2>3. t \in Staging /\ ~t.made /\ t.files = stagings[d].files
    BY <2>1 DEF Staging
  <2>4. stagings[d] = NoStaging => t = NoStaging
    <3>1. \A s \in Staging : ~s.made => [s EXCEPT !.made = FALSE] = s
      BY DEF Staging
    <3> QED BY <3>1, NoStagingFields
  <2> QED BY <2>2, <2>3, <2>4
<1>4. /\ Sources' /\ Kept' /\ OnlyMissedRunsRemain'
      /\ stagings' \in [Deletions -> Staging]
      /\ stagings'[d] = t
      /\ \A e \in Deletions : e # d => stagings'[e] = stagings[e]
      /\ \A e \in Deletions : Holds(stagings'[e]) = Holds(stagings[e])
  BY <1>1, <1>3, LabelsChange DEF Others
<1>5. /\ frame' \in Frame /\ frame'.pc \in {"idle", "boot"}
      /\ frame'.pc = "idle" => frame' = NoFrame /\ frame.pc # "sweep"
  <2>1. CASE frame.pc = "sweep"
    <3>1. frame' = [NoFrame EXCEPT !.pc = "boot", !.entries = frame.entries \ {frame.del},
                                   !.failed = frame.failed \/ ~TRUE]
      BY <2>1 DEF RemoveRoot, AfterRemoval
    <3>2. frame'.pc = "boot"
      BY <3>1 DEF NoFrame
    <3> QED BY <1>1, <3>1, <3>2, FrameFields DEF NoFrame, Frame, Pc
  <2>2. CASE frame.pc # "sweep"
    BY <2>2, NoFrameFields DEF RemoveRoot, AfterRemoval
  <2> QED BY <2>1, <2>2
<1>6. pending' \in BOOLEAN
  BY <1>1 DEF TypeOK, AnyStaged
<1>7. TypeOK'
  BY <1>1, <1>4, <1>5, <1>6 DEF TypeOK, Others
<1>8. Unfolded'
  BY <1>1, <1>2, <1>3, <1>4, <1>5 DEF IInv, Unfolded, Others, Current
<1>9. Labelled'
  BY <1>1, <1>2, <1>4 DEF IInv, Labelled, Others, Current
<1>10. Ahead' /\ Reversible' /\ Disposable'
  BY <1>5 DEF Ahead, Reversible, Disposable, Moving
<1>11. Tidy'
  <2>1. CASE frame'.pc = "boot"
    BY <2>1 DEF Tidy, LoopFree, Deleting
  <2>2. CASE frame'.pc = "idle" /\ frame.pc = "finalize"
    BY <1>1, <1>5, <2>2 DEF Tidy, Deleting, AnyStaged
  <2>3. CASE frame'.pc = "idle" /\ frame.pc = "discard"
    <3>1. \A e \in Deletions : ~pending /\ e # d => ~stagings[e].made
      BY <1>2, <2>3 DEF IInv, Tidy, Deleting
    <3> QED BY <1>1, <1>3, <1>4, <1>5, <2>3, <3>1 DEF Tidy, Deleting
  <2> QED BY <1>1, <1>5, <2>1, <2>2, <2>3
<1> QED BY <1>4, <1>7, <1>8, <1>9, <1>10, <1>11 DEF IInv

\* The rows go in one transaction, when what was listed has been moved.
LEMMA DeleteRowsKeeps ==
  ASSUME IInv, DeleteRows
  PROVE  IInv'
<1>1. /\ up /\ frame.pc = "delete" /\ TypeOK /\ frame.del \in Deletions /\ project
      /\ project' = FALSE
      /\ missed' = {r \in Runs : runs[r] \in Stored} \ ops[frame.del].runIds
      /\ UNCHANGED <<Others, faults, live, stagings, pending>>
  BY DEF DeleteRows, At, IInv, Unfolded
<1>2. /\ runs' \in [Runs -> Status]
      /\ \A r \in Runs : runs'[r] \notin Stored
  BY <1>1 DEF DeleteRows, TypeOK, Status, Stored
<1>3. /\ frame' \in Frame /\ frame'.pc = "finalize" /\ frame'.del = frame.del
  BY <1>1, FrameFields DEF DeleteRows, Goto, Frame, Pc
<1>4. TypeOK'
  BY <1>1, <1>2, <1>3 DEF TypeOK, Others
<1>5. Unfolded'
  BY <1>1, <1>3 DEF IInv, Unfolded, Others
<1>6. Sources'
  BY <1>1, <1>2 DEF IInv, Sources, Others
<1>7. Kept' /\ Labelled'
  BY <1>1 DEF Kept, Labelled
<1>8. Ahead' /\ Reversible' /\ Disposable'
  BY <1>1, <1>3 DEF Ahead, Reversible, Disposable, Moving
<1>9. Tidy'
  BY <1>1, <1>3 DEF IInv, Tidy, LoopFree, Deleting, Others
<1>10. OnlyMissedRunsRemain'
  <2>1. ASSUME NEW l \in Loc, live[l] = "data"
        PROVE  l \in missed'
    <3>1. l \notin Named(Current) /\ Current.runIds = ops[frame.del].runIds
      BY <1>1, <2>1 DEF IInv, Ahead
    <3>2. l \in Runs /\ l \notin ops[frame.del].runIds
      BY <3>1 DEF Named, Loc
    <3>3. runs[l] \in Stored
      BY <1>1, <2>1, <3>2 DEF IInv, Sources
    <3> QED BY <1>1, <3>2, <3>3
  <2> QED BY <1>1, <2>1 DEF OnlyMissedRunsRemain
<1> QED BY <1>4, <1>5, <1>6, <1>7, <1>8, <1>9, <1>10 DEF IInv

-----------------------------------------------------------------------------
(* Synchronous steps that move or remove the files of a location.          *)

\* What becomes of location l in the staging directory of d and where it is live:
\* data is not made, nor lost while there are rows.
Moves(d, l, there, here) ==
    /\ there \in Content /\ here \in Content
    /\ stagings' = [stagings EXCEPT ![d].files[l] = there]
    /\ live' = [live EXCEPT ![l] = here]
    /\ here = "data" \/ there = "data" => live[l] = "data" \/ stagings[d].files[l] = "data"
    /\ project => (live[l] = "data" \/ stagings[d].files[l] = "data" =>
                       here = "data" \/ there = "data")
    /\ UNCHANGED <<project, runs, held, missed>>

LEMMA FilesMove ==
  ASSUME IInv, NEW d \in Deletions, NEW l \in Loc, NEW there, NEW here,
         Moves(d, l, there, here)
  PROVE  /\ Sources' /\ Kept'
         /\ stagings' \in [Deletions -> Staging] /\ live' \in Store
         /\ \A k \in Loc : live'[k] = IF k = l THEN here ELSE live[k]
         /\ \A e \in Deletions : /\ stagings'[e].made = stagings[e].made
                                 /\ stagings'[e].manifest = stagings[e].manifest
                                 /\ stagings'[e].runIds = stagings[e].runIds
                                 /\ Named(stagings'[e]) = Named(stagings[e])
         /\ \A e \in Deletions : e # d => stagings'[e] = stagings[e]
         /\ \A k \in Loc : stagings'[d].files[k] = IF k = l THEN there ELSE stagings[d].files[k]
<1>1. /\ TypeOK /\ there \in Content /\ here \in Content
      /\ live' = [live EXCEPT ![l] = here]
      /\ stagings' = [stagings EXCEPT ![d].files[l] = there]
      /\ here = "data" \/ there = "data" => live[l] = "data" \/ stagings[d].files[l] = "data"
      /\ project => (live[l] = "data" \/ stagings[d].files[l] = "data" =>
                         here = "data" \/ there = "data")
      /\ UNCHANGED <<project, runs, held, missed>>
  BY DEF IInv, Moves
<1>2. PICK t \in Staging :
          /\ t.made = stagings[d].made /\ t.manifest = stagings[d].manifest
          /\ t.runIds = stagings[d].runIds
          /\ \A k \in Loc : t.files[k] = IF k = l THEN there ELSE stagings[d].files[k]
          /\ t = [stagings[d] EXCEPT !.files[l] = there]
  <2> DEFINE t == [stagings[d] EXCEPT !.files[l] = there]
  <2>1. stagings[d] \in Staging
    BY <1>1 DEF TypeOK
  <2>2. /\ t \in Staging
        /\ t.made = stagings[d].made /\ t.manifest = stagings[d].manifest
        /\ t.runIds = stagings[d].runIds
        /\ \A k \in Loc : t.files[k] = IF k = l THEN there ELSE stagings[d].files[k]
    BY <1>1, <2>1, FileEdit
  <2> QED BY <2>2
<1>3. stagings' = [stagings EXCEPT ![d] = t]
  BY <1>1, <1>2 DEF TypeOK
<1>4. /\ stagings' \in [Deletions -> Staging] /\ stagings'[d] = t
      /\ \A e \in Deletions : e # d => stagings'[e] = stagings[e]
  BY <1>1, <1>3, OneChanges
<1>5. live' \in Store /\ \A k \in Loc : live'[k] = IF k = l THEN here ELSE live[k]
  BY <1>1 DEF TypeOK, Store
<1>6. \A e \in Deletions : /\ stagings'[e].made = stagings[e].made
                           /\ stagings'[e].manifest = stagings[e].manifest
                           /\ stagings'[e].runIds = stagings[e].runIds
                           /\ Named(stagings'[e]) = Named(stagings[e])
  BY <1>2, <1>4 DEF Named
<1>7. \A k \in Loc : stagings'[d].files[k] = IF k = l THEN there ELSE stagings[d].files[k]
  BY <1>2, <1>4
<1>8. Sources'
  <2>1. \A k \in Loc : live'[k] = "data" => k \in held
    BY <1>1, <1>5 DEF IInv, Sources
  <2>2. \A e \in Deletions, k \in Loc : stagings'[e].files[k] = "data" => k \in held
    BY <1>1, <1>4, <1>7 DEF IInv, Sources
  <2> QED BY <1>1, <2>1, <2>2 DEF IInv, Sources
<1>9. Kept'
  <2> SUFFICES ASSUME project, NEW k \in held
               PROVE  live'[k] = "data" \/ \E e \in Deletions : stagings'[e].files[k] = "data"
    BY <1>1 DEF Kept
  <2>1. k \in Loc /\ (live[k] = "data" \/ \E e \in Deletions : stagings[e].files[k] = "data")
    BY <1>1 DEF IInv, Kept, TypeOK
  <2>2. CASE k # l
    BY <1>4, <1>5, <1>7, <2>1, <2>2
  <2>3. CASE k = l
    <3>1. CASE live[l] = "data" \/ stagings[d].files[l] = "data"
      BY <1>1, <1>5, <1>7, <2>3, <3>1
    <3>2. ASSUME NEW e \in Deletions, e # d, stagings[e].files[l] = "data"
          PROVE  stagings'[e].files[k] = "data"
      BY <1>4, <2>3, <3>2
    <3> QED BY <2>1, <2>3, <3>1, <3>2
  <2> QED BY <2>2, <2>3
<1> QED BY <1>4, <1>5, <1>6, <1>7, <1>8, <1>9

\* A call that holds files is over.
LEMMA MovingIsOver ==
  ASSUME IInv, NEW d \in Deletions, stagings[d].made \/ Holds(stagings[d]) # {}
  PROVE  ops[d].state \notin {"unused", "waiting"} /\ stagings[d].made
  BY NoStagingFields DEF IInv, Unfolded

LEMMA StageFilesKeeps ==
  ASSUME IInv, NEW l \in Loc, StageFiles(l)
  PROVE  IInv'
<1>1. /\ up /\ frame.pc = "move" /\ l \in frame.locs /\ TypeOK /\ frame.del \in Deletions
      /\ UNCHANGED <<Others, faults, project, runs, pending, missed>>
  BY DEF StageFiles, At, IInv, Unfolded
<1>2. PICK d \in Deletions : d = frame.del
  BY <1>1
<1>3. /\ frame' \in Frame /\ frame'.pc = "move" /\ frame'.del = d
      /\ frame'.locs = frame.locs \ {l} /\ Current' = stagings'[d]
  BY <1>1, <1>2, FrameFields DEF StageFiles, Frame, Current
<1>4. /\ stagings[d].made /\ stagings[d].manifest = "done"
      /\ stagings[d].runIds = ops[d].runIds
      /\ frame.locs \subseteq Named(stagings[d])
      /\ \A k \in frame.locs : stagings[d].files[k] = "none"
      /\ \A k \in Named(stagings[d]) : k \notin frame.locs => live[k] = "none"
      /\ \A k \in Holds(stagings[d]) :
             live[k] = "none" /\ (~project /\ stagings[d].files[k] = "data" => k \in missed)
  BY <1>1, <1>2 DEF IInv, Ahead, Reversible, Moving, Current
<1>5. ops[d].state \notin {"unused", "waiting"}
  BY <1>4, MovingIsOver
<1>6. CASE live[l] = "none"
  <2>1. UNCHANGED <<live, stagings>>
    BY <1>6 DEF StageFiles
  <2>2. faults' \in 0..MaxFaults /\ pending' \in BOOLEAN
    BY <1>1 DEF TypeOK
  <2>3. Ahead'
    BY <1>1, <1>2, <1>3, <1>4, <1>6, <2>1 DEF Ahead, Named, Others
  <2>4. Reversible' /\ Disposable'
    BY <1>1, <1>3, <1>4, <2>1 DEF Reversible, Disposable, Moving, Holds
  <2>5. Tidy'
    BY <1>1, <1>2, <1>3, <2>1 DEF IInv, Tidy, LoopFree, Deleting, Others
  <2> QED BY <1>1, <1>3, <2>1, <2>2, <2>3, <2>4, <2>5, FrameStepKeeps
<1>7. CASE live[l] # "none"
  <2>1. /\ stagings' = [stagings EXCEPT ![d].files[l] = live[l]]
        /\ live' = [live EXCEPT ![l] = "none"]
    BY <1>2, <1>7 DEF StageFiles, ToStaging
  <2>2. live[l] \in Content /\ "none" \in Content /\ stagings[d].files[l] = "none"
    BY <1>1, <1>4 DEF TypeOK, Store, Content
  <2>3. /\ Sources' /\ Kept'
        /\ stagings' \in [Deletions -> Staging] /\ live' \in Store
        /\ \A k \in Loc : live'[k] = IF k = l THEN "none" ELSE live[k]
        /\ \A e \in Deletions : /\ stagings'[e].made = stagings[e].made
                                /\ stagings'[e].manifest = stagings[e].manifest
                                /\ stagings'[e].runIds = stagings[e].runIds
                                /\ Named(stagings'[e]) = Named(stagings[e])
        /\ \A e \in Deletions : e # d => stagings'[e] = stagings[e]
        /\ \A k \in Loc : stagings'[d].files[k] = IF k = l THEN live[l]
                                                  ELSE stagings[d].files[k]
    <3>1. Moves(d, l, live[l], "none")
      BY <1>1, <2>1, <2>2 DEF Moves, Others
    <3> QED BY <3>1, FilesMove
  <2>4. Holds(stagings'[d]) = Holds(stagings[d]) \cup {l}
    BY <1>7, <2>3 DEF Holds
  <2>5. TypeOK'
    BY <1>1, <1>3, <2>3 DEF TypeOK, Others
  <2>6. Unfolded'
    <3>1. ASSUME NEW e \in Deletions, Holds(stagings'[e]) # {}
          PROVE  stagings'[e].made
      <4>1. CASE e = d
        BY <1>4, <2>3, <4>1
      <4>2. CASE e # d
        <5>1. stagings'[e] = stagings[e]
          BY <2>3, <4>2
        <5> QED BY <3>1, <5>1 DEF IInv, Unfolded
      <4> QED BY <4>1, <4>2
    <3>2. ASSUME NEW e \in Deletions, ops[e].state \in {"unused", "waiting"}
          PROVE  stagings'[e] = NoStaging
      <4>1. e # d
        BY <1>5, <3>2
      <4> QED BY <2>3, <3>2, <4>1 DEF IInv, Unfolded
    <3> QED BY <1>1, <1>3, <3>1, <3>2 DEF Unfolded, Others
  <2>7. Labelled'
    BY <1>1, <1>4, <2>3, <2>4 DEF IInv, Labelled
  <2>8. Ahead'
    <3>1. Named(Current)' = Named(stagings[d])
      BY <1>3, <2>3 DEF Named
    <3>2. \A k \in frame'.locs : stagings'[d].files[k] = "none"
      BY <1>1, <1>3, <1>4, <2>3, FrameFields
    <3>3. \A k \in Named(stagings[d]) : k \notin frame'.locs => live'[k] = "none"
      <4>1. Named(stagings[d]) \subseteq Loc
        BY <1>1, StagingFields DEF TypeOK
      <4> QED BY <1>3, <1>4, <2>3, <4>1
    <3> QED BY <1>1, <1>2, <1>3, <1>4, <2>3, <3>1, <3>2, <3>3 DEF Ahead, Others
  <2>9. Reversible'
    <3>1. \A k \in Holds(Current)' :
              live'[k] = "none" /\ (~project /\ stagings'[d].files[k] = "data" => k \in missed)
      <4> SUFFICES ASSUME NEW k \in Holds(stagings'[d])
                   PROVE  /\ live'[k] = "none"
                          /\ ~project /\ stagings'[d].files[k] = "data" => k \in missed
        BY <1>3 DEF Holds
      <4>1. CASE k = l
        <5>1. ~project /\ live[l] = "data" => l \in missed
          BY DEF IInv, OnlyMissedRunsRemain
        <5> QED BY <2>3, <4>1, <5>1
      <4>2. CASE k # l
        <5>1. k \in Holds(stagings[d]) /\ k \in Loc
          BY <2>4, <4>2 DEF Holds
        <5> QED BY <1>4, <2>3, <4>2, <5>1
      <4> QED BY <4>1, <4>2
    <3> QED BY <1>1, <1>3, <3>1 DEF Reversible, Moving
  <2>10. Disposable'
    BY <1>3 DEF Disposable
  <2>11. Tidy'
    BY <1>1, <1>2, <1>3, <2>3 DEF IInv, Tidy, LoopFree, Deleting, Others
  <2>12. OnlyMissedRunsRemain'
    BY <1>1, <2>3 DEF IInv, OnlyMissedRunsRemain
  <2> QED BY <2>3, <2>5, <2>6, <2>7, <2>8, <2>9, <2>10, <2>11, <2>12 DEF IInv
<1> QED BY <1>6, <1>7

\* Files are moved back to where nothing stands.
LEMMA ToLiveMoves ==
  ASSUME IInv, NEW d \in Deletions, d = frame.del, NEW l \in Loc, ToLive(l),
         live[l] = "none", stagings[d].files[l] # "none",
         UNCHANGED <<Others, project, runs, missed>>
  PROVE  /\ Sources' /\ Kept' /\ Labelled'
         /\ stagings' \in [Deletions -> Staging] /\ live' \in Store
         /\ \A k \in Loc : live'[k] = IF k = l THEN stagings[d].files[l] ELSE live[k]
         /\ \A k \in Loc : stagings'[d].files[k] = IF k = l THEN "none"
                                                   ELSE stagings[d].files[k]
         /\ Holds(stagings'[d]) = Holds(stagings[d]) \ {l}
         /\ \A e \in Deletions : Holds(stagings'[e]) # {} => stagings'[e].made
         /\ \A e \in Deletions : stagings'[e].made = stagings[e].made
         /\ \A e \in Deletions :
                ops[e].state \in {"unused", "waiting"} => stagings'[e] = NoStaging
<1>1. TypeOK /\ stagings[d] \in Staging
  BY DEF IInv, TypeOK
<1>2. stagings[d].files[l] \in Content /\ "none" \in Content
  BY <1>1, StagingFields DEF Content
<1>3. /\ stagings' = [stagings EXCEPT ![d].files[l] = "none"]
      /\ live' = [live EXCEPT ![l] = stagings[d].files[l]]
  BY DEF ToLive
<1>4. /\ Sources' /\ Kept'
      /\ stagings' \in [Deletions -> Staging] /\ live' \in Store
      /\ \A k \in Loc : live'[k] = IF k = l THEN stagings[d].files[l] ELSE live[k]
      /\ \A e \in Deletions : /\ stagings'[e].made = stagings[e].made
                              /\ stagings'[e].manifest = stagings[e].manifest
                              /\ stagings'[e].runIds = stagings[e].runIds
                              /\ Named(stagings'[e]) = Named(stagings[e])
      /\ \A e \in Deletions : e # d => stagings'[e] = stagings[e]
      /\ \A k \in Loc : stagings'[d].files[k] = IF k = l THEN "none"
                                                ELSE stagings[d].files[k]
  <2>1. Moves(d, l, "none", stagings[d].files[l])
    BY <1>2, <1>3 DEF Moves, Others
  <2> QED BY <2>1, FilesMove
<1>5. Holds(stagings'[d]) = Holds(stagings[d]) \ {l} /\ Holds(stagings[d]) # {}
  BY <1>4 DEF Holds
<1>6. ops[d].state \notin {"unused", "waiting"} /\ stagings[d].made
  BY <1>5, MovingIsOver
<1>7. Labelled'
  BY <1>4, <1>5 DEF IInv, Labelled
<1> QED BY <1>4, <1>5, <1>6, <1>7 DEF IInv, Unfolded

LEMMA PutBackKeeps ==
  ASSUME IInv, NEW l \in Loc, PutBack(l)
  PROVE  IInv'
<1>1. /\ up /\ frame.pc = "rollback" /\ l \in frame.locs /\ TypeOK
      /\ frame.del \in Deletions /\ ToLive(l)
      /\ UNCHANGED <<Others, faults, project, runs, pending, missed>>
  BY DEF PutBack, At, IInv, Unfolded
<1>2. PICK d \in Deletions : d = frame.del
  BY <1>1
<1>3. /\ frame' \in Frame /\ frame'.pc = "rollback" /\ frame'.del = d
      /\ frame'.locs = frame.locs \ {l} /\ frame'.failed = frame.failed
      /\ Current' = stagings'[d]
  BY <1>1, <1>2, FrameFields DEF PutBack, Frame, Current
<1>4. /\ frame.locs \subseteq Holds(stagings[d])
      /\ ~frame.failed => Holds(stagings[d]) \subseteq frame.locs
      /\ \A k \in Holds(stagings[d]) :
             live[k] = "none" /\ (~project /\ stagings[d].files[k] = "data" => k \in missed)
  BY <1>1, <1>2 DEF IInv, Reversible, Moving, Current
<1>5. live[l] = "none" /\ stagings[d].files[l] # "none"
  BY <1>1, <1>4 DEF Holds
<1>6. /\ Sources' /\ Kept' /\ Labelled'
      /\ stagings' \in [Deletions -> Staging] /\ live' \in Store
      /\ \A k \in Loc : live'[k] = IF k = l THEN stagings[d].files[l] ELSE live[k]
      /\ \A k \in Loc : stagings'[d].files[k] = IF k = l THEN "none"
                                                ELSE stagings[d].files[k]
      /\ Holds(stagings'[d]) = Holds(stagings[d]) \ {l}
      /\ \A e \in Deletions : Holds(stagings'[e]) # {} => stagings'[e].made
      /\ \A e \in Deletions : stagings'[e].made = stagings[e].made
      /\ \A e \in Deletions :
             ops[e].state \in {"unused", "waiting"} => stagings'[e] = NoStaging
  BY <1>1, <1>2, <1>5, ToLiveMoves
<1>7. TypeOK'
  BY <1>1, <1>3, <1>6 DEF TypeOK, Others
<1>8. Unfolded'
  BY <1>1, <1>3, <1>6 DEF Unfolded, Others
<1>9. Ahead' /\ Disposable'
  BY <1>3 DEF Ahead, Disposable
<1>10. Reversible'
  <2>1. Holds(Current)' = Holds(stagings[d]) \ {l}
    BY <1>3, <1>6 DEF Holds
  <2>2. Holds(stagings[d]) \subseteq Loc
    BY DEF Holds
  <2> QED BY <1>1, <1>3, <1>4, <1>6, <2>1, <2>2 DEF Reversible, Moving
<1>11. Tidy'
  BY <1>1, <1>2, <1>3, <1>6 DEF IInv, Tidy, LoopFree, Deleting, Others
<1>12. OnlyMissedRunsRemain'
  BY <1>1, <1>4, <1>6 DEF IInv, OnlyMissedRunsRemain
<1> QED BY <1>6, <1>7, <1>8, <1>9, <1>10, <1>11, <1>12 DEF IInv

LEMMA RestoreFilesKeeps ==
  ASSUME IInv, NEW l \in Loc, RestoreFiles(l)
  PROVE  IInv'
<1>1. /\ up /\ frame.pc = "restore" /\ l \in frame.locs /\ TypeOK
      /\ frame.del \in Deletions /\ project
      /\ live[l] = "none" \/ stagings[frame.del].files[l] = "none"
      /\ UNCHANGED <<Others, faults, project, runs, pending, missed>>
      /\ Holds(Current) \subseteq frame.locs
  BY DEF RestoreFiles, At, IInv, Unfolded, Reversible
<1>2. PICK d \in Deletions : d = frame.del
  BY <1>1
<1>3. /\ frame' \in Frame /\ frame'.pc = "restore" /\ frame'.del = d
      /\ frame'.locs = frame.locs \ {l} /\ Current' = stagings'[d]
  BY <1>1, <1>2, FrameFields DEF RestoreFiles, Frame, Current
<1>4. CASE stagings[d].files[l] = "none"
  <2>1. UNCHANGED <<live, stagings>>
    BY <1>2, <1>4 DEF RestoreFiles
  <2>2. faults' \in 0..MaxFaults /\ pending' \in BOOLEAN
    BY <1>1 DEF TypeOK
  <2>3. Ahead' /\ Disposable'
    BY <1>3 DEF Ahead, Disposable
  <2>4. Reversible'
    BY <1>1, <1>2, <1>3, <1>4, <2>1 DEF Reversible, Moving, Holds, Current
  <2>5. Tidy'
    BY <1>3 DEF Tidy, LoopFree, Deleting
  <2> QED BY <1>1, <1>3, <2>1, <2>2, <2>3, <2>4, <2>5, FrameStepKeeps
<1>5. CASE stagings[d].files[l] # "none"
  <2>1. ToLive(l) /\ live[l] = "none"
    BY <1>1, <1>2, <1>5 DEF RestoreFiles
  <2>2. /\ Sources' /\ Kept' /\ Labelled'
        /\ stagings' \in [Deletions -> Staging] /\ live' \in Store
        /\ \A k \in Loc : live'[k] = IF k = l THEN stagings[d].files[l] ELSE live[k]
        /\ \A k \in Loc : stagings'[d].files[k] = IF k = l THEN "none"
                                                  ELSE stagings[d].files[k]
        /\ Holds(stagings'[d]) = Holds(stagings[d]) \ {l}
        /\ \A e \in Deletions : Holds(stagings'[e]) # {} => stagings'[e].made
        /\ \A e \in Deletions : stagings'[e].made = stagings[e].made
        /\ \A e \in Deletions :
               ops[e].state \in {"unused", "waiting"} => stagings'[e] = NoStaging
    BY <1>1, <1>2, <1>5, <2>1, ToLiveMoves
  <2>3. TypeOK'
    BY <1>1, <1>3, <2>2 DEF TypeOK, Others
  <2>4. Unfolded'
    BY <1>1, <1>3, <2>2 DEF Unfolded, Others
  <2>5. Ahead' /\ Disposable' /\ Tidy'
    BY <1>3 DEF Ahead, Disposable, Tidy, LoopFree, Deleting
  <2>6. Reversible'
    <3>1. Holds(Current)' = Holds(stagings[d]) \ {l}
      BY <1>3, <2>2 DEF Holds
    <3>2. Holds(stagings[d]) \subseteq frame.locs
      BY <1>1, <1>2 DEF Current
    <3> QED BY <1>1, <1>3, <3>1, <3>2 DEF Reversible, Moving
  <2>7. OnlyMissedRunsRemain'
    BY <1>1 DEF OnlyMissedRunsRemain
  <2> QED BY <2>2, <2>3, <2>4, <2>5, <2>6, <2>7 DEF IInv
<1> QED BY <1>4, <1>5

\* Files are removed only when the rows are gone.
LEMMA RemoveFilesKeeps ==
  ASSUME IInv, NEW l \in Loc, RemoveFiles(l)
  PROVE  IInv'
<1>1. /\ up /\ frame.pc \in {"discard", "finalize", "sweep"} /\ TypeOK
      /\ frame.del \in Deletions /\ stagings[frame.del].files[l] # "none"
      /\ stagings' = [stagings EXCEPT ![frame.del].files[l] = "none"]
      /\ UNCHANGED <<Others, faults, project, runs, live, frame, pending, missed>>
  BY DEF RemoveFiles, AtRemoval, IInv, Unfolded
<1>2. PICK d \in Deletions : d = frame.del
  BY <1>1
<1>3. ~project
  <2>1. Holds(Current) # {}
    BY <1>1 DEF Current, Holds
  <2> QED BY <1>1, <2>1 DEF IInv, Disposable
<1>4. live' = [live EXCEPT ![l] = live[l]] /\ live[l] \in Content /\ "none" \in Content
  BY <1>1 DEF TypeOK, Store, Content
<1>5. /\ Sources' /\ Kept'
      /\ stagings' \in [Deletions -> Staging]
      /\ \A e \in Deletions : stagings'[e].made = stagings[e].made
      /\ \A e \in Deletions : e # d => stagings'[e] = stagings[e]
      /\ \A k \in Loc : stagings'[d].files[k] = IF k = l THEN "none"
                                                ELSE stagings[d].files[k]
  <2>1. Moves(d, l, "none", live[l])
    BY <1>1, <1>2, <1>3, <1>4 DEF Moves, Others
  <2> QED BY <2>1, FilesMove
<1>6. TypeOK'
  BY <1>1, <1>5 DEF TypeOK, Others
<1>7. Unfolded'
  <2>1. Holds(stagings[d]) # {}
    BY <1>1, <1>2 DEF Holds
  <2>2. ops[d].state \notin {"unused", "waiting"} /\ stagings[d].made
    BY <2>1, MovingIsOver
  <2> QED BY <1>1, <1>5, <2>2 DEF IInv, Unfolded, Others
<1>8. Labelled' /\ Ahead' /\ Reversible' /\ Disposable'
  BY <1>1, <1>3 DEF IInv, Labelled, Ahead, Reversible, Disposable, Moving
<1>9. Tidy'
  BY <1>1, <1>5 DEF IInv, Tidy, LoopFree, Deleting, Others
<1>10. OnlyMissedRunsRemain'
  BY <1>1 DEF IInv, OnlyMissedRunsRemain
<1> QED BY <1>5, <1>6, <1>7, <1>8, <1>9, <1>10 DEF IInv

-----------------------------------------------------------------------------
LEMMA StepKeeps ==
  ASSUME IInv, [Next]_vars
  PROVE  IInv'
<1>1. CASE UNCHANGED vars
  <2>1. TypeOK' /\ Unfolded'
    BY <1>1 DEF vars, IInv, TypeOK, Unfolded, Current
  <2>2. Sources' /\ Kept' /\ Labelled' /\ OnlyMissedRunsRemain'
    BY <1>1 DEF vars, IInv, Sources, Kept, Labelled, OnlyMissedRunsRemain
  <2>3. Current' = Current /\ Holds(Current)' = Holds(Current) /\ Named(Current)' = Named(Current)
    BY <1>1 DEF vars, Current, Holds, Named
  <2>4. Ahead' /\ Reversible' /\ Disposable' /\ Tidy'
    BY <1>1, <2>3
       DEF vars, IInv, Ahead, Reversible, Disposable, Moving, Tidy, LoopFree, Deleting
  <2> QED BY <2>1, <2>2, <2>4 DEF IInv
<1>2. CASE \E r \in Runs : RunStep(r)
  BY <1>2, RunStepKeeps, EngineLoadsKeeps, SaveArtifactsKeeps DEF RunStep
<1>3. CASE \E d \in Deletions : CallStep(d)
  BY <1>3, CallStepKeeps
<1>4. CASE StageStep
  BY <1>4, MakeStagingKeeps, WriteManifestKeeps, PublishManifestKeeps, StagingDoneKeeps,
     StageFilesKeeps, DeleteRowsKeeps, RollBackKeeps, PutBackKeeps, PutBackFailsKeeps,
     RolledBackKeeps DEF StageStep
<1>5. CASE RemovalStep
  BY <1>5, RemoveManifestKeeps, RemoveRootKeeps, RemovalFailsKeeps, RemoveFilesKeeps
     DEF RemovalStep
<1>6. CASE RecoveryStep
  BY <1>6, RestartKeeps, RestoredKeeps, RestoreStopsKeeps, ReadyKeeps, ReadEntryKeeps,
     RestoreFilesKeeps DEF RecoveryStep
<1> QED BY <1>1, <1>2, <1>3, <1>4, <1>5, <1>6, CrashKeeps DEF Next

-----------------------------------------------------------------------------
(* Theorems.                                                               *)

\* The whole inductive invariant: data is moved and never copied, what is staged is
\* named, and no directory is removed that holds files of a project with rows.
THEOREM Invariance == Spec => []IInv
<1>1. Init => IInv
  BY InitHolds
<1>2. IInv /\ [Next]_vars => IInv'
  BY StepKeeps
<1> QED BY <1>1, <1>2, PTL DEF Spec

\* Every variable keeps its type.
THEOREM TypeCorrect == Spec => []TypeOK
<1>1. IInv => TypeOK
  BY DEF IInv
<1> QED BY <1>1, Invariance, PTL

\* Whatever fails or crashes, and however often, a project that exists has its data
\* in place or where recovery will find it.
THEOREM DataIsKept == Spec => []NothingLost
<1>1. ASSUME IInv, project, NEW l \in held
      PROVE  live[l] = "data" \/ Recoverable(l)
  <2>1. l \in Loc /\ (live[l] = "data" \/ \E d \in Deletions : stagings[d].files[l] = "data")
    BY <1>1 DEF IInv, TypeOK, Kept
  <2>2. ASSUME NEW d \in Deletions, stagings[d].files[l] = "data"
        PROVE  Recoverable(l)
    <3>1. l \in Holds(stagings[d])
      BY <2>1, <2>2 DEF Holds
    <3> QED BY <1>1, <2>2, <3>1 DEF IInv, Labelled, Recoverable
  <2> QED BY <2>1, <2>2
<1>2. IInv => NothingLost
  BY <1>1 DEF NothingLost
<1> QED BY <1>2, Invariance, PTL

\* system.health never calls a deletion clean that left something staged.
THEOREM HealthIsTrue == Spec => []HealthTellsTruth
<1>1. ASSUME IInv, LoopFree, ~pending
      PROVE  ~AnyStaged /\ (project => \A l \in held : live[l] = "data")
  <2>1. \A d \in Deletions : ~stagings[d].made
    BY <1>1 DEF IInv, Tidy
  <2>2. \A d \in Deletions, l \in Loc : stagings[d].files[l] # "data"
    BY <1>1, <2>1 DEF IInv, Unfolded, Holds
  <2>3. held \subseteq Loc
    BY <1>1 DEF IInv, TypeOK
  <2> QED BY <1>1, <2>1, <2>2, <2>3 DEF IInv, Kept, AnyStaged
<1>2. IInv => HealthTellsTruth
  BY <1>1 DEF HealthTellsTruth
<1> QED BY <1>2, Invariance, PTL

\* No order of calls, failures and crashes brings a deleted project's data back but
\* that of a run started after its deletion had listed the runs.
THEOREM DeletedStaysDeleted == Spec => []OnlyMissedRunsRemain
<1>1. IInv => OnlyMissedRunsRemain
  BY DEF IInv
<1> QED BY <1>1, Invariance, PTL

-----------------------------------------------------------------------------
(* What is left of a deleted project.                                      *)

\* A location's data is moved, or goes.
LEMMA MovedRemains ==
  ASSUME IInv, ~project, NEW l \in Loc, frame.del \in Deletions, ToStaging(l) \/ ToLive(l)
  PROVE  Remains' \subseteq Remains
<1>1. /\ live \in Store /\ stagings \in [Deletions -> Staging]
      /\ \A d \in Deletions : stagings[d].files \in Store
  BY DEF IInv, TypeOK, Staging
<1>2. CASE ToStaging(l)
  <2>1. \A d \in Deletions, k \in Loc :
          stagings'[d].files[k] = IF d = frame.del /\ k = l THEN live[l] ELSE stagings[d].files[k]
    BY <1>1, <1>2 DEF ToStaging, Staging, Store
  <2>2. \A k \in Loc : live'[k] = IF k = l THEN "none" ELSE live[k]
    BY <1>1, <1>2 DEF ToStaging, Store
  <2> QED BY <2>1, <2>2 DEF Remains
<1>3. CASE ToLive(l)
  <2>1. \A d \in Deletions, k \in Loc :
          stagings'[d].files[k] = IF d = frame.del /\ k = l THEN "none" ELSE stagings[d].files[k]
    BY <1>1, <1>3 DEF ToLive, Staging, Store
  <2>2. \A k \in Loc : live'[k] = IF k = l THEN stagings[frame.del].files[l] ELSE live[k]
    BY <1>1, <1>3 DEF ToLive, Store
  <2> QED BY <2>1, <2>2 DEF Remains
<1> QED BY <1>2, <1>3

\* Files are only given up, and nothing is put in a place.
LEMMA FewerRemain ==
  ASSUME \A l \in Loc : live'[l] = "data" => live[l] = "data",
         \A d \in Deletions, l \in Loc :
           stagings'[d].files[l] = "data" => stagings[d].files[l] = "data"
  PROVE  Remains' \subseteq Remains
BY DEF Remains

LEMMA ShrinksStep ==
  ASSUME IInv, ~project, [Next]_vars
  PROVE  ~project' /\ Remains' \subseteq Remains /\ \A r \in Runs : runs'[r] \notin Stored
<1>1. /\ live \in Store /\ stagings \in [Deletions -> Staging] /\ runs \in [Runs -> Status]
      /\ \A r \in Runs : runs[r] \notin Stored
      /\ frame.pc \notin {"idle", "boot"} => frame.del \in Deletions
      /\ frame.pc \in {"move", "rollback", "restore"} => frame.locs \subseteq Loc
      /\ frame.pc # "restore"
  BY FrameFields DEF IInv, TypeOK, Sources, Unfolded, Reversible
<1>2. UNCHANGED <<live, stagings>> => Remains' \subseteq Remains
  BY DEF Remains
<1>3. CASE UNCHANGED vars
  BY <1>1, <1>2, <1>3 DEF vars
<1>4. ASSUME NEW r \in Runs, RunStep(r)
      PROVE  ~project' /\ Remains' \subseteq Remains /\ \A q \in Runs : runs'[q] \notin Stored
  <2>1. CASE EngineLoads(r)
    <3>1. \A l \in Loc : live'[l] = "data" => live[l] = "data"
      BY <1>1, <2>1 DEF EngineLoads, Store
    <3> QED BY <1>1, <2>1, <3>1, FewerRemain DEF EngineLoads
  <2>2. CASE ExecutionEnds(r)
    <3>1. \A q \in Runs : runs'[q] = runs[q]
      BY <1>1, <2>2 DEF ExecutionEnds, Stored
    <3> QED BY <1>1, <1>2, <2>2, <3>1 DEF ExecutionEnds
  <2>3. ~ Start(r) /\ ~ Cancel(r) /\ ~ BeginExecution(r) /\ ~ SaveArtifacts(r)
    BY <1>1 DEF Start, Cancel, BeginExecution, SaveArtifacts, Stored
  <2> QED BY <1>4, <2>1, <2>2, <2>3 DEF RunStep
<1>5. ASSUME NEW d \in Deletions, CallStep(d)
      PROVE  ~project' /\ Remains' \subseteq Remains /\ \A q \in Runs : runs'[q] \notin Stored
  BY <1>1, <1>2, <1>5 DEF CallStep, Request, GiveUp, StopWaiting
<1>6. ASSUME NEW l \in Loc, StageFiles(l) \/ PutBack(l)
      PROVE  ~project' /\ Remains' \subseteq Remains /\ \A q \in Runs : runs'[q] \notin Stored
  <2>1. frame.del \in Deletions /\ UNCHANGED <<project, runs>>
    BY <1>1, <1>6 DEF StageFiles, PutBack, At, Others
  <2>2. UNCHANGED <<live, stagings>> \/ ToStaging(l) \/ ToLive(l)
    BY <1>6 DEF StageFiles, PutBack
  <2> QED BY <1>1, <1>2, <2>1, <2>2, MovedRemains
<1>7. CASE MakeStaging \/ WriteManifest \/ PublishManifest \/ RemoveManifest \/ RemoveRoot
           \/ \E l \in Loc : RemoveFiles(l)
  <2>1. /\ frame.del \in Deletions /\ UNCHANGED <<project, runs, live>>
        /\ stagings[frame.del] \in Staging
    BY <1>1, <1>7 DEF MakeStaging, WriteManifest, PublishManifest, RemoveManifest, RemoveRoot,
         RemoveFiles, At, AtRemoval, Others
  <2>2. CASE \E l \in Loc : RemoveFiles(l)
    <3>1. PICK l \in Loc : stagings' = [stagings EXCEPT ![frame.del].files[l] = "none"]
      BY <2>2 DEF RemoveFiles
    <3>2. \A d \in Deletions, k \in Loc :
            stagings'[d].files[k] = "data" => stagings[d].files[k] = "data"
      BY <1>1, <2>1, <3>1 DEF Staging, Store
    <3> QED BY <1>1, <2>1, <3>2, FewerRemain
  <2>3. CASE ~ \E l \in Loc : RemoveFiles(l)
    <3>1. \/ \E made : stagings' = [stagings EXCEPT ![frame.del].made = made]
          \/ \E manifest : stagings' = [stagings EXCEPT ![frame.del].manifest = manifest]
          \/ \E manifest, rs : stagings' = [stagings EXCEPT ![frame.del].manifest = manifest,
                                                            ![frame.del].runIds = rs]
      <4>1. CASE MakeStaging \/ RemoveRoot
        BY <4>1 DEF MakeStaging, RemoveRoot
      <4>2. CASE PublishManifest
        BY <4>2 DEF PublishManifest
      <4>3. CASE WriteManifest \/ RemoveManifest
        BY <4>3 DEF WriteManifest, RemoveManifest
      <4> QED BY <1>7, <2>3, <4>1, <4>2, <4>3
    <3>2. \A d \in Deletions : stagings'[d].files = stagings[d].files
      <4>1. ASSUME NEW made, stagings' = [stagings EXCEPT ![frame.del].made = made]
            PROVE  \A d \in Deletions : stagings'[d].files = stagings[d].files
        BY <1>1, <2>1, <4>1 DEF Staging
      <4>2. ASSUME NEW manifest, stagings' = [stagings EXCEPT ![frame.del].manifest = manifest]
            PROVE  \A d \in Deletions : stagings'[d].files = stagings[d].files
        BY <1>1, <2>1, <4>2 DEF Staging
      <4>3. ASSUME NEW manifest, NEW rs,
                   stagings' = [stagings EXCEPT ![frame.del].manifest = manifest,
                                                ![frame.del].runIds = rs]
            PROVE  \A d \in Deletions : stagings'[d].files = stagings[d].files
        BY <1>1, <2>1, <4>3 DEF Staging
      <4> QED BY <3>1, <4>1, <4>2, <4>3
    <3>3. \A d \in Deletions, k \in Loc :
            stagings'[d].files[k] = "data" => stagings[d].files[k] = "data"
      BY <3>2
    <3> QED BY <1>1, <2>1, <3>3, FewerRemain
  <2> QED BY <2>2, <2>3
<1>8. CASE Ready
  <2>1. \A q \in Runs : runs'[q] = runs[q]
    BY <1>1, <1>8 DEF Ready, Stored
  <2> QED BY <1>1, <1>2, <1>8, <2>1 DEF Ready
<1>9. CASE \/ StagingDone \/ AlreadyDeleted \/ StepFails \/ RolledBack \/ RemovalFails \/ Crash
           \/ Restart \/ \E l \in Loc : PutBackFails(l)
           \/ \E d \in Deletions : ReadEntry(d)
  <2>1. UNCHANGED <<project, runs, live, stagings>>
    BY <1>9 DEF StagingDone, AlreadyDeleted, StepFails, RolledBack, RemovalFails, Crash, Restart,
       PutBackFails, ReadEntry
  <2> QED BY <1>1, <1>2, <2>1
<1>10. ~ DeleteRows /\ ~ Restored /\ ~ RestoreFails
       /\ \A l \in Loc : ~ RestoreFiles(l) /\ ~ RestoreConflicts(l)
  BY <1>1 DEF DeleteRows, Restored, RestoreFails, RestoreFiles, RestoreConflicts, At
<1> QED BY <1>3, <1>4, <1>5, <1>6, <1>7, <1>8, <1>9, <1>10
        DEF Next, StageStep, RemovalStep, RecoveryStep

\* No rollback, restart or late execution brings back what a deletion has taken.
THEOREM DeletedIsNotUndone == Spec => DeletedOnlyShrinks
<1>1. IInv /\ [Next]_vars =>
        [~project => /\ ~project'
                     /\ Remains' \subseteq Remains
                     /\ \A r \in Runs : runs'[r] \notin Stored]_vars
  BY ShrinksStep
<1> QED BY <1>1, Invariance, PTL DEF Spec, DeletedOnlyShrinks

-----------------------------------------------------------------------------
(* The synchronous code comes to an end.                                   *)

\* Recovery works on an entry that is still on its list.
EntryInHand == frame.pc \in {"restore", "sweep"} => frame.del \in frame.entries

LEMMA EntryInHandStep ==
  ASSUME IInv, EntryInHand, [Next]_vars
  PROVE  EntryInHand'
<1>1. frame \in Frame
  BY DEF IInv, TypeOK
<1>2. CASE (\E r \in Runs : RunStep(r)) \/ UNCHANGED vars
  <2>1. frame' = frame
    BY <1>2 DEF RunStep, Start, Cancel, BeginExecution, EngineLoads, SaveArtifacts, ExecutionEnds,
       vars
  <2> QED BY <2>1 DEF EntryInHand
<1>3. CASE \E d \in Deletions : CallStep(d)
  <2>1. frame' = frame \/ \E d \in Deletions : frame' = [NoFrame EXCEPT !.pc = "mkdir", !.del = d]
    BY <1>3 DEF CallStep, Request, GiveUp, StopWaiting
  <2> QED BY <2>1 DEF EntryInHand, NoFrame
<1>4. CASE StageStep
  <2>1. \/ \E pc \in Pc \ {"restore", "sweep"} :
              \/ frame' = [frame EXCEPT !.pc = pc]
              \/ \E locs : frame' = [frame EXCEPT !.pc = pc, !.locs = locs]
              \/ \E locs : frame' = [frame EXCEPT !.pc = pc, !.failed = FALSE, !.locs = locs]
        \/ \E locs : frame' = [frame EXCEPT !.locs = locs]
        \/ \E locs : frame' = [frame EXCEPT !.locs = locs, !.failed = TRUE]
        \/ frame' = NoFrame
    BY <1>4 DEF StageStep, MakeStaging, WriteManifest, PublishManifest, StagingDone,
       StageFiles, DeleteRows, AlreadyDeleted, StepFails, PutBack, PutBackFails, RolledBack,
       RollBack, Goto, Pc
  <2>2. ASSUME NEW pc \in Pc \ {"restore", "sweep"}, NEW locs,
               \/ frame' = [frame EXCEPT !.pc = pc]
               \/ frame' = [frame EXCEPT !.pc = pc, !.locs = locs]
               \/ frame' = [frame EXCEPT !.pc = pc, !.failed = FALSE, !.locs = locs]
        PROVE  EntryInHand'
    <3>1. frame'.pc = pc
      BY <1>1, <2>2 DEF Frame
    <3> QED BY <3>1 DEF EntryInHand
  <2>3. ASSUME NEW locs, \/ frame' = [frame EXCEPT !.locs = locs]
                         \/ frame' = [frame EXCEPT !.locs = locs, !.failed = TRUE]
        PROVE  EntryInHand'
    <3>1. frame'.pc = frame.pc /\ frame'.del = frame.del /\ frame'.entries = frame.entries
      BY <1>1, <2>3 DEF Frame
    <3> QED BY <3>1 DEF EntryInHand
  <2>4. frame' = NoFrame => EntryInHand'
    BY NoFrameFields DEF EntryInHand
  <2> QED BY <2>1, <2>2, <2>3, <2>4
<1>5. CASE RemovalStep
  <2>1. frame' = frame \/ \E ok \in BOOLEAN : AfterRemoval(ok)
    BY <1>5 DEF RemovalStep, RemoveManifest, RemoveRoot, RemovalFails, RemoveFiles
  <2>2. ASSUME NEW ok \in BOOLEAN, AfterRemoval(ok)
        PROVE  frame'.pc \in {"idle", "boot"}
    BY <2>2 DEF AfterRemoval, NoFrame
  <2> QED BY <2>1, <2>2 DEF EntryInHand
<1>6. CASE \E d \in Deletions : ReadEntry(d)
  BY <1>1, <1>6 DEF ReadEntry, Skip, Frame, EntryInHand
<1>7. CASE \E l \in Loc : RestoreFiles(l) \/ RestoreConflicts(l)
  BY <1>1, <1>7 DEF RestoreFiles, RestoreConflicts, Skip, At, Frame, EntryInHand
<1>8. CASE Restored \/ RestoreFails
  BY <1>1, <1>8 DEF Restored, RestoreFails, Skip, Goto, At, Frame, EntryInHand
<1>9. CASE Restart \/ Ready \/ Crash
  <2>1. frame' = NoFrame \/ \E entries : frame' = [NoFrame EXCEPT !.pc = "boot", !.entries = entries]
    BY <1>9 DEF Restart, Ready, Crash
  <2>2. ASSUME NEW entries, frame' = [NoFrame EXCEPT !.pc = "boot", !.entries = entries]
        PROVE  frame'.pc = "boot"
    BY <2>2 DEF NoFrame
  <2> QED BY <2>1, <2>2, NoFrameFields DEF EntryInHand
<1> QED BY <1>2, <1>3, <1>4, <1>5, <1>6, <1>7, <1>8, <1>9 DEF Next, RecoveryStep

LEMMA Descent ==
  ASSUME IInv, EntryInHand, [Next]_vars, up, frame.pc # "idle", frame'.pc # "idle", vars' # vars
  PROVE  \/ frame'.entries \subseteq frame.entries /\ frame'.entries # frame.entries
         \/ frame'.entries = frame.entries /\ Place' < Place
         \/ /\ frame'.entries = frame.entries /\ Place' = Place
            /\ Left' \subseteq Left /\ Left' # Left
<1> USE FrameFields
<1>1. /\ frame \in Frame /\ stagings \in [Deletions -> Staging]
      /\ frame.locs \subseteq Loc
      /\ frame.pc \notin {"idle", "boot"} => frame.del \in Deletions
  BY DEF IInv, TypeOK, Unfolded
<1>2. ~ (\E r \in Runs : RunStep(r)) /\ ~ (\E d \in Deletions : CallStep(d)) /\ ~ Restart
  BY DEF RunStep, Start, Cancel, BeginExecution, EngineLoads, SaveArtifacts, ExecutionEnds,
     CallStep, Request, GiveUp, StopWaiting, LoopFree, Restart
<1>3. ~ Crash /\ ~ Ready
  BY NoFrameFields DEF Crash, Ready
<1>4. CASE \/ MakeStaging \/ WriteManifest \/ PublishManifest \/ StagingDone \/ DeleteRows
           \/ AlreadyDeleted \/ StepFails \/ RolledBack \/ Restored
  <2>1. CASE MakeStaging \/ WriteManifest \/ StagingDone \/ DeleteRows \/ Restored \/ RolledBack
    <3>1. PICK pc \in Pc : /\ Goto(pc)
                           /\ <<frame.pc, pc>> \in
                                {<<"mkdir", "tmp">>, <<"tmp", "manifest">>, <<"move", "delete">>,
                                 <<"delete", "finalize">>, <<"restore", "sweep">>,
                                 <<"rollback", "discard">>}
      BY <2>1, NoFrameFields DEF MakeStaging, WriteManifest, StagingDone, DeleteRows, Restored,
         RolledBack, At, Pc
    <3>2. frame'.entries = frame.entries /\ frame'.pc = pc
      BY <1>1, <3>1 DEF Goto, Frame
    <3>3. Place' < Place
      BY <3>1, <3>2 DEF Place
    <3> QED BY <3>2, <3>3
  <2>2. CASE PublishManifest \/ AlreadyDeleted \/ StepFails
    <3>1. /\ frame'.entries = frame.entries
          /\ \/ frame.pc = "manifest" /\ frame'.pc = "move"
             \/ frame.pc \in {"mkdir", "tmp", "manifest", "move", "delete"}
                /\ frame'.pc = "rollback"
      <4>1. \E locs : \/ frame.pc = "manifest"
                         /\ frame' = [frame EXCEPT !.pc = "move", !.locs = locs]
                      \/ /\ frame.pc \in {"mkdir", "tmp", "manifest", "move", "delete"}
                         /\ frame' = [frame EXCEPT !.pc = "rollback", !.failed = FALSE,
                                                   !.locs = locs]
        BY <2>2 DEF PublishManifest, AlreadyDeleted, StepFails, RollBack, At
      <4> QED BY <1>1, <4>1 DEF Frame
    <3>2. Place' < Place
      BY <3>1 DEF Place
    <3> QED BY <3>1, <3>2
  <2> QED BY <1>4, <2>1, <2>2
<1>5. CASE \E d \in Deletions : ReadEntry(d)
  <2>1. PICK d \in Deletions : ReadEntry(d)
    BY <1>5
  <2>2. CASE Skip(d)
    BY <1>1, <2>1, <2>2 DEF ReadEntry, Skip, Frame
  <2>3. CASE ~ Skip(d)
    <3>1. frame.pc = "boot" /\ frame'.pc \in {"sweep", "restore"}
          /\ frame'.entries = frame.entries
      BY <1>1, <2>1, <2>3 DEF ReadEntry, At, Frame
    <3> QED BY <3>1 DEF Place
  <2> QED BY <2>2, <2>3
<1>6. CASE \E l \in Loc : StageFiles(l) \/ PutBack(l) \/ PutBackFails(l) \/ RestoreFiles(l)
  <2>1. PICK l \in frame.locs :
          /\ frame'.pc = frame.pc /\ frame'.entries = frame.entries
          /\ frame'.locs = frame.locs \ {l}
          /\ frame.pc \in {"move", "rollback", "restore"}
    BY <1>1, <1>6 DEF StageFiles, PutBack, PutBackFails, RestoreFiles, At, Frame
  <2>2. ~ AtRemoval /\ ~ AtRemoval' /\ Place' = Place
    BY <2>1 DEF AtRemoval, Place
  <2>3. Left = {"move"} \X frame.locs /\ Left' = {"move"} \X frame'.locs
    BY <2>2 DEF Left
  <2>4. <<"move", l>> \in Left /\ <<"move", l>> \notin Left' /\ Left' \subseteq Left
    BY <2>1, <2>3
  <2> QED BY <2>1, <2>2, <2>4
<1>7. CASE RestoreFails \/ \E l \in Loc : RestoreConflicts(l)
  <2>1. Skip(frame.del) /\ frame.del \in frame.entries
    BY <1>7 DEF RestoreFails, RestoreConflicts, At, EntryInHand
  <2> QED BY <1>1, <2>1 DEF Skip, Frame
<1>8. CASE RemovalFails \/ RemoveRoot
  <2>1. \E ok \in BOOLEAN : AfterRemoval(ok)
    BY <1>8 DEF RemovalFails, RemoveRoot
  <2>2. frame.pc = "sweep" /\ frame'.entries = frame.entries \ {frame.del}
    BY <2>1 DEF AfterRemoval, NoFrame
  <2> QED BY <2>2 DEF EntryInHand
<1>9. CASE RemoveManifest \/ \E l \in Loc : RemoveFiles(l)
  <2>1. AtRemoval /\ AtRemoval' /\ Place' = Place /\ frame' = frame /\ frame.del \in Deletions
    BY <1>1, <1>9 DEF RemoveManifest, RemoveFiles, AtRemoval, Others, Place
  <2> DEFINE s == stagings[frame.del]
             t == stagings'[frame.del]
  <2>2. /\ Left = ({"move"} \X frame.locs) \cup ({"remove"} \X Holds(s))
                    \cup ({"manifest"} \X {d \in {frame.del} : s.manifest # "none"})
        /\ Left' = ({"move"} \X frame.locs) \cup ({"remove"} \X Holds(t))
                    \cup ({"manifest"} \X {d \in {frame.del} : t.manifest # "none"})
    BY <2>1 DEF Left, Holds
  <2>3. CASE RemoveManifest
    <3>1. s.manifest # "none" /\ t.manifest = "none" /\ t.files = s.files
      BY <1>1, <2>1, <2>3 DEF RemoveManifest, Staging
    <3>2. Holds(t) = Holds(s)
      BY <3>1 DEF Holds
    <3> HIDE DEF s, t
    <3>3. <<"manifest", frame.del>> \in Left /\ <<"manifest", frame.del>> \notin Left'
          /\ Left' \subseteq Left
      BY <2>2, <3>1, <3>2
    <3> QED BY <2>1, <3>3
  <2>4. CASE \E l \in Loc : RemoveFiles(l)
    <3>1. PICK l \in Loc : RemoveFiles(l)
      BY <2>4
    <3>2. /\ t.manifest = s.manifest /\ s.files[l] # "none"
          /\ \A k \in Loc : t.files[k] = IF k = l THEN "none" ELSE s.files[k]
      BY <1>1, <2>1, <3>1 DEF RemoveFiles, Staging, Store
    <3>3. Holds(t) = Holds(s) \ {l} /\ l \in Holds(s)
      BY <3>2 DEF Holds
    <3> HIDE DEF s, t
    <3>4. <<"remove", l>> \in Left /\ <<"remove", l>> \notin Left' /\ Left' \subseteq Left
      BY <2>2, <3>2, <3>3
    <3> QED BY <2>1, <3>4
  <2> QED BY <1>9, <2>3, <2>4
<1> QED BY <1>2, <1>3, <1>4, <1>5, <1>6, <1>7, <1>8, <1>9
        DEF Next, StageStep, RemovalStep, RecoveryStep

\* Deleting, rolling back and recovering end, whatever fails: with finitely many
\* locations and staging directories no run of statements descends for ever.
THEOREM DeletionTurnsEnd == Spec => TurnDescends
<1>1. Init => EntryInHand
  BY DEF Init, NoFrame, EntryInHand
<1>2. IInv /\ EntryInHand /\ [Next]_vars => EntryInHand'
  BY EntryInHandStep
<1>3. IInv /\ EntryInHand /\ [Next]_vars =>
        [up /\ frame.pc # "idle" /\ frame'.pc # "idle" =>
           \/ frame'.entries \subseteq frame.entries /\ frame'.entries # frame.entries
           \/ frame'.entries = frame.entries /\ Place' < Place
           \/ /\ frame'.entries = frame.entries /\ Place' = Place
              /\ Left' \subseteq Left /\ Left' # Left]_vars
  BY Descent
<1> QED BY <1>1, <1>2, <1>3, Invariance, PTL DEF Spec, TurnDescends
=============================================================================
