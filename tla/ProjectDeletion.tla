--------------------------- MODULE ProjectDeletion ---------------------------
(***************************************************************************)
(* Removal of a project: its files are moved to a staging directory, its   *)
(* rows are deleted in one transaction, the staging directory is removed.  *)
(* A failed step is rolled back; a restarted daemon reads each staging     *)
(* directory's manifest and restores or removes what it finds.             *)
(*                                                                         *)
(* The daemon is one JavaScript thread.  deleteProject awaits the end of   *)
(* the runs it cancelled; everything after that wait, and the recovery in  *)
(* the constructor, is synchronous and stands in `frame', one file-system  *)
(* call or transaction per action.  Crash is enabled between any two, and  *)
(* each call may fail.  Files are moved in any order; a recursive removal  *)
(* takes a directory's entries in the order the file system lists them.    *)
(*                                                                         *)
(* A run's job, its retries' backoff and what it computes are in           *)
(* RuntimeRuns; here a run matters for the directories it makes.           *)
(***************************************************************************)
EXTENDS Naturals, FiniteSets

CONSTANTS
    Runs,           \* runs of the project; each has an artifact directory
    Dirs,           \* the project's own directories: imported artifacts, projects/<id>
    ProjectDir,     \* the one executeRun makes when it is missing
    Deletions,      \* calls of deleteProject, each with a staging directory
    NoDeletion,     \* null value
    MaxCrashes,     \* bound: daemon crashes in one behaviour
    MaxFaults       \* bound: file-system calls or transactions that fail

ASSUME ConstantsAssumption ==
    /\ ProjectDir \in Dirs
    /\ Dirs \cap Runs = {}
    /\ NoDeletion \notin Deletions
    /\ MaxCrashes \in Nat
    /\ MaxFaults \in Nat

VARIABLES
    up,         \* the daemon is running
    crashes,    \* crashes so far
    faults,     \* failed calls so far
    project,    \* the project's row exists
    runs,       \* runs.status; "gone": the row was deleted with the project
    exec,       \* executeRun calls and the await each is at (volatile)
    aborted,    \* executions whose AbortController has fired (volatile)
    live,       \* what stands at each location of the data directory
    stagings,   \* .deletion-staging/<id>
    ops,        \* calls of deleteProject (volatile)
    frame,      \* the synchronous code under way (volatile)
    pending,    \* deletionCleanupPending, shown by system.health (volatile)
    held,       \* history: locations that were given data
    missed      \* history: runs deleted by a call that had not listed them

vars == <<up, crashes, faults, project, runs, exec, aborted, live, stagings,
          ops, frame, pending, held, missed>>

Loc == Runs \cup Dirs

\* "new" is an empty directory made anew, "data" one with something to lose.
Content == {"none", "new", "data"}
Store == [Loc -> Content]
Empty == [l \in Loc |-> "none"]

Status == {"unused", "queued", "running", "over", "gone"}
Stored == {"queued", "running", "over"}

\* Awaits of executeRun: loadEngine, executePlan, the report files.
Stage == {"none", "engine", "plan", "files"}

Staging == [made: BOOLEAN, manifest: {"none", "tmp", "done"},
            runIds: SUBSET Runs, files: Store]
NoStaging == [made |-> FALSE, manifest |-> "none", runIds |-> {}, files |-> Empty]

Op == [state: {"unused", "waiting", "over"}, runIds: SUBSET Runs, active: SUBSET Runs]

Pc == {"idle", "mkdir", "tmp", "manifest", "move", "delete", "rollback",
       "discard", "finalize", "boot", "restore", "sweep"}
Frame == [pc: Pc, del: Deletions \cup {NoDeletion}, locs: SUBSET Loc,
          entries: SUBSET Deletions, failed: BOOLEAN]
NoFrame == [pc |-> "idle", del |-> NoDeletion, locs |-> {}, entries |-> {},
            failed |-> FALSE]

Init ==
    /\ up = TRUE
    /\ crashes = 0
    /\ faults = 0
    /\ project = TRUE
    /\ runs = [r \in Runs |-> "unused"]
    /\ exec = [r \in Runs |-> "none"]
    /\ aborted = {}
    /\ live = [l \in Loc |-> IF l \in Dirs THEN "data" ELSE "none"]
    /\ stagings = [d \in Deletions |-> NoStaging]
    /\ ops = [d \in Deletions |-> [state |-> "unused", runIds |-> {}, active |-> {}]]
    /\ frame = NoFrame
    /\ pending = FALSE
    /\ held = Dirs
    /\ missed = {}

\* The event loop is between two turns.
LoopFree == up /\ frame.pc = "idle"

At(pc) == up /\ frame.pc = pc

Executing == {r \in Runs : exec[r] # "none"}

\* Locations a staging directory holds, and those its manifest allows it to.
Holds(s) == {l \in Loc : s.files[l] # "none"}
Named(s) == s.runIds \cup Dirs

AnyStaged == \E d \in Deletions : stagings[d].made

\* A call fails: disk full, a file in use, a locked database.
Fault ==
    /\ faults < MaxFaults
    /\ faults' = faults + 1

-----------------------------------------------------------------------------
(* Runs of the project.                                                    *)

Start(r) ==
    /\ LoopFree
    /\ project
    /\ runs[r] = "unused"
    /\ runs' = [runs EXCEPT ![r] = "queued"]
    /\ UNCHANGED <<up, crashes, faults, project, exec, aborted, live, stagings,
                   ops, frame, pending, held, missed>>

\* runs.cancel: what becomes of the rows and executions of the runs rs.
Abort(rs) ==
    /\ runs' = [r \in Runs |-> IF r \in rs THEN "over" ELSE runs[r]]
    /\ aborted' = aborted \cup (rs \cap Executing)

Cancel(r) ==
    /\ LoopFree
    /\ runs[r] \in {"queued", "running"}
    /\ Abort({r})
    /\ UNCHANGED <<up, crashes, faults, project, exec, live, stagings, ops,
                   frame, pending, held, missed>>

\* The job handler and executeRun to its first await, loadEngine.
BeginExecution(r) ==
    /\ LoopFree
    /\ runs[r] = "queued"
    /\ exec[r] = "none"
    /\ runs' = [runs EXCEPT ![r] = "running"]
    /\ exec' = [exec EXCEPT ![r] = "engine"]
    /\ UNCHANGED <<up, crashes, faults, project, aborted, live, stagings, ops,
                   frame, pending, held, missed>>

\* The project's directory is made before anything asks the signal.
EngineLoads(r) ==
    /\ LoopFree
    /\ exec[r] = "engine"
    /\ exec' = [exec EXCEPT ![r] = "plan"]
    /\ live' = [live EXCEPT ![ProjectDir] = IF @ = "none" THEN "new" ELSE @]
    /\ UNCHANGED <<up, crashes, faults, project, runs, aborted, stagings, ops,
                   frame, pending, held, missed>>

\* The plan succeeded: the artifact directory is made and written to.  Without a
\* row the plan cannot have: the module's state breaks a foreign key.
SaveArtifacts(r) ==
    /\ LoopFree
    /\ exec[r] = "plan"
    /\ r \notin aborted
    /\ runs[r] = "running"
    /\ exec' = [exec EXCEPT ![r] = "files"]
    /\ live' = [live EXCEPT ![r] = "data"]
    /\ held' = held \cup {r}
    /\ UNCHANGED <<up, crashes, faults, project, runs, aborted, stagings, ops,
                   frame, pending, missed>>

\* executeRun returns: finished, failed for good, to be retried, or aborted.
ExecutionEnds(r) ==
    /\ LoopFree
    /\ exec[r] # "none"
    /\ exec' = [exec EXCEPT ![r] = "none"]
    /\ aborted' = aborted \ {r}
    /\ \E s \in {"over", "queued"} :
           runs' = [runs EXCEPT ![r] = IF @ = "running" THEN s ELSE @]
    /\ UNCHANGED <<up, crashes, faults, project, live, stagings, ops, frame,
                   pending, held, missed>>

-----------------------------------------------------------------------------
(* deleteProject up to the end of its wait.                                *)

\* The runs are listed and those not over are cancelled.
Request(d) ==
    /\ LoopFree
    /\ ops[d].state = "unused"
    /\ project
    /\ LET active == {r \in Runs : runs[r] \in {"queued", "running"}} IN
           /\ ops' = [ops EXCEPT ![d] =
                         [state |-> "waiting",
                          runIds |-> {r \in Runs : runs[r] \in Stored},
                          active |-> active]]
           /\ Abort(active)
    /\ UNCHANGED <<up, crashes, faults, project, exec, live, stagings, frame,
                   pending, held, missed>>

\* Five seconds have passed: project_busy.
GiveUp(d) ==
    /\ LoopFree
    /\ ops[d].state = "waiting"
    /\ ops[d].active \cap Executing # {}
    /\ ops' = [ops EXCEPT ![d].state = "over"]
    /\ UNCHANGED <<up, crashes, faults, project, runs, exec, aborted, live,
                   stagings, frame, pending, held, missed>>

StopWaiting(d) ==
    /\ LoopFree
    /\ ops[d].state = "waiting"
    /\ ops[d].active \cap Executing = {}
    /\ frame' = [NoFrame EXCEPT !.pc = "mkdir", !.del = d]
    /\ ops' = [ops EXCEPT ![d].state = "over"]
    /\ UNCHANGED <<up, crashes, faults, project, runs, exec, aborted, live,
                   stagings, pending, held, missed>>

-----------------------------------------------------------------------------
(* deleteProject after its wait: staging, the transaction, rollback.       *)

\* What no statement of a deletion's synchronous part changes.
Others == <<up, crashes, exec, aborted, ops, held>>

Goto(pc) == frame' = [frame EXCEPT !.pc = pc]

\* The catch block: move back what was staged.
RollBack == frame' = [frame EXCEPT !.pc = "rollback", !.failed = FALSE,
                                   !.locs = Holds(stagings[frame.del])]

MakeStaging ==
    /\ At("mkdir")
    /\ stagings' = [stagings EXCEPT ![frame.del].made = TRUE]
    /\ Goto("tmp")
    /\ UNCHANGED <<Others, faults, project, runs, live, pending, missed>>

WriteManifest ==
    /\ At("tmp")
    /\ stagings' = [stagings EXCEPT ![frame.del].manifest = "tmp",
                                    ![frame.del].runIds = ops[frame.del].runIds]
    /\ Goto("manifest")
    /\ UNCHANGED <<Others, faults, project, runs, live, pending, missed>>

PublishManifest ==
    /\ At("manifest")
    /\ stagings' = [stagings EXCEPT ![frame.del].manifest = "done"]
    /\ frame' = [frame EXCEPT !.pc = "move", !.locs = Named(stagings[frame.del])]
    /\ UNCHANGED <<Others, faults, project, runs, live, pending, missed>>

\* A location is renamed from the data directory into staging, or back.
ToStaging(l) ==
    /\ stagings' = [stagings EXCEPT ![frame.del].files[l] = live[l]]
    /\ live' = [live EXCEPT ![l] = "none"]

ToLive(l) ==
    /\ live' = [live EXCEPT ![l] = stagings[frame.del].files[l]]
    /\ stagings' = [stagings EXCEPT ![frame.del].files[l] = "none"]

StageFiles(l) ==
    /\ At("move")
    /\ l \in frame.locs
    /\ frame' = [frame EXCEPT !.locs = frame.locs \ {l}]
    /\ IF live[l] = "none" THEN UNCHANGED <<live, stagings>> ELSE ToStaging(l)
    /\ UNCHANGED <<Others, faults, project, runs, pending, missed>>

StagingDone ==
    /\ At("move")
    /\ frame.locs = {}
    /\ Goto("delete")
    /\ UNCHANGED <<Others, faults, project, runs, live, stagings, pending, missed>>

\* One transaction; the cascade takes every run's row, listed or not.
DeleteRows ==
    /\ At("delete")
    /\ project
    /\ project' = FALSE
    /\ runs' = [r \in Runs |-> IF runs[r] \in Stored THEN "gone" ELSE runs[r]]
    /\ missed' = {r \in Runs : runs[r] \in Stored} \ ops[frame.del].runIds
    /\ Goto("finalize")
    /\ UNCHANGED <<Others, faults, live, stagings, pending>>

\* Another call was first: project_not_found.
AlreadyDeleted ==
    /\ At("delete")
    /\ ~project
    /\ RollBack
    /\ UNCHANGED <<Others, faults, project, runs, live, stagings, pending, missed>>

StepFails ==
    /\ up
    /\ frame.pc \in {"mkdir", "tmp", "manifest", "move", "delete"}
    /\ Fault
    /\ RollBack
    /\ UNCHANGED <<Others, project, runs, live, stagings, pending, missed>>

PutBack(l) ==
    /\ At("rollback")
    /\ l \in frame.locs
    /\ ToLive(l)
    /\ frame' = [frame EXCEPT !.locs = frame.locs \ {l}]
    /\ UNCHANGED <<Others, faults, project, runs, pending, missed>>

\* The error is kept and the other locations are still tried.
PutBackFails(l) ==
    /\ At("rollback")
    /\ l \in frame.locs
    /\ Fault
    /\ frame' = [frame EXCEPT !.locs = frame.locs \ {l}, !.failed = TRUE]
    /\ UNCHANGED <<Others, project, runs, live, stagings, pending, missed>>

\* Mutant: rollback removes the staging directory whatever failed.
RolledBackAnyway ==
    /\ At("rollback")
    /\ frame.locs = {}
    /\ Goto("discard")
    /\ UNCHANGED <<Others, faults, project, runs, live, stagings, pending, missed>>

RolledBack ==
    /\ At("rollback")
    /\ frame.locs = {}
    /\ IF frame.failed
       THEN pending' = TRUE /\ frame' = NoFrame
       ELSE Goto("discard") /\ UNCHANGED pending
    /\ UNCHANGED <<Others, faults, project, runs, live, stagings, missed>>

-----------------------------------------------------------------------------
(* rmSync of a staging directory, by rollback, deletion or recovery.       *)

AtRemoval == up /\ frame.pc \in {"discard", "finalize", "sweep"}

RemoveManifest ==
    /\ AtRemoval
    /\ stagings[frame.del].manifest # "none"
    /\ stagings' = [stagings EXCEPT ![frame.del].manifest = "none",
                                    ![frame.del].runIds = {}]
    /\ UNCHANGED <<Others, faults, project, runs, live, frame, pending, missed>>

RemoveFiles(l) ==
    /\ AtRemoval
    /\ stagings[frame.del].files[l] # "none"
    /\ stagings' = [stagings EXCEPT ![frame.del].files[l] = "none"]
    /\ UNCHANGED <<Others, faults, project, runs, live, frame, pending, missed>>

\* The call returns, or recovery takes the next entry.
AfterRemoval(ok) ==
    frame' = IF frame.pc = "sweep"
             THEN [NoFrame EXCEPT !.pc = "boot",
                                  !.entries = frame.entries \ {frame.del},
                                  !.failed = frame.failed \/ ~ok]
             ELSE NoFrame

\* Mutant: finalizeDeletionStaging does not look for other staging directories.
RemoveRootOnly ==
    /\ AtRemoval
    /\ stagings[frame.del].manifest = "none"
    /\ Holds(stagings[frame.del]) = {}
    /\ stagings' = [stagings EXCEPT ![frame.del].made = FALSE]
    /\ pending' = IF frame.pc = "finalize" THEN FALSE ELSE pending
    /\ AfterRemoval(TRUE)
    /\ UNCHANGED <<Others, faults, project, runs, live, missed>>

\* The directory itself goes; finalizeDeletionStaging looks for others.
RemoveRoot ==
    /\ AtRemoval
    /\ stagings[frame.del].manifest = "none"
    /\ Holds(stagings[frame.del]) = {}
    /\ stagings' = [stagings EXCEPT ![frame.del].made = FALSE]
    /\ pending' = IF frame.pc = "finalize" THEN AnyStaged' ELSE pending
    /\ AfterRemoval(TRUE)
    /\ UNCHANGED <<Others, faults, project, runs, live, missed>>

RemovalFails ==
    /\ AtRemoval
    /\ Fault
    /\ pending' = IF frame.pc = "sweep" THEN pending ELSE TRUE
    /\ AfterRemoval(FALSE)
    /\ UNCHANGED <<Others, project, runs, live, stagings, missed>>

-----------------------------------------------------------------------------
(* Crash, and recoverDeletionStaging when the daemon starts again.         *)

Crash ==
    /\ up
    /\ crashes < MaxCrashes
    /\ crashes' = crashes + 1
    /\ up' = FALSE
    /\ frame' = NoFrame
    /\ pending' = FALSE
    /\ exec' = [r \in Runs |-> "none"]
    /\ aborted' = {}
    /\ ops' = [d \in Deletions |-> [ops[d] EXCEPT !.state =
                  IF ops[d].state = "unused" THEN "unused" ELSE "over"]]
    /\ UNCHANGED <<faults, project, runs, live, stagings, held, missed>>

Restart ==
    /\ ~up
    /\ up' = TRUE
    /\ frame' = [NoFrame EXCEPT !.pc = "boot",
                                !.entries = {d \in Deletions : stagings[d].made}]
    /\ UNCHANGED <<crashes, faults, project, runs, exec, aborted, live, stagings,
                   ops, pending, held, missed>>

Skip(d) == frame' = [frame EXCEPT !.pc = "boot", !.failed = TRUE,
                                  !.del = NoDeletion, !.locs = {},
                                  !.entries = frame.entries \ {d}]

\* Mutant: recovery restores without asking the database.
ReadEntryRestores(d) ==
    /\ At("boot")
    /\ d \in frame.entries
    /\ LET s == stagings[d]
           onlyTmp == s.manifest = "tmp" /\ Holds(s) = {}
       IN  \/ /\ onlyTmp
              /\ frame' = [frame EXCEPT !.pc = "sweep", !.del = d]
           \/ /\ ~onlyTmp
              /\ s.manifest # "done"
              /\ Skip(d)
           \/ /\ s.manifest = "done"
              /\ frame' = [frame EXCEPT !.pc = "restore", !.del = d, !.locs = Named(s)]
    /\ UNCHANGED <<Others, faults, project, runs, live, stagings, pending, missed>>

\* One entry of the staging base: only the unfinished manifest, no readable
\* manifest, or a manifest and then what the database says of the project.
ReadEntry(d) ==
    /\ At("boot")
    /\ d \in frame.entries
    /\ LET s == stagings[d]
           onlyTmp == s.manifest = "tmp" /\ Holds(s) = {}
       IN  \/ /\ onlyTmp \/ (s.manifest = "done" /\ ~project)
              /\ frame' = [frame EXCEPT !.pc = "sweep", !.del = d]
           \/ /\ ~onlyTmp
              /\ s.manifest # "done"
              /\ Skip(d)
           \/ /\ s.manifest = "done"
              /\ project
              /\ frame' = [frame EXCEPT !.pc = "restore", !.del = d, !.locs = Named(s)]
    /\ UNCHANGED <<Others, faults, project, runs, live, stagings, pending, missed>>

\* A location is moved back unless something stands there.
RestoreFiles(l) ==
    /\ At("restore")
    /\ l \in frame.locs
    /\ live[l] = "none" \/ stagings[frame.del].files[l] = "none"
    /\ IF stagings[frame.del].files[l] = "none"
       THEN UNCHANGED <<live, stagings>>
       ELSE ToLive(l)
    /\ frame' = [frame EXCEPT !.locs = frame.locs \ {l}]
    /\ UNCHANGED <<Others, faults, project, runs, pending, missed>>

\* Both staged and live: nothing more is done with this entry.
RestoreConflicts(l) ==
    /\ At("restore")
    /\ l \in frame.locs
    /\ live[l] # "none"
    /\ stagings[frame.del].files[l] # "none"
    /\ Skip(frame.del)
    /\ UNCHANGED <<Others, faults, project, runs, live, stagings, pending, missed>>

RestoreFails ==
    /\ At("restore")
    /\ Fault
    /\ Skip(frame.del)
    /\ UNCHANGED <<Others, project, runs, live, stagings, pending, missed>>

Restored ==
    /\ At("restore")
    /\ frame.locs = {}
    /\ Goto("sweep")
    /\ UNCHANGED <<Others, faults, project, runs, live, stagings, pending, missed>>

\* recoverInterruptedRuns follows: an interrupted run is queued again.
Ready ==
    /\ At("boot")
    /\ frame.entries = {}
    /\ pending' = (frame.failed \/ AnyStaged)
    /\ runs' = [r \in Runs |-> IF runs[r] = "running" THEN "queued" ELSE runs[r]]
    /\ frame' = NoFrame
    /\ UNCHANGED <<Others, faults, project, live, stagings, missed>>

-----------------------------------------------------------------------------
RunStep(r) ==
    \/ Start(r) \/ Cancel(r) \/ BeginExecution(r) \/ EngineLoads(r)
    \/ SaveArtifacts(r) \/ ExecutionEnds(r)

CallStep(d) == Request(d) \/ GiveUp(d) \/ StopWaiting(d)

StageStep ==
    \/ MakeStaging \/ WriteManifest \/ PublishManifest \/ StagingDone
    \/ \E l \in Loc : StageFiles(l)
    \/ DeleteRows \/ AlreadyDeleted \/ StepFails
    \/ \E l \in Loc : PutBack(l) \/ PutBackFails(l)
    \/ RolledBack

RemovalStep ==
    \/ RemoveManifest \/ RemoveRoot \/ RemovalFails
    \/ \E l \in Loc : RemoveFiles(l)

RecoveryStep ==
    \/ Restart \/ Restored \/ RestoreFails \/ Ready
    \/ \E d \in Deletions : ReadEntry(d)
    \/ \E l \in Loc : RestoreFiles(l) \/ RestoreConflicts(l)

Next ==
    \/ \E r \in Runs : RunStep(r)
    \/ \E d \in Deletions : CallStep(d)
    \/ StageStep
    \/ RemovalStep
    \/ Crash
    \/ RecoveryStep

Spec == Init /\ [][Next]_vars

-----------------------------------------------------------------------------
(* Properties.                                                             *)

\* Every variable has its type, and a call that returned leaves nothing behind for
\* the next one.
TypeOK ==
    /\ up \in BOOLEAN
    /\ crashes \in 0..MaxCrashes
    /\ faults \in 0..MaxFaults
    /\ project \in BOOLEAN
    /\ runs \in [Runs -> Status]
    /\ exec \in [Runs -> Stage]
    /\ aborted \subseteq Runs
    /\ live \in Store
    /\ stagings \in [Deletions -> Staging]
    /\ ops \in [Deletions -> Op]
    /\ frame \in Frame
    /\ frame.pc = "idle" => frame = NoFrame
    /\ pending \in BOOLEAN
    /\ held \subseteq Loc
    /\ missed \subseteq Runs

\* The data of a location is staged where recovery will look for it.
Recoverable(l) ==
    \E d \in Deletions :
        /\ stagings[d].manifest = "done"
        /\ l \in Named(stagings[d])
        /\ stagings[d].files[l] = "data"

\* Nothing of a project that still exists is lost: whatever failed or crashed in
\* staging, rollback or recovery, each directory that held data is in its place
\* or in a staging directory whose manifest names it.
NothingLost ==
    project => \A l \in held : live[l] = "data" \/ Recoverable(l)

\* What system.health says of deletions is true: when no cleanup is shown as
\* pending nothing is staged, and a project that exists has all its data.
HealthTellsTruth ==
    LoopFree /\ ~pending =>
        /\ ~AnyStaged
        /\ project => \A l \in held : live[l] = "data"

\* Data of a deleted project never stands in the data directory again, except that
\* of runs started after the deletion had listed the runs it would stage.
OnlyMissedRunsRemain ==
    ~project => \A l \in Loc : live[l] = "data" => l \in missed

\* Deletion removes the project's artifacts with its rows, as the quickstart says.
DeletionLeavesNothing ==
    ~project => \A l \in Loc : live[l] # "data"

-----------------------------------------------------------------------------
(* Properties that no run lists.                                           *)

\* Locations whose data is somewhere, in its place or staged.
Remains ==
    {l \in Loc : live[l] = "data" \/ \E d \in Deletions : stagings[d].files[l] = "data"}

\* What is left of a deleted project only becomes less: no rollback of another call, no
\* restart and no execution still under way brings back data that was gone, the
\* project's row or a run's.
DeletedOnlyShrinks ==
    [][~project => /\ ~project'
                   /\ Remains' \subseteq Remains
                   /\ \A r \in Runs : runs'[r] \notin Stored]_vars

\* How far the synchronous code is from its end; recovery goes through the places from
\* 3 on once for every entry it reads.
Place ==
    CASE frame.pc = "mkdir" -> 9
      [] frame.pc = "tmp" -> 8
      [] frame.pc = "manifest" -> 7
      [] frame.pc = "move" -> 6
      [] frame.pc = "delete" -> 5
      [] frame.pc = "rollback" -> 4
      [] frame.pc \in {"discard", "finalize", "boot"} -> 3
      [] frame.pc = "restore" -> 2
      [] frame.pc = "sweep" -> 1
      [] OTHER -> 0

\* What the loop at this place has yet to go through: locations, or what is in the
\* directory being removed.
Left ==
    ({"move"} \X frame.locs) \cup
    (IF AtRemoval
     THEN ({"remove"} \X Holds(stagings[frame.del])) \cup
          ({"manifest"} \X {d \in {frame.del} : stagings[d].manifest # "none"})
     ELSE {})

\* A deletion, its rollback and the recovery hold the event loop for a bounded time,
\* whatever fails: each statement takes an entry off the list, or leads nearer to the
\* end, or takes something off the loop it is in.
TurnDescends ==
    [][up /\ frame.pc # "idle" /\ frame'.pc # "idle" =>
        \/ frame'.entries \subseteq frame.entries /\ frame'.entries # frame.entries
        \/ frame'.entries = frame.entries /\ Place' < Place
        \/ /\ frame'.entries = frame.entries /\ Place' = Place
           /\ Left' \subseteq Left /\ Left' # Left]_vars

=============================================================================
