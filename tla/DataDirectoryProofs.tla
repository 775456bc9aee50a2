------------------------- MODULE DataDirectoryProofs -------------------------
(***************************************************************************)
(* One command at a time holds the data directory, and until a start fails *)
(* the schedulers of all commands together are one scheduler.              *)
(*                                                                         *)
(* While a command holds the directory the row names it, and its process   *)
(* is alive: no other can acquire.  A scheduler that is up is a holder's,  *)
(* or a stray's, which a failed start has left behind.  Without a stray it *)
(* is alone, and holds the leases of the whole batch it works off, so the  *)
(* abstract scheduler, which cannot tell holders apart, takes its steps.   *)
(***************************************************************************)
EXTENDS DataDirectory, TLAPS

(* The lease.                                                              *)

LeaseInv == LeaseTypeOK /\ OwnerIsRecorded

LEMMA NoRowType == NoRow \in [owner: Processes \cup {NoProcess}, pid: Pids]
  BY LeaseAssumption DEF NoRow

LEMMA LeaseInitHolds == LeaseInit => LeaseInv
<1> SUFFICES ASSUME LeaseInit PROVE LeaseInv
  OBVIOUS
<1>1. NoRow.pid \in Pids
  BY NoRowType
<1>2. procs \in [Processes -> Process]
      /\ \A p \in Processes : procs[p].state = "off" /\ procs[p].handle = FALSE
  BY <1>1 DEF LeaseInit, Process, State
<1>3. failed \in BOOLEAN
  BY DEF LeaseInit
<1>4. row \in [owner: Processes \cup {NoProcess}, pid: Pids] /\ foreign \subseteq Pids
      /\ launches \in 0..MaxLaunches
  BY NoRowType, LeaseAssumption DEF LeaseInit
<1>5. LeaseTypeOK
  BY <1>2, <1>3, <1>4 DEF LeaseTypeOK
<1>6. OwnerIsRecorded
  BY <1>2 DEF OwnerIsRecorded, Holding
<1> QED BY <1>5, <1>6 DEF LeaseInv

\* A row whose command holds the directory names a live process.
LEMMA HolderIsAlive ==
  ASSUME LeaseInv, NEW p \in Processes, Holding(p)
  PROVE  row.owner = p /\ row.owner # NoProcess /\ IsAlive(row.pid)
<1>1. row.owner = p /\ row.pid = procs[p].pid
  BY DEF LeaseInv, OwnerIsRecorded
<1>2. Running(p)
  BY DEF Holding, Running
<1> QED BY <1>1, <1>2, LeaseAssumption DEF IsAlive

LEMMA BeginKeeps ==
  ASSUME LeaseInv, NEW p \in Processes, NEW state \in {"inspect", "import"},
         Begin(p, state)
  PROVE  LeaseInv'
<1>1. procs \in [Processes -> Process] /\ launches \in Nat /\ launches' = launches + 1
      /\ launches < MaxLaunches
  BY DEF LeaseInv, LeaseTypeOK, Begin
<1>2. PICK q \in Pids : procs' = [procs EXCEPT ![p] =
                           [state |-> state, pid |-> q, handle |-> FALSE]]
  BY DEF Begin
<1>3. LeaseTypeOK'
  BY <1>1, <1>2, LeaseAssumption
  DEF LeaseInv, LeaseTypeOK, Begin, Process, State, Holding
<1>4. OwnerIsRecorded'
  BY <1>1, <1>2 DEF LeaseInv, OwnerIsRecorded, Begin, Holding
<1> QED BY <1>3, <1>4 DEF LeaseInv

LEMMA AcquireKeeps ==
  ASSUME LeaseInv, NEW p \in Processes, Acquire(p)
  PROVE  LeaseInv'
<1>1. \A q \in Processes : ~Holding(q)
  BY HolderIsAlive DEF Acquire
<1>2. procs[p] \in Process /\ procs \in [Processes -> Process]
  BY DEF LeaseInv, LeaseTypeOK
<1>3. LeaseTypeOK'
  BY <1>2 DEF Acquire, LeaseInv, LeaseTypeOK, Process, State, Holding
<1>4. OwnerIsRecorded'
  BY <1>1, <1>2 DEF Acquire, OwnerIsRecorded, Holding, Process
<1> QED BY <1>3, <1>4 DEF LeaseInv

\* Held, Die and the end of a command: procs[p] goes off and the row stays or goes.
LEMMA ExitKeeps ==
  ASSUME LeaseInv, NEW p \in Processes, Held(p) \/ Die(p) \/ Release(p)
  PROVE  LeaseInv'
<1>1. /\ procs \in [Processes -> Process] /\ Exit(p)
      /\ UNCHANGED <<foreign, launches, failed>>
  BY DEF LeaseInv, LeaseTypeOK, Held, Die, Release
<1>2. row' = row \/ (row' = NoRow /\ row.owner = p)
  BY DEF Held, Die, Release, ReleaseRow
<1>3. LeaseTypeOK'
  BY <1>1, <1>2, NoRowType
  DEF LeaseInv, LeaseTypeOK, Exit, Process, State, Holding
<1>4. OwnerIsRecorded'
  BY <1>1, <1>2 DEF LeaseInv, OwnerIsRecorded, Exit, Holding
<1> QED BY <1>3, <1>4 DEF LeaseInv

\* The holder goes on.
HolderStep(p) == Open(p) \/ Listen(p) \/ Operate(p) \/ Close(p) \/ BeatLost(p)

LEMMA HolderStepKeeps ==
  ASSUME LeaseInv, NEW p \in Processes, HolderStep(p)
  PROVE  LeaseInv'
<1>1. procs \in [Processes -> Process] /\ Holding(p)
      /\ UNCHANGED <<row, foreign, launches, failed>>
  BY DEF LeaseInv, LeaseTypeOK, HolderStep, Open, Listen, Operate, Close, BeatLost, Holding
<1>2. LeaseTypeOK'
  <2>1. CASE Open(p) \/ Listen(p) \/ Operate(p)
    BY <1>1, <2>1
    DEF LeaseInv, LeaseTypeOK, Open, Listen, Operate, Process, State, Holding
  <2>2. CASE Close(p)
    BY <1>1, <2>2 DEF LeaseInv, LeaseTypeOK, Close, Process, State, Holding
  <2>3. CASE BeatLost(p)
    BY <1>1, <2>3 DEF LeaseInv, LeaseTypeOK, BeatLost, Process, State, Holding
  <2> QED BY <2>1, <2>2, <2>3 DEF HolderStep
<1>3. \A q \in Processes : procs'[q].pid = procs[q].pid /\ (Holding(q)' => Holding(q))
  BY <1>1 DEF HolderStep, Open, Listen, Operate, Close, BeatLost, Process, Holding
<1>4. OwnerIsRecorded'
  BY <1>1, <1>3 DEF LeaseInv, OwnerIsRecorded
<1> QED BY <1>2, <1>4 DEF LeaseInv

\* A failed start gives the lease up and goes on without it.
LEMMA StartFailsKeeps ==
  ASSUME LeaseInv, NEW p \in Processes, StartFails(p)
  PROVE  LeaseInv'
<1>1. procs \in [Processes -> Process] /\ UNCHANGED <<foreign, launches>> /\ failed' = TRUE
      /\ procs' = [procs EXCEPT ![p].state = "stray", ![p].handle = FALSE]
  BY DEF LeaseInv, LeaseTypeOK, StartFails
<1>2. row' = row \/ (row' = NoRow /\ row.owner = p)
  BY DEF StartFails, ReleaseRow
<1>3. LeaseTypeOK'
  BY <1>1, <1>2, NoRowType DEF LeaseInv, LeaseTypeOK, Process, State, Holding
<1>4. OwnerIsRecorded'
  BY <1>1, <1>2 DEF LeaseInv, OwnerIsRecorded, Holding
<1> QED BY <1>3, <1>4 DEF LeaseInv

LEMMA LeaseStepKeeps == LeaseInv /\ [LeaseNext]_leaseVars => LeaseInv'
<1> SUFFICES ASSUME LeaseInv, [LeaseNext]_leaseVars PROVE LeaseInv'
  OBVIOUS
<1>1. CASE UNCHANGED leaseVars
  BY <1>1 DEF leaseVars, LeaseInv, LeaseTypeOK, OwnerIsRecorded, Holding
<1>2. ASSUME NEW p \in Processes, Command(p) PROVE LeaseInv'
  BY <1>2, BeginKeeps, AcquireKeeps, ExitKeeps, HolderStepKeeps, StartFailsKeeps
  DEF Command, Launch, Migrate, HolderStep
<1>3. ASSUME NEW q \in Pids, OtherProgram(q) PROVE LeaseInv'
  <2>1. foreign' \subseteq Pids /\ UNCHANGED <<procs, row, launches, failed>>
    BY <1>3 DEF OtherProgram, LeaseInv, LeaseTypeOK
  <2> QED BY <2>1 DEF LeaseInv, LeaseTypeOK, OwnerIsRecorded, Holding
<1> QED BY <1>1, <1>2, <1>3 DEF LeaseNext

\* A step of the composition is a step of the lease or leaves it alone.
LEMMA DirectoryStepIsLeaseStep == [Next]_vars => [LeaseNext]_leaseVars
  BY DEF Next, vars, LeaseNext, Command, Serve, Shutdown, Crash, Contend

\* The commands of the composition keep to the lease's protocol.
THEOREM DirectoryKeepsLease == Spec => LeaseSpec
<1>1. Init => LeaseInit
  BY DEF Init
<1> QED BY <1>1, DirectoryStepIsLeaseStep, PTL DEF Spec, LeaseSpec

THEOREM LeaseInvariance == Spec => []LeaseInv
<1>1. Init => LeaseInv
  BY LeaseInitHolds DEF Init
<1>2. LeaseInv /\ [Next]_vars => LeaseInv'
  BY LeaseStepKeeps, DirectoryStepIsLeaseStep
<1> QED BY <1>1, <1>2, PTL DEF Spec

\* Whoever holds the directory is the owner in the row, under its own PID.
THEOREM RowNamesOwner == Spec => []OwnerIsRecorded
<1>1. LeaseInv => OwnerIsRecorded
  BY DEF LeaseInv
<1> QED BY <1>1, LeaseInvariance, PTL

\* Of two commands that have the database open one never asked for the directory, or
\* gave it up when its start failed: the lease has one owner.
THEOREM OwnersAreAlone == Spec => []OneOwner
<1>1. LeaseInv => OneOwner
  BY DEF LeaseInv, OwnerIsRecorded, OneOwner, DatabaseOpen, Holding
<1> QED BY <1>1, LeaseInvariance, PTL

-----------------------------------------------------------------------------
(* The schedulers of the commands.                                         *)

\* What is proved of any number of schedulers, for those of the commands.
Of == INSTANCE SchedulerProofs WITH
          Daemons <- Processes, NoDaemon <- NoProcess, MaxEnds <- MaxLaunches

\* A scheduler that is up is a holder's, or was left behind by a failed start.
SchedulersAreKnown ==
    \A p \in Processes :
        SchedulerUp(p) => procs[p].state \in {"starting", "writing", "stray"}

StraysHaveFailed == \A p \in Processes : procs[p].state = "stray" => failed

DirInv ==
    /\ LeaseInv
    /\ Of!Inv
    /\ ~failed => Of!BatchStands
    /\ SchedulersAreKnown
    /\ StraysHaveFailed

LEMMA OfAssumption == Of!SchedulerAssumption
  BY LeaseAssumption, DirectoryAssumption DEF Of!SchedulerAssumption

LEMMA SameCardinality ==
  /\ \A S : Each!Cardinality(S) = Of!Cardinality(S)
  /\ \A S : Each!Cardinality(S) = One!Cardinality(S)
<1>1. \A S : Each!Cardinality(S) = Of!Cardinality(S)
  BY DEF Each!Cardinality, Of!Cardinality
<1>2. \A S : Each!Cardinality(S) = One!Cardinality(S)
  BY DEF Each!Cardinality, One!Cardinality
<1> QED BY <1>1, <1>2

LEMMA WorkIsOf ==
  ASSUME NEW p \in Processes
  PROVE  /\ Each!StartRun(p) => Of!StartRun(p)
         /\ Each!StartRefused(p) => Of!StartRefused(p)
         /\ Each!Advance(p) => Of!Advance(p)
         /\ Each!NoOccurrence(p) => Of!NoOccurrence(p)
         /\ Each!Release(p) => Of!Release(p)
<1>1. Each!Head(p) = Of!Head(p)
  BY DEF Each!Head, Of!Head
<1>2. Each!HeadDone(p) => Of!HeadDone(p)
  BY <1>1 DEF Each!HeadDone, Of!HeadDone, Each!Rest, Of!Rest
<1>3. ASSUME NEW s, NEW entry PROVE Each!IfHolder(p, s, entry) => Of!IfHolder(p, s, entry)
  BY DEF Each!IfHolder, Of!IfHolder
<1>4. ASSUME NEW entry PROVE Each!Free(entry) = Of!Free(entry)
  BY DEF Each!Free, Of!Free
<1>5. Each!StartRun(p) => Of!StartRun(p)
  BY <1>1 DEF Each!StartRun, Of!StartRun
<1>6. Each!StartRefused(p) => Of!StartRefused(p)
  BY <1>1 DEF Each!StartRefused, Of!StartRefused
<1>7. Each!Advance(p) => Of!Advance(p)
  BY <1>1, <1>2, <1>3, <1>4 DEF Each!Advance, Of!Advance
<1>8. Each!Release(p) => Of!Release(p)
  BY <1>1, <1>2, <1>3, <1>4 DEF Each!Release, Of!Release
<1>9. Each!NoOccurrence(p) => Of!NoOccurrence(p)
  BY <1>1 DEF Each!NoOccurrence, Of!NoOccurrence
<1> QED BY <1>5, <1>6, <1>7, <1>8, <1>9

LEMMA PollIsOf == ASSUME NEW p \in Processes, Each!Poll(p) PROVE Of!Poll(p)
<1>1. \A s : Each!Claimable(s) <=> Of!Claimable(s)
  BY DEF Each!Claimable, Of!Claimable
<1>2. \A batch : Each!Claims(batch) <=> Of!Claims(batch)
  BY <1>1, SameCardinality DEF Each!Claims, Of!Claims
<1> QED BY <1>2 DEF Each!Poll, Of!Poll

LEMMA StepIsOf == [Next]_vars => [Of!Next]_(Of!vars)
<1> SUFFICES ASSUME [Next]_vars PROVE [Of!Next]_(Of!vars)
  OBVIOUS
<1>1. CASE UNCHANGED schedulerVars
  BY <1>1 DEF schedulerVars, Of!vars
<1>2. ASSUME NEW p \in Processes, Each!Up(p) \/ Each!Down(p)
      PROVE  Of!Next
  BY <1>2 DEF Each!Up, Each!Down, Of!Up, Of!Down, Each!Off, Of!Off, Each!Rest, Of!Rest,
              Of!Next
<1>3. ASSUME NEW p \in Processes, Each!Poll(p) \/ Each!Work(p)
      PROVE  Of!Next
  BY <1>3, PollIsOf, WorkIsOf DEF Each!Work, Of!Work, Of!Next
<1>4. ASSUME NEW p \in Processes, Each!Edit(p)
      PROVE  Of!Next
  <2>1. Of!Edit(p)
    BY <1>4 DEF Each!Edit, Each!Create, Each!Update, Each!Remove, Each!Request,
                Each!Unused, Each!NewRow, Each!Free, Each!Time,
                Of!Edit, Of!Create, Of!Update, Of!Remove, Of!Request,
                Of!Unused, Of!NewRow, Of!Free, Of!Time
  <2> QED BY <2>1 DEF Of!Next
<1>5. ASSUME Each!Imports
      PROVE  Of!Next
  <2>1. Of!Imports
    BY <1>5 DEF Each!Imports, Each!Import, Each!Unused, Each!NewRow, Each!Time,
                Of!Imports, Of!Import, Of!Unused, Of!NewRow, Of!Time
  <2> QED BY <2>1 DEF Of!Next
<1>6. ASSUME Each!Passing
      PROVE  Of!Next
  BY <1>6 DEF Each!Passing, Each!Tick, Each!LeaseLapses, Of!Passing, Of!Tick,
              Of!LeaseLapses, Of!Next
<1> QED BY <1>1, <1>2, <1>3, <1>4, <1>5, <1>6
        DEF Next, vars, Serve, Shutdown, Crash, Schedule

LEMMA UpIsAlone ==
  ASSUME DirInv, NEW p \in Processes, NEW q \in Processes, SchedulerUp(p), SchedulerUp(q),
         p # q
  PROVE  procs[p].state = "stray" \/ procs[q].state = "stray"
  BY DEF DirInv, SchedulersAreKnown, LeaseInv, OwnerIsRecorded, Holding

LEMMA NoStrayOneUp == DirInv /\ ~failed => Of!OneUp
  BY UpIsAlone DEF DirInv, StraysHaveFailed, Of!OneUp, SchedulerUp

\* A step of the command itself, its scheduler going on.
LEMMA ContendKeepsKnown ==
  ASSUME DirInv, NEW p \in Processes, Contend(p), UNCHANGED schedulerVars
  PROVE  SchedulersAreKnown' /\ StraysHaveFailed'
<1>1. procs \in [Processes -> Process]
  BY DEF DirInv, LeaseInv, LeaseTypeOK
<1>2. \A q \in Processes : SchedulerUp(q)' <=> SchedulerUp(q)
  BY DEF SchedulerUp, schedulerVars
<1>3. /\ \A q \in Processes \ {p} : procs'[q] = procs[q]
      /\ procs[p].state \in {"starting", "writing", "stray"} =>
             procs'[p].state \in {"starting", "writing", "stray"}
      /\ (procs'[p].state = "stray" => procs[p].state = "stray" \/ failed')
      /\ (failed => failed')
  <2>1. CASE Launch(p) \/ Migrate(p)
    BY <1>1, <2>1 DEF Launch, Migrate, Begin, Running
  <2>2. CASE Acquire(p) \/ BeatLost(p) \/ Listen(p) \/ Operate(p)
    BY <1>1, <2>2 DEF Acquire, BeatLost, Listen, Operate, Process
  <2>3. CASE StartFails(p)
    BY <1>1, <2>3 DEF StartFails, Process
  <2>4. CASE Held(p) \/ Release(p)
    BY <1>1, <2>4 DEF Held, Release, Exit, Process
  <2> QED BY <2>1, <2>2, <2>3, <2>4 DEF Contend
<1> QED BY <1>2, <1>3 DEF DirInv, SchedulersAreKnown, StraysHaveFailed

\* A scheduler that works stays up, and so do the others.
LEMMA ScheduleKeepsUp ==
  ASSUME tasks \in [Processes -> Of!Task], NEW p \in Processes, Schedule(p)
  PROVE  \A q \in Processes : SchedulerUp(q)' <=> SchedulerUp(q)
<1>1. CASE Each!Poll(p)
  <2>1. tasks[p].pc = "rest"
        /\ \E batch : tasks' = [tasks EXCEPT ![p] = [pc |-> "start", batch |-> batch]]
    BY <1>1, Zenon DEF Each!Poll
  <2> QED BY <2>1 DEF SchedulerUp
<1>2. CASE Each!StartRun(p) \/ Each!StartRefused(p) \/ Each!NoOccurrence(p)
  BY <1>2 DEF Each!StartRun, Each!StartRefused, Each!NoOccurrence, Of!Task, SchedulerUp
<1>3. CASE Each!Advance(p) \/ Each!Release(p)
  <2>1. tasks[p].pc # "off" /\ Each!HeadDone(p)
    BY <1>3 DEF Each!Advance, Each!Release
  <2> QED BY <2>1 DEF Each!HeadDone, Each!Rest, SchedulerUp
<1>4. CASE Each!Edit(p) \/ Each!Imports
  BY <1>4 DEF Each!Edit, Each!Create, Each!Update, Each!Remove, Each!Imports, Each!Import,
              SchedulerUp
<1> QED BY <1>1, <1>2, <1>3, <1>4 DEF Schedule, Each!Work

LEMMA KnownKeeps == DirInv /\ [Next]_vars => SchedulersAreKnown' /\ StraysHaveFailed'
<1> SUFFICES ASSUME DirInv, [Next]_vars PROVE SchedulersAreKnown' /\ StraysHaveFailed'
  OBVIOUS
<1>1. /\ procs \in [Processes -> Process] /\ tasks \in [Processes -> Of!Task]
      /\ SchedulersAreKnown /\ StraysHaveFailed
  BY DEF DirInv, LeaseInv, LeaseTypeOK, Of!Inv, Of!TypeOK
<1> DEFINE Kept == SchedulersAreKnown' /\ StraysHaveFailed'
<1>2. CASE UNCHANGED vars
  BY <1>1, <1>2 DEF vars, leaseVars, schedulerVars, SchedulersAreKnown, StraysHaveFailed,
                    SchedulerUp
<1>3. ASSUME NEW p \in Processes, Serve(p)
      PROVE  Kept
  BY <1>1, <1>3 DEF Serve, Open, Each!Up, Each!Rest, Process, SchedulersAreKnown,
                    StraysHaveFailed, SchedulerUp
<1>4. ASSUME NEW p \in Processes, Shutdown(p) \/ Crash(p)
      PROVE  Kept
  <2>1. /\ \A q \in Processes \ {p} : procs'[q] = procs[q]
        /\ procs'[p].state # "stray" /\ failed' = failed
    BY <1>1, <1>4 DEF Shutdown, Crash, Close, Die, Exit, Process
  <2>2. /\ \A q \in Processes \ {p} : tasks'[q] = tasks[q]
        /\ tasks'[p].pc = "off"
    BY <1>1, <1>4 DEF Shutdown, Crash, Each!Down, Each!Off, schedulerVars, SchedulerUp
  <2> QED BY <1>1, <2>1, <2>2 DEF SchedulersAreKnown, StraysHaveFailed, SchedulerUp
<1>5. ASSUME NEW p \in Processes, Contend(p), UNCHANGED schedulerVars
      PROVE  Kept
  BY <1>5, ContendKeepsKnown
<1>6. ASSUME NEW q \in Pids, OtherProgram(q), UNCHANGED schedulerVars
      PROVE  Kept
  BY <1>1, <1>6 DEF OtherProgram, SchedulersAreKnown, StraysHaveFailed, SchedulerUp,
                    schedulerVars
<1>7. ASSUME NEW p \in Processes, Schedule(p), UNCHANGED leaseVars
      PROVE  Kept
  <2>1. \A q \in Processes : SchedulerUp(q)' <=> SchedulerUp(q)
    BY <1>1, <1>7, ScheduleKeepsUp
  <2> QED BY <1>1, <1>7, <2>1 DEF SchedulersAreKnown, StraysHaveFailed, leaseVars
<1>8. ASSUME Each!Passing, UNCHANGED leaseVars
      PROVE  Kept
  BY <1>1, <1>8 DEF Each!Passing, Each!Tick, Each!LeaseLapses, SchedulersAreKnown,
                    StraysHaveFailed, SchedulerUp, leaseVars
<1> QED BY <1>2, <1>3, <1>4, <1>5, <1>6, <1>7, <1>8 DEF Next

\* Nothing forgets that a start has failed.
LEMMA FailedStays == [Next]_vars /\ failed => failed'
<1> SUFFICES ASSUME [LeaseNext]_leaseVars, failed PROVE failed'
  BY DirectoryStepIsLeaseStep
<1>1. ASSUME NEW p \in Processes, Command(p) PROVE failed'
  BY <1>1 DEF Command, Launch, Migrate, Begin, Acquire, Held, Open, Listen, Operate,
              StartFails, Close, Release, BeatLost, Die
<1> QED BY <1>1 DEF LeaseNext, leaseVars, OtherProgram

LEMMA DirStepKeeps == DirInv /\ [Next]_vars => DirInv'
<1> SUFFICES ASSUME DirInv, [Next]_vars PROVE DirInv'
  OBVIOUS
<1>1. Of!Inv' /\ Of!KeepsStanding
  BY OfAssumption, StepIsOf, Of!StepKeeps DEF DirInv
<1>2. ASSUME ~failed' PROVE Of!BatchStands'
  BY <1>1, <1>2, FailedStays, NoStrayOneUp DEF DirInv, Of!KeepsStanding
<1> QED BY <1>1, <1>2, LeaseStepKeeps, DirectoryStepIsLeaseStep, KnownKeeps DEF DirInv

LEMMA DirInitHolds == Init => DirInv
<1> SUFFICES ASSUME Init PROVE DirInv
  OBVIOUS
<1>1. Of!Init
  BY DEF Init, Each!Init, Of!Init, Each!NewRow, Of!NewRow, Each!Off, Of!Off
<1>2. Of!Inv /\ Of!BatchStands
  BY <1>1, OfAssumption, Of!InitHolds
<1>3. SchedulersAreKnown /\ StraysHaveFailed
  BY DEF Init, LeaseInit, Each!Init, Each!Off, SchedulersAreKnown, StraysHaveFailed,
         SchedulerUp
<1> QED BY <1>2, <1>3, LeaseInitHolds DEF Init, DirInv

\* The lease and the schedulers behind it: each belongs to a holder or to a failed start,
\* and until a start fails what a scheduler works off still stands.
THEOREM DirectoryInvariance == Spec => []DirInv
<1> QED BY DirInitHolds, DirStepKeeps, PTL DEF Spec

\* Failed starts, imports, crashes and lost beats included, two schedulers are up only
\* when one was left behind by a failed start.
THEOREM SecondSchedulerIsStray == Spec => []SecondIsStray
<1>1. DirInv => SecondIsStray
  BY UpIsAlone DEF SecondIsStray
<1> QED BY <1>1, DirectoryInvariance, PTL

\* Until a start fails, however many commands contend for the directory, crash or import,
\* a run is started only for what its schedule says at that moment.
THEOREM DirectoryStartsWhatStands == Spec => StartsWhatStandsUntilFailed
<1>1. DirInv /\ [Next]_vars =>
        [~failed =>
            \A c \in runs' \ runs :
                /\ schedules[c.id].exists
                /\ schedules[c.id].enabled
                /\ schedules[c.id].next = c.next
                /\ c.next <= clock]_vars
  BY OfAssumption, StepIsOf, Of!StartStands DEF DirInv
<1> QED BY <1>1, DirectoryInvariance, PTL DEF Spec, StartsWhatStandsUntilFailed

\* Until a start fails the commands between them skip no occurrence: whichever of them has
\* the directory, a schedule goes on to the next once the last has its run.
THEOREM DirectorySkipsNone == Spec => NoneSkippedUntilFailed
<1>1. DirInv /\ [Next]_vars =>
        [~failed =>
            \A s \in Schedules :
               \/ edits' # edits
               \/ schedules'[s].next = schedules[s].next
               \/ /\ schedules'[s].next = schedules[s].next + 1
                  /\ [id |-> s, next |-> schedules[s].next] \in runs]_vars
  BY OfAssumption, StepIsOf, Of!AdvanceStands DEF DirInv
<1> QED BY <1>1, DirectoryInvariance, PTL DEF Spec, NoneSkippedUntilFailed

-----------------------------------------------------------------------------
(* The refinement: without a stray all schedulers together are one.        *)

\* A row as the one scheduler has it.
Renamed(entry) ==
    [entry EXCEPT !.lease = IF entry.lease = NoProcess THEN NoProcess ELSE TheDaemon]

LEMMA HolderIsRenamed == OneHolder = [s \in Schedules |-> Renamed(schedules[s])]
  BY DEF OneHolder, Renamed

\* Renaming keeps what a claim looks at, and is lost when the lease is.
LEMMA RenamedRow ==
  ASSUME NEW entry \in Of!Row
  PROVE  /\ Renamed(entry).exists = entry.exists /\ Renamed(entry).enabled = entry.enabled
         /\ Renamed(entry).next = entry.next /\ Renamed(entry).lapsed = entry.lapsed
         /\ Renamed(entry).lease = NoProcess <=> entry.lease = NoProcess
         /\ Renamed(entry).lease \in {NoProcess, TheDaemon}
         /\ Of!Free(Renamed(entry)) = Renamed(Of!Free(entry))
  BY LeaseAssumption, DirectoryAssumption DEF Renamed, Of!Row, Of!Free

LEMMA RenamedClaim ==
  ASSUME NEW entry \in Of!Row, NEW p \in Processes
  PROVE  Renamed([entry EXCEPT !.lease = p, !.lapsed = FALSE]) =
             [Renamed(entry) EXCEPT !.lease = TheDaemon, !.lapsed = FALSE]
  BY LeaseAssumption DEF Renamed, Of!Row

LEMMA RenamedEdit ==
  ASSUME NEW entry \in Of!Row, NEW next
  PROVE  /\ Renamed(Of!Free([entry EXCEPT !.exists = FALSE])) =
                Of!Free([Renamed(entry) EXCEPT !.exists = FALSE])
         /\ Renamed(Of!Free([entry EXCEPT !.next = next])) =
                Of!Free([Renamed(entry) EXCEPT !.next = next])
         /\ Renamed([entry EXCEPT !.lapsed = TRUE]) = [Renamed(entry) EXCEPT !.lapsed = TRUE]
  BY DEF Renamed, Of!Row, Of!Free

\* One row changes, and with it its renamed row.
LEMMA RenamedUpdate ==
  ASSUME NEW s \in Schedules, NEW entry, schedules \in [Schedules -> Of!Row],
         schedules' = [schedules EXCEPT ![s] = entry]
  PROVE  OneHolder' = [OneHolder EXCEPT ![s] = Renamed(entry)]
  BY HolderIsRenamed DEF OneHolder, Renamed

\* The one task is that of the scheduler that is up, or off.
LEMMA TaskOfUp ==
  ASSUME Of!OneUp, NEW p \in Processes, SchedulerUp(p)
  PROVE  OneTask = [d \in {TheDaemon} |-> tasks[p]] /\ OneTask[TheDaemon] = tasks[p]
<1>1. (CHOOSE q \in Processes : SchedulerUp(q)) = p
  BY DEF Of!OneUp, SchedulerUp
<1> QED BY <1>1 DEF OneTask

LEMMA TaskOfNextUp ==
  ASSUME Of!OneUp', NEW p \in Processes, SchedulerUp(p)'
  PROVE  OneTask' = [d \in {TheDaemon} |-> tasks'[p]]
<1>1. \A q \in Processes : SchedulerUp(q)' => q = p
  BY DEF Of!OneUp, SchedulerUp
<1>2. (CHOOSE q \in Processes : SchedulerUp(q)') = p
  BY <1>1
<1> QED BY <1>2 DEF OneTask

LEMMA TaskOfNobody ==
  ASSUME \A p \in Processes : ~SchedulerUp(p)
  PROVE  /\ OneTask = [d \in {TheDaemon} |-> One!Off]
         /\ OneTask[TheDaemon] = One!Off
  BY DEF OneTask, One!Off

LEMMA SameTasks == ASSUME UNCHANGED schedulerVars PROVE UNCHANGED One!vars
  BY DEF One!vars, schedulerVars, OneTask, OneHolder, SchedulerUp

LEMMA ServeIsUp ==
  ASSUME DirInv, Of!OneUp', NEW p \in Processes, Serve(p)
  PROVE  One!Up(TheDaemon)
<1>1. /\ tasks[p].pc = "off" /\ tasks' = [tasks EXCEPT ![p] = Each!Rest]
      /\ UNCHANGED <<clock, edits, ends, schedules, runs>>
      /\ tasks \in [Processes -> Of!Task]
  BY DEF Serve, Each!Up, DirInv, Of!Inv, Of!TypeOK
<1>2. SchedulerUp(p)' /\ tasks'[p] = Each!Rest
  BY <1>1 DEF SchedulerUp, Each!Rest
<1>3. \A q \in Processes : ~SchedulerUp(q)
  BY <1>1, <1>2 DEF SchedulerUp, Of!OneUp
<1>4. OneTask[TheDaemon] = One!Off /\ OneTask = [d \in {TheDaemon} |-> One!Off]
  BY <1>3, TaskOfNobody
<1>5. OneTask' = [d \in {TheDaemon} |-> tasks'[p]]
  BY <1>2, TaskOfNextUp
<1>6. OneHolder' = OneHolder
  BY <1>1 DEF OneHolder
<1> QED BY <1>1, <1>2, <1>4, <1>5, <1>6 DEF One!Up, One!Off, One!Rest, Each!Rest

LEMMA EndIsDown ==
  ASSUME DirInv, Of!OneUp, NEW p \in Processes, Each!Down(p)
  PROVE  One!Down(TheDaemon)
<1>1. /\ SchedulerUp(p) /\ tasks' = [tasks EXCEPT ![p] = Each!Off]
      /\ tasks \in [Processes -> Of!Task]
  BY DEF Each!Down, SchedulerUp, DirInv, Of!Inv, Of!TypeOK
<1>2. \A q \in Processes : ~SchedulerUp(q)'
  BY <1>1 DEF SchedulerUp, Of!OneUp, Each!Off
<1>3. OneTask = [d \in {TheDaemon} |-> tasks[p]] /\ OneTask[TheDaemon] = tasks[p]
  BY <1>1, TaskOfUp
<1>4. OneTask' = [d \in {TheDaemon} |-> One!Off]
  BY <1>2 DEF OneTask, One!Off
<1>5. OneHolder' = OneHolder
  BY DEF OneHolder, Each!Down
<1> QED BY <1>3, <1>4, <1>5 DEF Each!Down, One!Down

\* What a step of the scheduler that is up finds.
LEMMA AtSchedule ==
  ASSUME DirInv, Of!OneUp, Of!OneUp', NEW p \in Processes, SchedulerUp(p), Schedule(p)
  PROVE  /\ OneTask = [d \in {TheDaemon} |-> tasks[p]] /\ OneTask[TheDaemon] = tasks[p]
         /\ OneTask' = [d \in {TheDaemon} |-> tasks'[p]]
         /\ schedules \in [Schedules -> Of!Row]
         /\ tasks \in [Processes -> Of!Task]
<1>1. schedules \in [Schedules -> Of!Row] /\ tasks \in [Processes -> Of!Task]
  BY DEF DirInv, Of!Inv, Of!TypeOK
<1>2. SchedulerUp(p)'
  BY <1>1, ScheduleKeepsUp
<1> QED BY <1>1, <1>2, TaskOfUp, TaskOfNextUp

LEMMA SameHead ==
  ASSUME NEW p \in Processes, OneTask[TheDaemon] = tasks[p]
  PROVE  One!Head(TheDaemon) = Each!Head(p)
  BY DEF One!Head, Each!Head

LEMMA SameHeadDone ==
  ASSUME NEW p \in Processes, OneTask[TheDaemon] = tasks[p],
         OneTask = [d \in {TheDaemon} |-> tasks[p]], p \in DOMAIN tasks,
         OneTask' = [d \in {TheDaemon} |-> tasks'[p]], Each!HeadDone(p)
  PROVE  One!HeadDone(TheDaemon)
<1> DEFINE rest == tasks[p].batch \ {Each!Head(p)}
<1>1. tasks'[p] = IF rest = {} THEN Each!Rest ELSE [pc |-> "start", batch |-> rest]
  BY DEF Each!HeadDone
<1>2. Each!Rest = One!Rest /\ rest = OneTask[TheDaemon].batch \ {One!Head(TheDaemon)}
  BY SameHead DEF Each!Rest, One!Rest
<1> QED BY <1>1, <1>2 DEF One!HeadDone

LEMMA PollIsOne ==
  ASSUME DirInv, Of!OneUp, Of!OneUp', NEW p \in Processes, Each!Poll(p)
  PROVE  One!Poll(TheDaemon)
<1>1. /\ tasks[p].pc = "rest"
      /\ OneTask = [d \in {TheDaemon} |-> tasks[p]] /\ OneTask[TheDaemon] = tasks[p]
      /\ OneTask' = [d \in {TheDaemon} |-> tasks'[p]]
      /\ schedules \in [Schedules -> Of!Row] /\ tasks \in [Processes -> Of!Task]
  BY AtSchedule DEF Each!Poll, Schedule, SchedulerUp
<1>2. PICK due \in SUBSET Schedules :
         /\ Each!Claims(due)
         /\ due # {}
         /\ schedules' = [s \in Schedules |->
                IF s \in due THEN [schedules[s] EXCEPT !.lease = p, !.lapsed = FALSE]
                             ELSE schedules[s]]
         /\ tasks' = [tasks EXCEPT ![p] =
                [pc |-> "start",
                 batch |-> {[id |-> s, next |-> schedules[s].next] : s \in due}]]
  BY DEF Each!Poll
<1>3. \A s \in Schedules : OneHolder[s] = Renamed(schedules[s])
  BY HolderIsRenamed
<1>4. \A s \in Schedules : One!Claimable(s) <=> Each!Claimable(s)
  BY <1>1, <1>3, RenamedRow DEF One!Claimable, Each!Claimable
<1>5. \A s \in Schedules : OneHolder[s].next = schedules[s].next
  BY <1>1, <1>3, RenamedRow
<1>6. One!Claims(due)
  <2>1. {s \in Schedules : One!Claimable(s)} = {s \in Schedules : Each!Claimable(s)}
    BY <1>4
  <2>2. \A S : One!Cardinality(S) = Each!Cardinality(S)
    BY SameCardinality
  <2>3. \A s \in due, t \in Schedules \ due :
            OneHolder[s].next = schedules[s].next /\ OneHolder[t].next = schedules[t].next
    BY <1>5
  <2> QED BY <1>2, <2>1, <2>2, <2>3 DEF One!Claims, Each!Claims
<1>7. OneHolder' = [s \in Schedules |->
          IF s \in due THEN [OneHolder[s] EXCEPT !.lease = TheDaemon, !.lapsed = FALSE]
                       ELSE OneHolder[s]]
  <2>1. \A s \in Schedules : schedules'[s] =
            IF s \in due THEN [schedules[s] EXCEPT !.lease = p, !.lapsed = FALSE]
                         ELSE schedules[s]
    BY <1>2
  <2>2. \A s \in Schedules : Renamed(schedules'[s]) =
            IF s \in due THEN [Renamed(schedules[s]) EXCEPT !.lease = TheDaemon, !.lapsed = FALSE]
                         ELSE Renamed(schedules[s])
    <3> TAKE s \in Schedules
    <3>1. schedules[s] \in Of!Row
      BY <1>1
    <3>2. CASE s \in due
      <4>1. schedules'[s] = [schedules[s] EXCEPT !.lease = p, !.lapsed = FALSE]
        BY <2>1, <3>2
      <4> QED BY <3>1, <3>2, <4>1, RenamedClaim
    <3>3. CASE s \notin due
      BY <2>1, <3>3
    <3> QED BY <3>2, <3>3
  <2>3. OneHolder' = [s \in Schedules |-> Renamed(schedules'[s])]
    BY DEF OneHolder, Renamed
  <2> QED BY <1>3, <2>2, <2>3
<1>8. OneTask' = [OneTask EXCEPT ![TheDaemon] =
          [pc |-> "start",
           batch |-> {[id |-> s, next |-> OneHolder[s].next] : s \in due}]]
  <2>1. {[id |-> s, next |-> OneHolder[s].next] : s \in due} =
            {[id |-> s, next |-> schedules[s].next] : s \in due}
    BY <1>5
  <2>2. tasks'[p] = [pc |-> "start",
                     batch |-> {[id |-> s, next |-> OneHolder[s].next] : s \in due}]
    <3> DEFINE claims == {[id |-> s, next |-> schedules[s].next] : s \in due}
    <3>1. tasks' = [tasks EXCEPT ![p] = [pc |-> "start", batch |-> claims]]
      BY <1>2
    <3>2. tasks'[p] = [pc |-> "start", batch |-> claims]
      <4> HIDE DEF claims
      <4> QED BY <1>1, <3>1
    <3> QED BY <2>1, <3>2, Zenon
  <2> QED BY <1>1, <2>2
<1> QED BY <1>1, <1>2, <1>6, <1>7, <1>8 DEF One!Poll, Each!Poll

\* Without a stray the head of a batch is a row that its scheduler holds.
LEMMA HeadIsHeld ==
  ASSUME DirInv, ~failed, NEW p \in Processes, tasks[p].pc \in {"start", "advance", "release"}
  PROVE  /\ Each!Head(p).id \in Schedules
         /\ schedules[Each!Head(p).id].exists /\ schedules[Each!Head(p).id].lease = p
<1>1. Each!Head(p) = Of!Head(p)
  BY DEF Each!Head, Of!Head
<1>2. Of!Head(p) \in tasks[p].batch /\ Of!Head(p).id \in Schedules
  BY OfAssumption, Of!AtWork DEF DirInv
<1> QED BY <1>1, <1>2 DEF DirInv, Of!BatchStands

\* The holder changes its row; the one scheduler holds it too.
LEMMA SameHolder ==
  ASSUME schedules \in [Schedules -> Of!Row], NEW p \in Processes, NEW s \in Schedules,
         schedules[s].exists, schedules[s].lease = p, NEW entry, Each!IfHolder(p, s, entry)
  PROVE  One!IfHolder(TheDaemon, s, Renamed(entry))
<1>1. schedules' = [schedules EXCEPT ![s] = entry]
  BY DEF Each!IfHolder
<1>2. OneHolder' = [OneHolder EXCEPT ![s] = Renamed(entry)]
  BY <1>1, RenamedUpdate
<1>3. OneHolder[s] = Renamed(schedules[s]) /\ schedules[s] \in Of!Row
  BY HolderIsRenamed
<1>4. OneHolder[s].exists /\ OneHolder[s].lease = TheDaemon
  BY <1>3, RenamedRow, LeaseAssumption
<1> QED BY <1>2, <1>4 DEF One!IfHolder

LEMMA WorkIsOne ==
  ASSUME DirInv, ~failed, Of!OneUp, Of!OneUp', NEW p \in Processes, Each!Work(p)
  PROVE  One!Work(TheDaemon)
<1>1. tasks[p].pc \in {"start", "advance", "release"}
  BY DEF Each!Work, Each!StartRun, Each!StartRefused, Each!Advance, Each!NoOccurrence,
         Each!Release
<1>2. /\ OneTask = [d \in {TheDaemon} |-> tasks[p]] /\ OneTask[TheDaemon] = tasks[p]
      /\ OneTask' = [d \in {TheDaemon} |-> tasks'[p]]
      /\ schedules \in [Schedules -> Of!Row] /\ tasks \in [Processes -> Of!Task]
  BY <1>1, AtSchedule DEF Schedule, SchedulerUp
<1> DEFINE c == Each!Head(p)
<1>3. One!Head(TheDaemon) = c
  BY <1>2, SameHead
<1>4. c.id \in Schedules /\ schedules[c.id].exists /\ schedules[c.id].lease = p
      /\ schedules[c.id] \in Of!Row /\ OneHolder[c.id] = Renamed(schedules[c.id])
  BY <1>1, <1>2, HeadIsHeld, HolderIsRenamed
<1>5. Each!HeadDone(p) => One!HeadDone(TheDaemon)
  BY <1>2, SameHeadDone
<1> HIDE DEF c
<1>6. CASE Each!StartRun(p) \/ Each!StartRefused(p) \/ Each!NoOccurrence(p)
  <2>1. OneHolder' = OneHolder
    BY <1>6 DEF Each!StartRun, Each!StartRefused, Each!NoOccurrence, OneHolder
  <2>2. CASE Each!StartRun(p)
    <3>1. tasks'[p] = [tasks[p] EXCEPT !.pc = "advance"]
      BY <1>2, <2>2 DEF Each!StartRun
    <3>2. OneTask' = [OneTask EXCEPT ![TheDaemon].pc = "advance"]
      BY <1>2, <3>1
    <3>3. One!StartRun(TheDaemon)
      BY <1>2, <1>3, <2>1, <2>2, <3>2 DEF Each!StartRun, One!StartRun, c
    <3> QED BY <3>3 DEF One!Work
  <2>3. CASE Each!StartRefused(p)
    <3>1. tasks'[p] = [tasks[p] EXCEPT !.pc = "release"]
      BY <1>2, <2>3 DEF Each!StartRefused
    <3>2. OneTask' = [OneTask EXCEPT ![TheDaemon].pc = "release"]
      BY <1>2, <3>1
    <3>3. One!StartRefused(TheDaemon)
      BY <1>2, <1>3, <2>1, <2>3, <3>2 DEF Each!StartRefused, One!StartRefused, c
    <3> QED BY <3>3 DEF One!Work
  <2>4. CASE Each!NoOccurrence(p)
    <3>1. tasks'[p] = [tasks[p] EXCEPT !.pc = "release"]
      BY <1>2, <2>4 DEF Each!NoOccurrence
    <3>2. OneTask' = [OneTask EXCEPT ![TheDaemon].pc = "release"]
      BY <1>2, <3>1
    <3>3. One!NoOccurrence(TheDaemon)
      BY <1>2, <1>3, <2>1, <2>4, <3>2 DEF Each!NoOccurrence, One!NoOccurrence, c
    <3> QED BY <3>3 DEF One!Work
  <2> QED BY <1>6, <2>2, <2>3, <2>4
<1>7. \A entry : Each!Free(entry) = Of!Free(entry) /\ One!Free(entry) = Of!Free(entry)
  BY DEF Each!Free, One!Free, Of!Free
<1>8. CASE Each!Advance(p)
  <2> DEFINE new == Each!Free([schedules[c.id] EXCEPT !.next = c.next + 1])
             one == One!Free([OneHolder[c.id] EXCEPT !.next = c.next + 1])
  <2>1. Each!IfHolder(p, c.id, new)
    BY <1>8 DEF Each!Advance, c
  <2>2. Renamed(new) = one
    <3>1. Renamed(Of!Free([schedules[c.id] EXCEPT !.next = c.next + 1])) =
              Of!Free([Renamed(schedules[c.id]) EXCEPT !.next = c.next + 1])
      BY <1>4, RenamedEdit
    <3> QED BY <1>4, <1>7, <3>1
  <2> HIDE DEF new
  <2>3. One!IfHolder(TheDaemon, c.id, one)
    <3>1. One!IfHolder(TheDaemon, c.id, Renamed(new))
      BY <1>2, <1>4, <2>1, SameHolder
    <3> HIDE DEF one
    <3> QED BY <2>2, <3>1
  <2>4. c.id \notin NoNext
    BY <1>8 DEF Each!Advance, c
  <2>5. One!Advance(TheDaemon)
    BY <1>2, <1>3, <1>5, <1>8, <2>3, <2>4 DEF Each!Advance, One!Advance
  <2> QED BY <2>5 DEF One!Work
<1>9. CASE Each!Release(p)
  <2> DEFINE new == Each!Free(schedules[c.id])
             one == One!Free(OneHolder[c.id])
  <2>1. Each!IfHolder(p, c.id, new)
    BY <1>9 DEF Each!Release, c
  <2>2. Renamed(new) = one
    BY <1>4, <1>7, RenamedRow
  <2> HIDE DEF new
  <2>3. One!IfHolder(TheDaemon, c.id, one)
    <3>1. One!IfHolder(TheDaemon, c.id, Renamed(new))
      BY <1>2, <1>4, <2>1, SameHolder
    <3> HIDE DEF one
    <3> QED BY <2>2, <3>1
  <2>4. One!Release(TheDaemon)
    BY <1>2, <1>3, <1>5, <1>9, <2>3 DEF Each!Release, One!Release
  <2> QED BY <2>4 DEF One!Work
<1> QED BY <1>6, <1>8, <1>9 DEF Each!Work

LEMMA EditIsOne ==
  ASSUME DirInv, Of!OneUp, Of!OneUp', NEW p \in Processes,
         procs[p].state = "writing", Each!Edit(p)
  PROVE  One!Edit(TheDaemon)
<1>1. /\ tasks[p].pc = "rest" /\ edits < MaxEdits /\ edits' = edits + 1
      /\ UNCHANGED <<clock, ends, runs, tasks>>
  BY DEF Each!Edit, Each!Create, Each!Update, Each!Remove, Each!Request
<1>2. /\ OneTask[TheDaemon] = tasks[p] /\ OneTask' = OneTask
      /\ schedules \in [Schedules -> Of!Row]
  BY <1>1, AtSchedule DEF Schedule, SchedulerUp
<1>3. One!Request(TheDaemon)
  BY <1>1, <1>2 DEF One!Request
<1>4. \A s \in Schedules : /\ schedules[s] \in Of!Row
                           /\ OneHolder[s] = Renamed(schedules[s])
                           /\ OneHolder[s].exists = schedules[s].exists
  BY <1>2, HolderIsRenamed, RenamedRow
<1>5. ASSUME NEW s \in Schedules, NEW next \in Each!Time, NEW enabled \in BOOLEAN,
             Each!Update(p, s, next, enabled)
      PROVE  One!Update(TheDaemon, s, next, enabled)
  <2> DEFINE new == [schedules[s] EXCEPT !.next = next, !.enabled = enabled]
             one == [OneHolder[s] EXCEPT !.next = next, !.enabled = enabled]
  <2>1. schedules' = [schedules EXCEPT ![s] = new]
    BY <1>2, <1>5 DEF Each!Update
  <2>2. Renamed(new) = one
    <3>1. Renamed([schedules[s] EXCEPT !.next = next, !.enabled = enabled]) =
              [Renamed(schedules[s]) EXCEPT !.next = next, !.enabled = enabled]
      <4>1. schedules[s] \in Of!Row
        BY <1>4
      <4> DEFINE old == schedules[s]
      <4>2. old \in Of!Row
        BY <4>1
      <4> HIDE DEF old, new, one
      <4>3. Renamed([old EXCEPT !.next = next, !.enabled = enabled]) =
                [Renamed(old) EXCEPT !.next = next, !.enabled = enabled]
        BY <1>5, <4>2 DEF Renamed, Of!Row
      <4> QED BY <4>3 DEF old
    <3>2. OneHolder[s] = Renamed(schedules[s])
      BY <1>4
    <3> QED BY <3>1, <3>2
  <2> HIDE DEF new, one
  <2>3. OneHolder' = [OneHolder EXCEPT ![s] = one]
    BY <1>2, <2>1, <2>2, RenamedUpdate
  <2>4. OneHolder' = [OneHolder EXCEPT ![s].next = next, ![s].enabled = enabled]
    BY <2>3, HolderIsRenamed DEF one
  <2> QED BY <1>1, <1>2, <1>3, <1>4, <1>5, <2>4 DEF One!Update, Each!Update
<1>6. ASSUME NEW s \in Schedules, Each!Remove(p, s)
      PROVE  One!Remove(TheDaemon, s)
  <2> DEFINE new == Of!Free([schedules[s] EXCEPT !.exists = FALSE])
             one == Of!Free([OneHolder[s] EXCEPT !.exists = FALSE])
  <2>1. schedules' = [schedules EXCEPT ![s] = new]
    BY <1>2, <1>6 DEF Each!Remove, Each!Free, Of!Free
  <2>2. Renamed(new) = one
    <3>1. Renamed(Of!Free([schedules[s] EXCEPT !.exists = FALSE])) =
              Of!Free([Renamed(schedules[s]) EXCEPT !.exists = FALSE])
      <4>1. schedules[s] \in Of!Row
        BY <1>4
      <4> QED BY <4>1, RenamedEdit
    <3>2. OneHolder[s] = Renamed(schedules[s])
      BY <1>4
    <3> QED BY <3>1, <3>2
  <2> HIDE DEF new, one
  <2>3. OneHolder' = [OneHolder EXCEPT ![s] = one]
    BY <1>2, <2>1, <2>2, RenamedUpdate
  <2>4. OneHolder' = [OneHolder EXCEPT ![s] = One!Free([@ EXCEPT !.exists = FALSE])]
    BY <2>3, HolderIsRenamed DEF one, One!Free, Of!Free
  <2> QED BY <1>1, <1>2, <1>3, <1>4, <1>6, <2>4 DEF One!Remove, Each!Remove
<1>7. Each!Time = One!Time
  BY DEF Each!Time, One!Time
<1>8. ASSUME NEW s \in Schedules, NEW next \in Each!Time, NEW enabled \in BOOLEAN,
             Each!Create(p, s, next, enabled)
      PROVE  One!Create(TheDaemon, s, next, enabled)
  <2> DEFINE new == One!NewRow(next, enabled)
  <2>1. schedules' = [schedules EXCEPT ![s] = new]
    BY <1>8 DEF Each!Create, Each!NewRow, One!NewRow
  <2>2. Renamed(new) = new
    BY DEF Renamed, One!NewRow
  <2>3. OneHolder' = [OneHolder EXCEPT ![s] = new]
    BY <1>2, <2>1, <2>2, RenamedUpdate
  <2>4. One!Unused(s)
    <3>1. OneTask[TheDaemon].batch = tasks[p].batch
      BY <1>2
    <3> QED BY <1>4, <1>8, <3>1 DEF Each!Create, Each!Unused, One!Unused
  <2> QED BY <1>1, <1>2, <1>3, <1>8, <2>3, <2>4 DEF One!Create, Each!Create
<1> QED BY <1>5, <1>6, <1>7, <1>8 DEF Each!Edit, One!Edit

\* An import asks no scheduler; the one scheduler's batch is of a scheduler that is up.
LEMMA ImportIsOne ==
  ASSUME DirInv, Each!Imports
  PROVE  One!Imports
<1>1. PICK s \in Schedules, next \in Each!Time, enabled \in BOOLEAN :
          Each!Import(s, next, enabled)
  BY DEF Each!Imports
<1>2. schedules \in [Schedules -> Of!Row]
  BY DEF DirInv, Of!Inv, Of!TypeOK
<1>3. UNCHANGED tasks /\ OneTask' = OneTask
  BY <1>1 DEF Each!Import, OneTask, SchedulerUp
<1> DEFINE new == One!NewRow(next, enabled)
<1>4. OneHolder' = [OneHolder EXCEPT ![s] = new]
  <2>1. schedules' = [schedules EXCEPT ![s] = new]
    BY <1>1 DEF Each!Import, Each!NewRow, One!NewRow
  <2>2. Renamed(new) = new
    BY DEF Renamed, One!NewRow
  <2> QED BY <1>2, <2>1, <2>2, RenamedUpdate
<1>5. One!Unused(s)
  <2>1. OneHolder[s].exists = schedules[s].exists
    BY <1>2, HolderIsRenamed, RenamedRow
  <2>2. \A c \in OneTask[TheDaemon].batch : c.id # s
    <3>1. CASE \E p \in Processes : SchedulerUp(p)
      <4>1. PICK p \in Processes : OneTask[TheDaemon] = tasks[p]
        BY <3>1 DEF OneTask
      <4> QED BY <1>1, <4>1 DEF Each!Import, Each!Unused
    <3>2. CASE ~\E p \in Processes : SchedulerUp(p)
      BY <3>2, TaskOfNobody DEF One!Off
    <3> QED BY <3>1, <3>2
  <2> QED BY <1>1, <2>1, <2>2 DEF Each!Import, Each!Unused, One!Unused
<1>6. One!Import(s, next, enabled)
  BY <1>1, <1>3, <1>4, <1>5 DEF Each!Import, One!Import
<1> QED BY <1>6 DEF One!Imports, Each!Time, One!Time

LEMMA PassingIsOne ==
  ASSUME DirInv, Each!Passing
  PROVE  One!Passing
<1>1. OneTask' = OneTask /\ schedules \in [Schedules -> Of!Row]
  BY DEF OneTask, SchedulerUp, Each!Passing, Each!Tick, Each!LeaseLapses, DirInv, Of!Inv,
         Of!TypeOK
<1>2. CASE Each!Tick
  BY <1>1, <1>2 DEF Each!Tick, One!Tick, One!Passing, OneHolder
<1>3. ASSUME NEW s \in Schedules, Each!LeaseLapses(s)
      PROVE  One!LeaseLapses(s)
  <2> DEFINE new == [schedules[s] EXCEPT !.lapsed = TRUE]
             one == [OneHolder[s] EXCEPT !.lapsed = TRUE]
  <2>1. schedules' = [schedules EXCEPT ![s] = new]
    BY <1>1, <1>3 DEF Each!LeaseLapses
  <2>2. schedules[s] \in Of!Row /\ OneHolder[s] = Renamed(schedules[s])
    BY <1>1, HolderIsRenamed
  <2>3. Renamed(new) = one
    BY <2>2, RenamedEdit
  <2> HIDE DEF new, one
  <2>4. OneHolder' = [OneHolder EXCEPT ![s] = one]
    BY <1>1, <2>1, <2>3, RenamedUpdate
  <2>5. OneHolder' = [OneHolder EXCEPT ![s].lapsed = TRUE]
    BY <2>4, HolderIsRenamed DEF one
  <2>6. OneHolder[s].lease # NoProcess /\ ~OneHolder[s].lapsed
    BY <1>3, <2>2, RenamedRow DEF Each!LeaseLapses
  <2> QED BY <1>1, <1>3, <2>5, <2>6 DEF Each!LeaseLapses, One!LeaseLapses
<1> QED BY <1>2, <1>3 DEF Each!Passing, One!Passing

LEMMA StepIsOne ==
  DirInv /\ DirInv' /\ [Next]_vars => [~failed' => One!Next \/ UNCHANGED One!vars]_vars
<1> SUFFICES ASSUME DirInv, DirInv', [Next]_vars, ~failed'
             PROVE  One!Next \/ UNCHANGED One!vars
  OBVIOUS
<1>1. ~failed /\ Of!OneUp /\ Of!OneUp'
  <2>1. ~failed
    BY FailedStays
  <2>2. Of!OneUp'
    BY NoStrayOneUp, PTL
  <2> QED BY <2>1, <2>2, NoStrayOneUp
<1>2. CASE UNCHANGED schedulerVars
  BY <1>2, SameTasks
<1>3. ASSUME NEW p \in Processes, Serve(p)
      PROVE  One!Next
  BY <1>1, <1>3, ServeIsUp DEF One!Next
<1>4. ASSUME NEW p \in Processes, Each!Down(p)
      PROVE  One!Next
  BY <1>1, <1>4, EndIsDown DEF One!Next
<1>5. ASSUME NEW p \in Processes, Schedule(p)
      PROVE  One!Next
  BY <1>1, <1>5, PollIsOne, WorkIsOne, EditIsOne, ImportIsOne DEF Schedule, One!Next
<1>6. CASE Each!Passing
  BY <1>6, PassingIsOne DEF One!Next
<1> QED BY <1>2, <1>3, <1>4, <1>5, <1>6 DEF Next, vars, Shutdown, Crash

LEMMA InitIsOne == Init => One!Init
<1> SUFFICES ASSUME Init PROVE One!Init
  OBVIOUS
<1>1. \A p \in Processes : ~SchedulerUp(p)
  BY DEF Init, Each!Init, Each!Off, SchedulerUp
<1>2. OneTask = [d \in {TheDaemon} |-> One!Off]
  BY <1>1, TaskOfNobody
<1>3. OneHolder \in [Schedules ->
          {One!NewRow(0, TRUE), [One!NewRow(0, TRUE) EXCEPT !.exists = FALSE]}]
  <2>1. \A s \in Schedules : schedules[s] \in Of!Row /\ schedules[s].lease = NoProcess
    <3>1. schedules \in [Schedules -> Of!Row]
      BY DirInitHolds DEF DirInv, Of!Inv, Of!TypeOK
    <3>2. \A s \in Schedules : schedules[s].lease = NoProcess
      BY DEF Init, Each!Init, Each!NewRow
    <3> QED BY <3>1, <3>2
  <2>2. \A s \in Schedules : Renamed(schedules[s]) = schedules[s]
    BY <2>1 DEF Renamed, Of!Row
  <2>3. \A s \in Schedules : OneHolder[s] = schedules[s]
    BY <2>1, <2>2, HolderIsRenamed DEF DirInv
  <2>4. schedules \in [Schedules ->
          {One!NewRow(0, TRUE), [One!NewRow(0, TRUE) EXCEPT !.exists = FALSE]}]
    BY DEF Init, Each!Init, Each!NewRow, One!NewRow
  <2>5. OneHolder = [s \in Schedules |-> OneHolder[s]]
    BY DEF OneHolder
  <2> QED BY <2>3, <2>4, <2>5
<1> QED BY <1>2, <1>3 DEF Init, Each!Init, One!Init

\* Until a start fails commands that crash, lose their beat, hand PIDs around and import
\* beside each other are, to the schedules, one scheduler that is up or down.
THEOREM OneSchedulerImplemented == Spec => OneUntilAStartFails
<1> QED BY InitIsOne, StepIsOne, DirectoryInvariance, PTL DEF Spec, OneUntilAStartFails
=============================================================================
