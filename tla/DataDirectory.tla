---------------------------- MODULE DataDirectory ----------------------------
(***************************************************************************)
(* Commands that contend for one data directory: DaemonLease and Scheduler *)
(* together.  A serve runs a scheduler from the moment its runtime is      *)
(* built, a backup runs none, a migrate adds schedules.  The quickstart    *)
(* promises that two commands never run duplicate schedulers: that holds   *)
(* until a start fails with its runtime built (OneUntilAStartFails), and   *)
(* not after (NoDuplicateScheduler).                                       *)
(***************************************************************************)
EXTENDS DaemonLease

CONSTANTS
    Schedules, Refused, NoNext, Limit, MaxTime, MaxEdits,
    TheDaemon       \* the one daemon of the abstract scheduler

ASSUME DirectoryAssumption ==
    /\ Refused \subseteq Schedules
    /\ NoNext \subseteq Schedules
    /\ Limit \in Nat \ {0}
    /\ MaxTime \in Nat
    /\ MaxEdits \in Nat
    /\ TheDaemon # NoProcess

VARIABLES clock, edits, ends, schedules, runs, tasks

schedulerVars == <<clock, edits, ends, schedules, runs, tasks>>
vars == <<leaseVars, schedulerVars>>

Each == INSTANCE Scheduler WITH
            Daemons <- Processes, NoDaemon <- NoProcess, MaxEnds <- MaxLaunches

Init == LeaseInit /\ Each!Init

SchedulerUp(p) == tasks[p].pc # "off"

\* serve: the runtime's constructor starts the scheduler.
Serve(p) == Open(p) /\ Each!Up(p)

\* The process closes its database; a signal is seen between two turns.
Shutdown(p) ==
    /\ Close(p)
    /\ IF SchedulerUp(p)
       THEN tasks[p].pc = "rest" /\ Each!Down(p)
       ELSE UNCHANGED schedulerVars

Crash(p) ==
    /\ Die(p)
    /\ IF SchedulerUp(p) THEN Each!Down(p) ELSE UNCHANGED schedulerVars

\* The scheduler runs with the runtime, a failed start's too; requests need a server.
Schedule(p) ==
    \/ Each!Poll(p)
    \/ Each!Work(p)
    \/ procs[p].state = "writing" /\ Each!Edit(p)
    \/ procs[p].state = "import" /\ Each!Imports

\* Steps of a command that its scheduler, if it has one, goes on through.
Contend(p) ==
    \/ Launch(p) \/ Migrate(p) \/ Acquire(p) \/ Held(p) \/ Listen(p) \/ Operate(p)
    \/ StartFails(p) \/ Release(p) \/ BeatLost(p)

Next ==
    \/ \E p \in Processes : Serve(p) \/ Shutdown(p) \/ Crash(p)
    \/ \E p \in Processes : Contend(p) /\ UNCHANGED schedulerVars
    \/ (\E q \in Pids : OtherProgram(q)) /\ UNCHANGED schedulerVars
    \/ (\E p \in Processes : Schedule(p)) /\ UNCHANGED leaseVars
    \/ Each!Passing /\ UNCHANGED leaseVars

Spec == Init /\ [][Next]_vars

-----------------------------------------------------------------------------
\* What one daemon's scheduler would show: the task of a scheduler that is up, if there
\* is one, and leases without the name of the process that took them.
OneTask ==
    [d \in {TheDaemon} |->
        IF \E p \in Processes : SchedulerUp(p)
        THEN tasks[CHOOSE p \in Processes : SchedulerUp(p)]
        ELSE [pc |-> "off", batch |-> {}]]

OneHolder ==
    [s \in Schedules |->
        [schedules[s] EXCEPT !.lease =
            IF schedules[s].lease = NoProcess THEN NoProcess ELSE TheDaemon]]

One == INSTANCE Scheduler WITH
           Daemons <- {TheDaemon}, NoDaemon <- NoProcess, MaxEnds <- MaxLaunches,
           schedules <- OneHolder, tasks <- OneTask

\* Until a start fails any number of commands, crashing, handing PIDs around and
\* importing beside each other, take the steps of one scheduler that is up or down: what
\* holds of one daemon's schedules holds of the directory's.
OneUntilAStartFails ==
    One!Init /\ [][~failed' => One!Next \/ UNCHANGED One!vars]_vars

-----------------------------------------------------------------------------
(* Properties that no run lists: DataDirectoryProofs proves them.          *)

\* Two schedulers are never up unless one of them is what a failed start left behind.
SecondIsStray ==
    \A p, q \in Processes :
        (SchedulerUp(p) /\ SchedulerUp(q) /\ p # q) =>
            \E other \in {p, q} : procs[other].state = "stray"

\* Until a start fails a run is started, by whichever command, only for what its
\* schedule says at that moment.
StartsWhatStandsUntilFailed ==
    [][~failed =>
        \A c \in runs' \ runs :
            /\ schedules[c.id].exists
            /\ schedules[c.id].enabled
            /\ schedules[c.id].next = c.next
            /\ c.next <= clock]_vars

\* Until a start fails the commands between them skip no occurrence.
NoneSkippedUntilFailed ==
    [][~failed =>
        \A s \in Schedules :
           \/ edits' # edits
           \/ schedules'[s].next = schedules[s].next
           \/ /\ schedules'[s].next = schedules[s].next + 1
              /\ [id |-> s, next |-> schedules[s].next] \in runs]_vars

-----------------------------------------------------------------------------
(* What the documentation says and the code does not do.                   *)

\* docs/quickstart.md:28: "One daemon owns each data directory", which "prevents
\* duplicate schedulers and workers from using one database".
NoDuplicateScheduler ==
    \A p, q \in Processes : SchedulerUp(p) /\ SchedulerUp(q) => p = q
=============================================================================
