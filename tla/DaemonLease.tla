----------------------------- MODULE DaemonLease -----------------------------
(***************************************************************************)
(* The lease of a data directory: the row of daemon-lease.sqlite, the      *)
(* commands that take it, `serve' and the offline ones (backup, restore),  *)
(* and those that have the database open without it: `migrate', which      *)
(* never asks for it, and a `serve' whose start failed.                    *)
(*                                                                         *)
(* Such a `serve' has built its runtime when createLocalServer throws; the *)
(* lease is released and nothing closes the runtime.  Its process ends     *)
(* once nothing keeps it, and a run it resumed does: until then its        *)
(* scheduler and its worker go on, beside whoever takes the lease next.    *)
(*                                                                         *)
(* acquireDataDirectoryDaemonLease is one immediate transaction.  Whether  *)
(* the recorded owner lives is asked of the operating system by its PID,   *)
(* and a PID is given again once its process has ended: to another of our  *)
(* commands, or to any program.  The heartbeat's time decides nothing, so  *)
(* a beat is modelled where it finds the row changed or fails.             *)
(***************************************************************************)
EXTENDS Naturals, FiniteSets

CONSTANTS
    Processes,      \* commands run against the data directory; each takes a fresh owner_id
    NoProcess,      \* null value
    Pids,           \* process identifiers of the machine
    MaxLaunches     \* bound: commands launched in one behaviour

ASSUME LeaseAssumption ==
    /\ NoProcess \notin Processes
    /\ Pids # {}
    /\ MaxLaunches \in Nat

VARIABLES
    procs,      \* what each command is doing, its PID, and its lease's database handle
    row,        \* daemon_lease: owner_id and pid
    foreign,    \* PIDs of other programs
    launches,   \* commands launched so far
    failed      \* history: a start has failed and left its runtime open

leaseVars == <<procs, row, foreign, launches, failed>>

\* "inspect": before the transaction; "owner": acquired, nothing opened yet;
\* "starting": the runtime is built, nobody is served; "writing": the daemon serves,
\* or the offline operation has the database open; "closed": the database is closed,
\* the lease about to be released; "stray": the lease released by a failed start, the
\* runtime up; "import": migrate has the database open.
State == {"off", "inspect", "owner", "starting", "writing", "closed", "stray", "import"}

Process == [state: State, pid: Pids, handle: BOOLEAN]

NoRow == [owner |-> NoProcess, pid |-> CHOOSE q \in Pids : TRUE]

LeaseInit ==
    /\ procs = [p \in Processes |->
                   [state |-> "off", pid |-> NoRow.pid, handle |-> FALSE]]
    /\ row = NoRow
    /\ foreign = {}
    /\ launches = 0
    /\ failed = FALSE

Running(p) == procs[p].state # "off"

\* process.kill(pid, 0)
IsAlive(q) == q \in foreign \/ \E p \in Processes : Running(p) /\ procs[p].pid = q

\* The command is past its acquisition and not yet past its release.
Holding(p) == procs[p].state \in {"owner", "starting", "writing", "closed"}

DatabaseOpen(p) == procs[p].state \in {"starting", "writing", "stray", "import"}

\* release: the row goes if it is still this owner's and the handle is open.
ReleaseRow(p) ==
    row' = IF procs[p].handle /\ row.owner = p THEN NoRow ELSE row

Exit(p) == procs' = [procs EXCEPT ![p].state = "off", ![p].handle = FALSE]

-----------------------------------------------------------------------------
\* A command starts.  An owner_id is random: no row still has this one.
Begin(p, state) ==
    /\ ~Running(p)
    /\ row.owner # p
    /\ launches < MaxLaunches
    /\ launches' = launches + 1
    /\ \E q \in Pids :
           /\ ~IsAlive(q)
           /\ procs' = [procs EXCEPT ![p] =
                           [state |-> state, pid |-> q, handle |-> FALSE]]
    /\ UNCHANGED <<row, foreign, failed>>

Launch(p) == Begin(p, "inspect")

\* migrate opens the database, whoever has the directory.
Migrate(p) == Begin(p, "import")

\* Mutant: an owner is taken to be dead without asking the operating system.
AcquireStale(p) ==
    /\ procs[p].state = "inspect"
    /\ row' = [owner |-> p, pid |-> procs[p].pid]
    /\ procs' = [procs EXCEPT ![p].state = "owner", ![p].handle = TRUE]
    /\ UNCHANGED <<foreign, launches, failed>>

\* Mutant: the row keeps the PID of the owner it replaces.
AcquireOldPid(p) ==
    /\ procs[p].state = "inspect"
    /\ row.owner = NoProcess \/ ~IsAlive(row.pid)
    /\ row' = [owner |-> p, pid |-> row.pid]
    /\ procs' = [procs EXCEPT ![p].state = "owner", ![p].handle = TRUE]
    /\ UNCHANGED <<foreign, launches, failed>>

\* The row is free, or its owner is dead: this process is the owner.
Acquire(p) ==
    /\ procs[p].state = "inspect"
    /\ row.owner = NoProcess \/ ~IsAlive(row.pid)
    /\ row' = [owner |-> p, pid |-> procs[p].pid]
    /\ procs' = [procs EXCEPT ![p].state = "owner", ![p].handle = TRUE]
    /\ UNCHANGED <<foreign, launches, failed>>

\* The owner lives: serve prints its dashboard or gives up, the others refuse.
Held(p) ==
    /\ procs[p].state = "inspect"
    /\ row.owner # NoProcess
    /\ IsAlive(row.pid)
    /\ Exit(p)
    /\ UNCHANGED <<row, foreign, launches, failed>>

\* serve builds the runtime, which opens the database.
Open(p) ==
    /\ procs[p].state = "owner"
    /\ procs' = [procs EXCEPT ![p].state = "starting"]
    /\ UNCHANGED <<row, foreign, launches, failed>>

Listen(p) ==
    /\ procs[p].state = "starting"
    /\ procs' = [procs EXCEPT ![p].state = "writing"]
    /\ UNCHANGED <<row, foreign, launches, failed>>

\* backup opens the database, restore replaces it.
Operate(p) ==
    /\ procs[p].state = "owner"
    /\ procs' = [procs EXCEPT ![p].state = "writing"]
    /\ UNCHANGED <<row, foreign, launches, failed>>

\* createLocalServer throws (or listen, and then close does): the lease is released
\* with the runtime open, and main sets an exit code.
StartFails(p) ==
    /\ procs[p].state = "starting"
    /\ ReleaseRow(p)
    /\ procs' = [procs EXCEPT ![p].state = "stray", ![p].handle = FALSE]
    /\ failed' = TRUE
    /\ UNCHANGED <<foreign, launches>>

\* SIGTERM, a port in use, the operation's end: the database is closed first.
Close(p) ==
    /\ procs[p].state \in {"owner", "starting", "writing"}
    /\ procs' = [procs EXCEPT ![p].state = "closed"]
    /\ UNCHANGED <<row, foreign, launches, failed>>

Release(p) ==
    /\ procs[p].state = "closed"
    /\ ReleaseRow(p)
    /\ Exit(p)
    /\ UNCHANGED <<foreign, launches, failed>>

\* A beat that finds another owner in the row, or an error that is not a busy
\* database: the lease's handle is closed and the process goes on.
BeatLost(p) ==
    /\ Holding(p)
    /\ procs[p].handle
    /\ procs' = [procs EXCEPT ![p].handle = FALSE]
    /\ UNCHANGED <<row, foreign, launches, failed>>

\* A crash or a kill; also the end of an import, and of a stray that nothing keeps.
Die(p) ==
    /\ Running(p)
    /\ Exit(p)
    /\ UNCHANGED <<row, foreign, launches, failed>>

\* Other programs take and give up the PIDs nobody has.
OtherProgram(q) ==
    /\ IF q \in foreign
       THEN foreign' = foreign \ {q}
       ELSE ~IsAlive(q) /\ foreign' = foreign \cup {q}
    /\ UNCHANGED <<procs, row, launches, failed>>

Command(p) ==
    Launch(p) \/ Migrate(p) \/ Acquire(p) \/ Held(p) \/ Open(p) \/ Listen(p) \/ Operate(p)
    \/ StartFails(p) \/ Close(p) \/ Release(p) \/ BeatLost(p) \/ Die(p)

LeaseNext ==
    \/ \E p \in Processes : Command(p)
    \/ \E q \in Pids : OtherProgram(q)

LeaseSpec == LeaseInit /\ [][LeaseNext]_leaseVars

-----------------------------------------------------------------------------
(* Properties.                                                             *)

\* Every variable has its type, and a lease's handle is open only while its command
\* holds the directory.
LeaseTypeOK ==
    /\ procs \in [Processes -> Process]
    /\ \A p \in Processes : procs[p].handle => Holding(p)
    /\ row \in [owner: Processes \cup {NoProcess}, pid: Pids]
    /\ foreign \subseteq Pids
    /\ launches \in 0..MaxLaunches
    /\ failed \in BOOLEAN

\* Of two commands that have the database open one is outside the lease: an import, or
\* what a failed start left behind.  No crash, recycled PID or lost heartbeat makes two
\* owners of it.
OneOwner ==
    \A p, q \in Processes :
        (DatabaseOpen(p) /\ DatabaseOpen(q) /\ p # q) =>
            \E other \in {p, q} : procs[other].state \in {"stray", "import"}

\* The row names the command that holds the directory for as long as it does, so
\* that a beat never finds another owner there.
OwnerIsRecorded ==
    \A p \in Processes : Holding(p) => row.owner = p /\ row.pid = procs[p].pid

\* A crashed owner's lease is recovered by the next command to ask for it.
CrashedOwnerIsReplaced ==
    \A p \in Processes :
        (procs[p].state = "inspect" /\ row.owner # NoProcess /\ ~Running(row.owner))
            => ~IsAlive(row.pid)
=============================================================================
