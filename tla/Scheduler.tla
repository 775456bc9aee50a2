------------------------------ MODULE Scheduler ------------------------------
(***************************************************************************)
(* Cron schedules: rows with a next occurrence and a lease, requests that  *)
(* edit them, and the DurableScheduler of each daemon that is up.          *)
(*                                                                         *)
(* Occurrences are numbered by the time they fall due, one per unit; the   *)
(* schedule's cron decides which instants those are.  A batch is claimed   *)
(* in one transaction and worked off synchronously: inside one daemon no   *)
(* request comes between, so a request needs the daemon's task at rest.    *)
(* Another process's statements, or the end of this one, may: `migrate'    *)
(* adds schedules to the database of a daemon at work.  A lease is 90 s    *)
(* from the claim; time passing it is the action LeaseLapses.              *)
(*                                                                         *)
(* The run that runs.start inserts under the key schedule:id:next, and     *)
(* what becomes of it, is in RuntimeRuns.                                  *)
(***************************************************************************)
EXTENDS Naturals, FiniteSets

CONSTANTS
    Schedules,      \* rows of schedules
    Daemons,        \* processes that run a scheduler, also their worker ids
    NoDaemon,       \* null value
    Refused,        \* schedules whose start runs.start may refuse: no website
    NoNext,         \* imported schedules whose cron or time zone has no next occurrence
    Limit,          \* schedules claimed at once, 20 in runOnce
    MaxTime,        \* bound: the last instant at which something falls due
    MaxEdits,       \* bound: requests and imports that change a schedule
    MaxEnds         \* bound: crashes and stops of daemons

ASSUME SchedulerAssumption ==
    /\ NoDaemon \notin Daemons
    /\ Refused \subseteq Schedules
    /\ NoNext \subseteq Schedules
    /\ Limit \in Nat \ {0}
    /\ MaxTime \in Nat
    /\ MaxEdits \in Nat
    /\ MaxEnds \in Nat

VARIABLES
    clock,      \* instants gone by
    edits,      \* requests and imports so far
    ends,       \* crashes and stops so far
    schedules,  \* rows
    runs,       \* runs started: [id, next] names the idempotency key
    tasks       \* scheduler of each daemon (volatile)

vars == <<clock, edits, ends, schedules, runs, tasks>>

Time == 0..MaxTime + 1

Row == [exists: BOOLEAN, enabled: BOOLEAN, next: Time,
        lease: Daemons \cup {NoDaemon}, lapsed: BOOLEAN]

\* What a claim copies out of a row.
Claim == [id: Schedules, next: Time]

\* "start", "advance", "release": what is to be done for the head of the batch.
Task == [pc: {"off", "rest", "start", "advance", "release"}, batch: SUBSET Claim]
Off == [pc |-> "off", batch |-> {}]
Rest == [pc |-> "rest", batch |-> {}]

NewRow(next, enabled) ==
    [exists |-> TRUE, enabled |-> enabled, next |-> next,
     lease |-> NoDaemon, lapsed |-> FALSE]

\* Some schedules are there from before, others are yet to be created.
Init ==
    /\ clock = 0
    /\ edits = 0
    /\ ends = 0
    /\ schedules \in [Schedules ->
           {NewRow(0, TRUE), [NewRow(0, TRUE) EXCEPT !.exists = FALSE]}]
    /\ runs = {}
    /\ tasks = [d \in Daemons |-> Off]

\* Mutant: a lease is never taken over.
ClaimableUnheld(s) ==
    LET row == schedules[s] IN
        /\ row.exists
        /\ row.enabled
        /\ row.next <= clock
        /\ row.lease = NoDaemon

\* An enabled schedule whose time has come and whom nobody holds.
Claimable(s) ==
    LET row == schedules[s] IN
        /\ row.exists
        /\ row.enabled
        /\ row.next <= clock
        /\ row.lease = NoDaemon \/ row.lapsed

\* The rows of one claim: the earliest due, at most Limit.
Claims(batch) ==
    LET due == {s \in Schedules : Claimable(s)} IN
        /\ batch \subseteq due
        /\ IF Cardinality(due) <= Limit
           THEN batch = due
           ELSE Cardinality(batch) = Limit
        /\ \A s \in batch, t \in due \ batch : schedules[s].next <= schedules[t].next

\* The claimed schedules are worked off in the order of their times.
Head(d) == CHOOSE c \in tasks[d].batch :
               \A o \in tasks[d].batch : c.next <= o.next

Free(row) == [row EXCEPT !.lease = NoDaemon, !.lapsed = FALSE]

\* Only the holder of a row's lease changes it.
IfHolder(d, s, row) ==
    schedules' = IF schedules[s].exists /\ schedules[s].lease = d
                 THEN [schedules EXCEPT ![s] = row]
                 ELSE schedules

\* On to the next schedule of the batch.
HeadDone(d) ==
    LET rest == tasks[d].batch \ {Head(d)} IN
        tasks' = [tasks EXCEPT ![d] =
                     IF rest = {} THEN Rest ELSE [pc |-> "start", batch |-> rest]]

-----------------------------------------------------------------------------
(* Requests, served by a daemon between two turns of its event loop.       *)

\* Mutant: the scheduler awaits something while it works its batch off.
RequestAnytime(d) ==
    /\ tasks[d].pc # "off"
    /\ edits < MaxEdits
    /\ edits' = edits + 1

Request(d) ==
    /\ tasks[d].pc = "rest"
    /\ edits < MaxEdits
    /\ edits' = edits + 1

\* A schedule's id is random: no row, run or batch has it yet.
Unused(s) ==
    /\ ~schedules[s].exists
    /\ \A c \in runs : c.id # s
    /\ \A d \in Daemons : \A c \in tasks[d].batch : c.id # s

\* Requests check the cron and the time zone of what they leave; an import does not.
Create(d, s, next, enabled) ==
    /\ Request(d)
    /\ s \notin NoNext
    /\ Unused(s)
    /\ schedules' = [schedules EXCEPT ![s] = NewRow(next, enabled)]
    /\ UNCHANGED <<clock, ends, runs, tasks>>

\* schedules.update: the lease columns are left as they are.
Update(d, s, next, enabled) ==
    /\ Request(d)
    /\ s \notin NoNext
    /\ schedules[s].exists
    /\ schedules' = [schedules EXCEPT ![s].next = next, ![s].enabled = enabled]
    /\ UNCHANGED <<clock, ends, runs, tasks>>

Remove(d, s) ==
    /\ Request(d)
    /\ schedules[s].exists
    /\ schedules' = [schedules EXCEPT ![s] = Free([@ EXCEPT !.exists = FALSE])]
    /\ UNCHANGED <<clock, ends, runs, tasks>>

\* importSchedule, in the process of `migrate', beside any daemon.
Import(s, next, enabled) ==
    /\ edits < MaxEdits
    /\ edits' = edits + 1
    /\ Unused(s)
    /\ schedules' = [schedules EXCEPT ![s] = NewRow(next, enabled)]
    /\ UNCHANGED <<clock, ends, runs, tasks>>

-----------------------------------------------------------------------------
(* DurableScheduler.                                                       *)

\* claimDueSchedules, one transaction.
Poll(d) ==
    /\ tasks[d].pc = "rest"
    /\ \E batch \in SUBSET Schedules :
           /\ Claims(batch)
           /\ batch # {}
           /\ schedules' = [s \in Schedules |->
                  IF s \in batch
                  THEN [schedules[s] EXCEPT !.lease = d, !.lapsed = FALSE]
                  ELSE schedules[s]]
           /\ tasks' = [tasks EXCEPT ![d] =
                  [pc |-> "start",
                   batch |-> {[id |-> s, next |-> schedules[s].next] : s \in batch}]]
    /\ UNCHANGED <<clock, edits, ends, runs>>

\* runs.start under the occurrence's key: a repeated start finds the run.
StartRun(d) ==
    /\ tasks[d].pc = "start"
    /\ runs' = runs \cup {Head(d)}
    /\ tasks' = [tasks EXCEPT ![d].pc = "advance"]
    /\ UNCHANGED <<clock, edits, ends, schedules>>

StartRefused(d) ==
    /\ tasks[d].pc = "start"
    /\ Head(d).id \in Refused
    /\ tasks' = [tasks EXCEPT ![d].pc = "release"]
    /\ UNCHANGED <<clock, edits, ends, schedules, runs>>

\* Mutant: the next occurrence is counted from now.
AdvanceFromNow(d) ==
    /\ tasks[d].pc = "advance"
    /\ LET c == Head(d) IN
           IfHolder(d, c.id, Free([schedules[c.id] EXCEPT !.next = clock + 1]))
    /\ HeadDone(d)
    /\ UNCHANGED <<clock, edits, ends, runs>>

\* The next occurrence is counted from the one that was due, not from now.  When
\* the lease was lost the error leads to a release that changes nothing.
Advance(d) ==
    /\ tasks[d].pc = "advance"
    /\ Head(d).id \notin NoNext
    /\ LET c == Head(d) IN
           IfHolder(d, c.id, Free([schedules[c.id] EXCEPT !.next = c.next + 1]))
    /\ HeadDone(d)
    /\ UNCHANGED <<clock, edits, ends, runs>>

\* nextCronOccurrence throws: the row is released as it is, its run started.
NoOccurrence(d) ==
    /\ tasks[d].pc = "advance"
    /\ Head(d).id \in NoNext
    /\ tasks' = [tasks EXCEPT ![d].pc = "release"]
    /\ UNCHANGED <<clock, edits, ends, schedules, runs>>

Release(d) ==
    /\ tasks[d].pc = "release"
    /\ IfHolder(d, Head(d).id, Free(schedules[Head(d).id]))
    /\ HeadDone(d)
    /\ UNCHANGED <<clock, edits, ends, runs>>

-----------------------------------------------------------------------------
(* Daemons and time.                                                       *)

Up(d) ==
    /\ tasks[d].pc = "off"
    /\ tasks' = [tasks EXCEPT ![d] = Rest]
    /\ UNCHANGED <<clock, edits, ends, schedules, runs>>

\* A crash between two statements, or a stop at rest.
Down(d) ==
    /\ tasks[d].pc # "off"
    /\ ends < MaxEnds
    /\ ends' = ends + 1
    /\ tasks' = [tasks EXCEPT ![d] = Off]
    /\ UNCHANGED <<clock, edits, schedules, runs>>

LeaseLapses(s) ==
    /\ schedules[s].lease # NoDaemon
    /\ ~schedules[s].lapsed
    /\ schedules' = [schedules EXCEPT ![s].lapsed = TRUE]
    /\ UNCHANGED <<clock, edits, ends, runs, tasks>>

Tick ==
    /\ clock < MaxTime
    /\ clock' = clock + 1
    /\ UNCHANGED <<edits, ends, schedules, runs, tasks>>

-----------------------------------------------------------------------------
Work(d) ==
    StartRun(d) \/ StartRefused(d) \/ Advance(d) \/ NoOccurrence(d) \/ Release(d)

Edit(d) ==
    \E s \in Schedules :
        \/ \E next \in Time, enabled \in BOOLEAN :
               Create(d, s, next, enabled) \/ Update(d, s, next, enabled)
        \/ Remove(d, s)

Imports == \E s \in Schedules, next \in Time, enabled \in BOOLEAN : Import(s, next, enabled)

Passing == Tick \/ \E s \in Schedules : LeaseLapses(s)

Next ==
    \/ \E d \in Daemons : Up(d) \/ Down(d) \/ Poll(d) \/ Work(d) \/ Edit(d)
    \/ Imports
    \/ Passing

Spec == Init /\ [][Next]_vars

\* A dead daemon is started again, its scheduler polls at least every 30 s and
\* works its batch off, and time passes.
Fairness ==
    /\ \A d \in Daemons : WF_vars(Up(d)) /\ WF_vars(Poll(d)) /\ WF_vars(Work(d))
    /\ \A s \in Schedules : WF_vars(LeaseLapses(s))
    /\ WF_vars(Tick)

FairSpec == Spec /\ Fairness

-----------------------------------------------------------------------------
(* Properties.                                                             *)

\* Every variable has its type; a task has a batch exactly while it is at work.
TypeOK ==
    /\ clock \in 0..MaxTime
    /\ edits \in 0..MaxEdits
    /\ ends \in 0..MaxEnds
    /\ schedules \in [Schedules -> Row]
    /\ runs \subseteq Claim
    /\ tasks \in [Daemons -> Task]
    /\ \A d \in Daemons : tasks[d].batch = {} <=> tasks[d].pc \in {"off", "rest"}

\* A run is started only for what its schedule says at that moment: one that was
\* disabled, removed or moved since the claim starts nothing.
StartsWhatStands ==
    [][\A c \in runs' \ runs :
           /\ schedules[c.id].exists
           /\ schedules[c.id].enabled
           /\ schedules[c.id].next = c.next
           /\ c.next <= clock]_vars

\* Unless a request moves it a schedule goes on from an occurrence to the next, and
\* only when that occurrence has its run: none is skipped, and an edit made while a
\* claim is worked off is not overwritten by the claim's older copy.
NoneSkipped ==
    [][\A s \in Schedules :
           \/ edits' # edits
           \/ schedules'[s].next = schedules[s].next
           \/ /\ schedules'[s].next = schedules[s].next + 1
              /\ [id |-> s, next |-> schedules[s].next] \in runs]_vars

\* A due occurrence starts its run unless a request changes the schedule: the
\* schedules that keep failing and the leases of dead daemons do not stop it.
DueFires ==
    \A s \in Schedules \ Refused, n \in 0..MaxTime :
        LET row == schedules[s] IN
            (row.exists /\ row.enabled /\ row.next = n /\ n <= clock)
                ~> ([id |-> s, next |-> n] \in runs
                      \/ ~row.exists \/ ~row.enabled \/ row.next # n)
=============================================================================
