--------------------------- MODULE SchedulerProofs ---------------------------
(***************************************************************************)
(* What the scheduler of one daemon keeps to.  The batch it works off is a *)
(* copy of rows; the invariant says that the copy still stands: the lease  *)
(* is the daemon's, and no request comes between because none is served    *)
(* until the batch is done, and an import only adds rows.  Daemons that    *)
(* run together would break this: the theorems that need it assume         *)
(* []OneUp, which holds of one daemon, and of several commands until a     *)
(* start fails (DataDirectory).                                            *)
(***************************************************************************)
EXTENDS Scheduler, WellFoundedInduction, TLAPS

\* At most one daemon is up.
OneUp == \A d, e \in Daemons : tasks[d].pc # "off" /\ tasks[e].pc # "off" => d = e

\* What was claimed was due then, and is now.
BatchIsDue == \A d \in Daemons : \A c \in tasks[d].batch : c.next <= clock

\* The rows a batch was copied from are as they were, and leased to its daemon.
BatchStands ==
    \A d \in Daemons : \A c \in tasks[d].batch :
        LET row == schedules[c.id] IN
            row.exists /\ row.enabled /\ row.next = c.next /\ row.lease = d

\* A schedule is advanced once its run is there.
AdvanceHasRun == \A d \in Daemons : tasks[d].pc = "advance" => Head(d) \in runs

Inv ==
    /\ TypeOK
    /\ BatchIsDue
    /\ AdvanceHasRun

\* The rows keep standing in a step that one daemon, at most, is up for.
KeepsStanding == OneUp /\ BatchStands => BatchStands'

-----------------------------------------------------------------------------
(* A batch has an earliest claim.                                          *)

LEMMA LeastNat ==
  ASSUME NEW S \in SUBSET Nat, S # {}
  PROVE  \E n \in S : \A m \in S : n <= m
<1> DEFINE R == OpToRel(<, Nat)
<1>1. IsWellFoundedOn(R, Nat)
  BY NatLessThanWellFounded
<1>2. \A x, y \in Nat : x < y => <<x, y>> \in R
  BY DEF OpToRel
<1> HIDE DEF R
<1>3. PICK n \in S : \A m \in S : ~ (<<m, n>> \in R)
  BY <1>1, WFMin
<1>4. ASSUME NEW m \in S PROVE n <= m
  <2>1. n \in Nat /\ m \in Nat
    OBVIOUS
  <2>2. ~(m < n)
    BY <1>2, <1>3, <2>1, Zenon
  <2> QED BY <2>1, <2>2
<1> QED BY <1>4

LEMMA ClaimType ==
  ASSUME NEW c \in Claim
  PROVE  c.id \in Schedules /\ c.next \in Time /\ c.next \in Nat
  BY SchedulerAssumption DEF Claim, Time

LEMMA ClaimsDiffer ==
  ASSUME NEW c \in Claim, NEW o \in Claim, c.id = o.id, c.next = o.next
  PROVE  c = o
  BY DEF Claim

LEMMA HeadIsOfBatch ==
  ASSUME NEW d \in Daemons, tasks[d].batch \subseteq Claim, tasks[d].batch # {}
  PROVE  Head(d) \in tasks[d].batch
<1> DEFINE B == tasks[d].batch
           S == {c.next : c \in B}
<1>1. S \subseteq Nat /\ S # {}
  BY ClaimType
<1>2. PICK n \in S : \A m \in S : n <= m
  BY <1>1, LeastNat
<1>3. \E c \in B : \A o \in B : c.next <= o.next
  BY <1>2
<1> QED BY <1>3 DEF Head

LEMMA RowType ==
  ASSUME NEW row \in Row
  PROVE  /\ row.exists \in BOOLEAN /\ row.enabled \in BOOLEAN /\ row.next \in Time
         /\ row.lease \in Daemons \cup {NoDaemon} /\ row.lapsed \in BOOLEAN
  BY DEF Row

LEMMA TaskType ==
  ASSUME TypeOK, NEW d \in Daemons
  PROVE  /\ tasks[d] \in Task /\ tasks[d].batch \subseteq Claim
         /\ tasks[d].pc \in {"off", "rest", "start", "advance", "release"}
  BY DEF TypeOK, Task

\* The daemon's task goes on to the next claim, or to rest.
LEMMA HeadDoneType ==
  ASSUME TypeOK, NEW d \in Daemons, HeadDone(d), tasks[d].batch # {}
  PROVE  /\ tasks' \in [Daemons -> Task]
         /\ tasks'[d].batch = tasks[d].batch \ {Head(d)}
         /\ \A e \in Daemons \ {d} : tasks'[e] = tasks[e]
         /\ tasks'[d].batch = {} <=> tasks'[d].pc \in {"off", "rest"}
         /\ tasks'[d].pc # "advance"
<1>1. tasks \in [Daemons -> Task] /\ tasks[d].batch \subseteq Claim
  BY TaskType DEF TypeOK
<1> DEFINE rest == tasks[d].batch \ {Head(d)}
           next == IF rest = {} THEN Rest ELSE [pc |-> "start", batch |-> rest]
<1>2. tasks' = [tasks EXCEPT ![d] = next]
  BY DEF HeadDone
<1>3. next \in Task /\ next.batch = rest /\ next.pc \in {"rest", "start"}
      /\ (next.pc = "rest" <=> rest = {})
  BY <1>1 DEF Task, Rest
<1> HIDE DEF next
<1>4. tasks'[d] = next /\ \A e \in Daemons \ {d} : tasks'[e] = tasks[e]
  BY <1>1, <1>2
<1>5. tasks' \in [Daemons -> Task]
  BY <1>1, <1>2, <1>3
<1> QED BY <1>3, <1>4, <1>5
LEMMA FreeType ==
  ASSUME NEW row \in Row
  PROVE  /\ Free(row) \in Row /\ Free(row).next = row.next
         /\ \A n \in Time : /\ Free([row EXCEPT !.next = n]) \in Row
                            /\ Free([row EXCEPT !.next = n]).next = n
  BY DEF Row, Free

LEMMA EditedType ==
  ASSUME NEW row \in Row, NEW next \in Time, NEW enabled \in BOOLEAN
  PROVE  /\ [row EXCEPT !.next = next, !.enabled = enabled] \in Row
         /\ Free([row EXCEPT !.exists = FALSE]) \in Row
<1>1. [row EXCEPT !.next = next, !.enabled = enabled] \in Row
  BY DEF Row
<1>2. [row EXCEPT !.exists = FALSE] \in Row
  BY DEF Row
<1> QED BY <1>1, <1>2, FreeType

LEMMA NewRowType ==
  ASSUME NEW next \in Time, NEW enabled \in BOOLEAN
  PROVE  /\ NewRow(next, enabled) \in Row
         /\ [NewRow(next, enabled) EXCEPT !.exists = FALSE] \in Row
  BY DEF Row, NewRow

LEMMA IfHolderType ==
  ASSUME TypeOK, NEW d, NEW s \in Schedules, NEW row \in Row, IfHolder(d, s, row)
  PROVE  /\ schedules' \in [Schedules -> Row]
         /\ \A t \in Schedules \ {s} : schedules'[t] = schedules[t]
         /\ schedules'[s] \in {schedules[s], row}
  BY DEF TypeOK, IfHolder

-----------------------------------------------------------------------------
(* Each step keeps the invariant.                                          *)

LEMMA InitHolds == Init => Inv /\ BatchStands
<1> SUFFICES ASSUME Init PROVE Inv /\ BatchStands
  OBVIOUS
<1>1. TypeOK
  <2>1. 0 \in Time /\ TRUE \in BOOLEAN
    BY SchedulerAssumption DEF Time
  <2>2. schedules \in [Schedules -> Row]
    BY <2>1, NewRowType DEF Init
  <2> QED BY <2>2, SchedulerAssumption DEF Init, TypeOK, Task, Off
<1>2. BatchIsDue /\ BatchStands /\ AdvanceHasRun
  BY DEF Init, BatchIsDue, BatchStands, AdvanceHasRun, Off
<1> QED BY <1>1, <1>2 DEF Inv

\* The head of a batch at work, and what its task allows to conclude.
LEMMA AtWork ==
  ASSUME Inv, NEW d \in Daemons, tasks[d].pc \in {"start", "advance", "release"}
  PROVE  /\ tasks[d].batch # {} /\ tasks[d].batch \subseteq Claim
         /\ Head(d) \in tasks[d].batch /\ Head(d) \in Claim
         /\ Head(d).id \in Schedules /\ Head(d).next \in Nat
         /\ Head(d).next <= clock /\ clock \in Nat /\ clock <= MaxTime
<1>1. tasks[d].batch # {} /\ tasks[d].batch \subseteq Claim
  BY TaskType DEF Inv, TypeOK
<1>2. Head(d) \in tasks[d].batch
  BY <1>1, HeadIsOfBatch
<1> QED BY <1>1, <1>2, ClaimType, SchedulerAssumption DEF Inv, TypeOK, BatchIsDue

\* With one daemon up the others have no batch.
LEMMA OthersAreOff ==
  ASSUME Inv, OneUp, NEW d \in Daemons, tasks[d].pc # "off"
  PROVE  \A e \in Daemons \ {d} : tasks[e].batch = {}
  BY DEF OneUp, Inv, TypeOK

LEMMA PcOnly ==
  ASSUME TypeOK, NEW d \in Daemons, NEW pc \in {"start", "advance", "release"},
         tasks[d].batch # {}, tasks' = [tasks EXCEPT ![d].pc = pc]
  PROVE  /\ tasks' \in [Daemons -> Task] /\ tasks'[d].pc = pc
         /\ \A e \in Daemons : tasks'[e].batch = tasks[e].batch
         /\ \A e \in Daemons \ {d} : tasks'[e] = tasks[e]
         /\ \A e \in Daemons : tasks'[e].batch = {} <=> tasks'[e].pc \in {"off", "rest"}
<1>1. tasks \in [Daemons -> Task] /\ tasks[d] \in Task
  BY DEF TypeOK
<1> DEFINE new == [tasks[d] EXCEPT !.pc = pc]
<1>2. new \in Task /\ new.pc = pc /\ new.batch = tasks[d].batch
  BY <1>1 DEF Task
<1>3. tasks' = [tasks EXCEPT ![d] = new]
  OBVIOUS
<1> HIDE DEF new
<1>4. tasks' \in [Daemons -> Task] /\ tasks'[d] = new
      /\ \A e \in Daemons \ {d} : tasks'[e] = tasks[e]
  BY <1>1, <1>2, <1>3
<1> QED BY <1>2, <1>4 DEF TypeOK

LEMMA StartKeeps ==
  ASSUME Inv, NEW d \in Daemons, StartRun(d) \/ StartRefused(d) \/ NoOccurrence(d)
  PROVE  Inv' /\ KeepsStanding
<1>1. /\ tasks[d].pc \in {"start", "advance"} /\ UNCHANGED <<clock, edits, ends, schedules>>
      /\ \E pc \in {"advance", "release"} : tasks' = [tasks EXCEPT ![d].pc = pc]
      /\ runs \subseteq runs' /\ runs' \subseteq runs \cup {Head(d)}
  BY DEF StartRun, StartRefused, NoOccurrence
<1>2. tasks'[d].pc = "advance" => Head(d) \in runs'
  <2>1. CASE StartRun(d)
    BY <2>1 DEF StartRun
  <2>2. CASE StartRefused(d) \/ NoOccurrence(d)
    <3>1. tasks' = [tasks EXCEPT ![d].pc = "release"]
      BY <2>2 DEF StartRefused, NoOccurrence
    <3>2. tasks'[d].pc = "release"
      BY <3>1, <1>1, AtWork, PcOnly DEF Inv
    <3> QED BY <3>2
  <2> QED BY <2>1, <2>2
<1>3. /\ tasks' \in [Daemons -> Task]
      /\ \A e \in Daemons : tasks'[e].batch = tasks[e].batch
      /\ \A e \in Daemons \ {d} : tasks'[e] = tasks[e]
      /\ \A e \in Daemons : tasks'[e].batch = {} <=> tasks'[e].pc \in {"off", "rest"}
  BY <1>1, AtWork, PcOnly DEF Inv
<1>4. TypeOK'
  BY <1>1, <1>3, AtWork DEF Inv, TypeOK
<1>5. BatchIsDue' /\ KeepsStanding
  BY <1>1, <1>3 DEF Inv, BatchIsDue, BatchStands, KeepsStanding
<1>6. AdvanceHasRun'
  <2>1. \A e \in Daemons : Head(e)' = Head(e)
    BY <1>3 DEF Head
  <2> QED BY <1>1, <1>2, <1>3, <2>1 DEF Inv, AdvanceHasRun
<1> QED BY <1>4, <1>5, <1>6 DEF Inv

LEMMA HeadEndsKeeps ==
  ASSUME Inv, NEW d \in Daemons, Advance(d) \/ Release(d)
  PROVE  Inv' /\ KeepsStanding
<1>1. /\ tasks[d].pc \in {"advance", "release"} /\ HeadDone(d)
      /\ UNCHANGED <<clock, edits, ends, runs>>
  BY DEF Advance, Release
<1> DEFINE c == Head(d)
<1>2. /\ tasks[d].batch # {} /\ tasks[d].batch \subseteq Claim
      /\ c \in tasks[d].batch /\ c \in Claim /\ c.id \in Schedules
      /\ c.next \in Nat /\ c.next <= clock /\ clock \in Nat /\ clock <= MaxTime
  BY <1>1, AtWork
<1>3. c.next + 1 \in Time /\ schedules[c.id] \in Row
  BY <1>2, SchedulerAssumption DEF Time, Inv, TypeOK
<1>4. \E row \in Row : IfHolder(d, c.id, row)
  BY <1>3, FreeType DEF Advance, Release
<1>5. /\ schedules' \in [Schedules -> Row]
      /\ \A t \in Schedules \ {c.id} : schedules'[t] = schedules[t]
  BY <1>2, <1>4, IfHolderType DEF Inv
<1>6. /\ tasks' \in [Daemons -> Task]
      /\ tasks'[d].batch = tasks[d].batch \ {c}
      /\ \A e \in Daemons \ {d} : tasks'[e] = tasks[e]
      /\ tasks'[d].batch = {} <=> tasks'[d].pc \in {"off", "rest"}
      /\ tasks'[d].pc # "advance"
  BY <1>1, <1>2, HeadDoneType DEF Inv
<1> HIDE DEF c
<1>7. TypeOK'
  BY <1>1, <1>5, <1>6 DEF Inv, TypeOK
<1>8. BatchIsDue'
  BY <1>1, <1>6 DEF Inv, BatchIsDue
<1>9. KeepsStanding
  <2> SUFFICES ASSUME OneUp, BatchStands, NEW o \in tasks'[d].batch
               PROVE  schedules'[o.id] = schedules[o.id] /\ o \in tasks[d].batch
    <3>1. ASSUME OneUp PROVE \A e \in Daemons \ {d} : tasks'[e].batch = {}
      BY <1>1, <1>6, <3>1, OthersAreOff
    <3> QED BY <3>1 DEF KeepsStanding, BatchStands
  <2>1. o \in tasks[d].batch /\ o # c /\ o \in Claim /\ o.id \in Schedules
    BY <1>2, <1>6, ClaimType
  <2>2. o.next = schedules[o.id].next /\ c.next = schedules[c.id].next
    BY <1>2, <2>1 DEF Inv, BatchStands
  <2>3. o.id # c.id
    BY <1>2, <2>1, <2>2, ClaimsDiffer
  <2> QED BY <1>5, <2>1, <2>3
<1>10. AdvanceHasRun'
  <2>1. \A e \in Daemons \ {d} : Head(e)' = Head(e)
    BY <1>6 DEF Head
  <2> QED BY <1>1, <1>6, <2>1 DEF Inv, AdvanceHasRun
<1> QED BY <1>7, <1>8, <1>9, <1>10 DEF Inv

LEMMA PollKeeps ==
  ASSUME Inv, NEW d \in Daemons, Poll(d)
  PROVE  Inv' /\ KeepsStanding
<1>1. PICK due \in SUBSET Schedules :
         /\ Claims(due)
         /\ due # {}
         /\ schedules' = [s \in Schedules |->
                IF s \in due THEN [schedules[s] EXCEPT !.lease = d, !.lapsed = FALSE]
                             ELSE schedules[s]]
         /\ tasks' = [tasks EXCEPT ![d] =
                [pc |-> "start",
                 batch |-> {[id |-> s, next |-> schedules[s].next] : s \in due}]]
  BY DEF Poll
<1>2. UNCHANGED <<clock, edits, ends, runs>>
  BY DEF Poll
<1> DEFINE batch == {[id |-> s, next |-> schedules[s].next] : s \in due}
<1>3. \A s \in Schedules : schedules[s] \in Row /\ schedules[s].next \in Time
  BY RowType DEF Inv, TypeOK
<1>4. batch \in SUBSET Claim /\ batch # {}
  <2>1. \A s \in due : [id |-> s, next |-> schedules[s].next] \in Claim
    BY <1>3 DEF Claim
  <2>2. \E s \in due : TRUE
    BY <1>1
  <2> QED BY <2>1, <2>2
<1>5. \A c \in batch : c.id \in due /\ c.next = schedules[c.id].next
  OBVIOUS
<1> HIDE DEF batch
<1>6. /\ tasks' \in [Daemons -> Task] /\ tasks'[d] = [pc |-> "start", batch |-> batch]
      /\ \A e \in Daemons \ {d} : tasks'[e] = tasks[e]
  <2>1. [pc |-> "start", batch |-> batch] \in Task /\ tasks \in [Daemons -> Task]
    BY <1>4 DEF Task, Inv, TypeOK
  <2>2. tasks' = [tasks EXCEPT ![d] = [pc |-> "start", batch |-> batch]]
    BY <1>1 DEF batch
  <2> QED BY <2>1, <2>2
<1>7. \A s \in Schedules : schedules'[s] \in Row
  <2> TAKE s \in Schedules
  <2>1. [schedules[s] EXCEPT !.lease = d, !.lapsed = FALSE] \in Row
    BY <1>3 DEF Row
  <2> QED BY <1>1, <1>3, <2>1
<1>8. TypeOK'
  <2>1. schedules' \in [Schedules -> Row]
    BY <1>1, <1>7
  <2>2. \A e \in Daemons : tasks'[e].batch = {} <=> tasks'[e].pc \in {"off", "rest"}
    BY <1>4, <1>6 DEF Inv, TypeOK
  <2> QED BY <1>2, <1>6, <2>1, <2>2 DEF Inv, TypeOK
<1>9. BatchIsDue'
  <2>1. \A s \in due : schedules[s].next <= clock
    BY <1>1 DEF Claims, Claimable
  <2> QED BY <1>2, <1>5, <1>6, <2>1 DEF Inv, BatchIsDue
<1>10. KeepsStanding
  <2> SUFFICES ASSUME OneUp, NEW c \in batch
               PROVE  LET row == schedules'[c.id] IN
                          row.exists /\ row.enabled /\ row.next = c.next /\ row.lease = d
    <3>1. ASSUME OneUp PROVE \A e \in Daemons \ {d} : tasks'[e].batch = {}
      BY <1>6, <3>1, OthersAreOff DEF Poll
    <3> QED BY <1>6, <3>1 DEF KeepsStanding, BatchStands
  <2>1. /\ c.id \in Schedules /\ schedules[c.id].exists /\ schedules[c.id].enabled
        /\ schedules[c.id] \in Row
    BY <1>1, <1>3, <1>5 DEF Claims, Claimable
  <2>2. schedules'[c.id] = [schedules[c.id] EXCEPT !.lease = d, !.lapsed = FALSE]
    BY <1>1, <1>5
  <2> QED BY <1>5, <2>1, <2>2 DEF Row
<1>11. AdvanceHasRun'
  <2>1. \A e \in Daemons \ {d} : Head(e)' = Head(e)
    BY <1>6 DEF Head
  <2> QED BY <1>2, <1>6, <2>1 DEF Inv, AdvanceHasRun
<1> QED BY <1>8, <1>9, <1>10, <1>11 DEF Inv

\* A request finds its daemon's batch empty.
LEMMA EditKeeps ==
  ASSUME Inv, NEW d \in Daemons, Edit(d)
  PROVE  Inv' /\ KeepsStanding
<1>1. /\ tasks[d].pc = "rest" /\ edits < MaxEdits /\ edits' = edits + 1
      /\ UNCHANGED <<clock, ends, runs, tasks>>
  BY DEF Edit, Create, Update, Remove, Request
<1>2. tasks[d].batch = {}
  BY <1>1 DEF Inv, TypeOK
<1>3. \E s \in Schedules : \E row \in Row : schedules' = [schedules EXCEPT ![s] = row]
  <2>1. ASSUME NEW s \in Schedules, Remove(d, s)
        PROVE  schedules' = [schedules EXCEPT ![s] =
                   Free([schedules[s] EXCEPT !.exists = FALSE])]
    BY <2>1 DEF Remove, Inv, TypeOK
  <2>2. \A s \in Schedules, next \in Time, enabled \in BOOLEAN :
           /\ [schedules[s] EXCEPT !.next = next, !.enabled = enabled] \in Row
           /\ Free([schedules[s] EXCEPT !.exists = FALSE]) \in Row
    BY EditedType DEF Inv, TypeOK
  <2>3. CASE \E s \in Schedules, next \in Time, enabled \in BOOLEAN :
                Update(d, s, next, enabled)
    <3>1. PICK s \in Schedules, next \in Time, enabled \in BOOLEAN :
              Update(d, s, next, enabled)
      BY <2>3
    <3> DEFINE row == [schedules[s] EXCEPT !.next = next, !.enabled = enabled]
    <3>2. row \in Row
      BY <2>2
    <3>3. schedules' = [schedules EXCEPT ![s] = row]
      BY <3>1 DEF Update, Inv, TypeOK
    <3> HIDE DEF row
    <3> QED BY <3>2, <3>3
  <2>4. CASE \E s \in Schedules : Remove(d, s)
    <3>1. PICK s \in Schedules : Remove(d, s)
      BY <2>4
    <3>2. 0 \in Time /\ TRUE \in BOOLEAN
      BY SchedulerAssumption DEF Time
    <3> QED BY <2>1, <2>2, <3>1, <3>2
  <2>5. CASE \E s \in Schedules, next \in Time, enabled \in BOOLEAN :
                Create(d, s, next, enabled)
    BY <2>5, NewRowType DEF Create
  <2> QED BY <2>3, <2>4, <2>5 DEF Edit
<1>4. TypeOK'
  BY <1>1, <1>3, SchedulerAssumption DEF Inv, TypeOK
<1>5. BatchIsDue' /\ AdvanceHasRun'
  BY <1>1 DEF Inv, BatchIsDue, AdvanceHasRun, Head
<1>6. KeepsStanding
  BY <1>1, <1>2, OthersAreOff DEF KeepsStanding, BatchStands
<1> QED BY <1>4, <1>5, <1>6 DEF Inv

\* An import adds a row that no batch was copied from.
LEMMA ImportKeeps ==
  ASSUME Inv, Imports
  PROVE  Inv' /\ KeepsStanding
<1>1. PICK s \in Schedules, next \in Time, enabled \in BOOLEAN : Import(s, next, enabled)
  BY DEF Imports
<1>2. /\ edits < MaxEdits /\ edits' = edits + 1
      /\ UNCHANGED <<clock, ends, runs, tasks>>
      /\ schedules' = [schedules EXCEPT ![s] = NewRow(next, enabled)]
      /\ \A d \in Daemons : \A c \in tasks[d].batch : c.id # s
  BY <1>1 DEF Import, Unused
<1>3. NewRow(next, enabled) \in Row
  BY NewRowType
<1>4. TypeOK'
  BY <1>2, <1>3, SchedulerAssumption DEF Inv, TypeOK
<1>5. BatchIsDue' /\ AdvanceHasRun'
  BY <1>2 DEF Inv, BatchIsDue, AdvanceHasRun, Head
<1>6. KeepsStanding
  <2>1. \A d \in Daemons : \A c \in tasks[d].batch : c.id \in Schedules
    BY TaskType, ClaimType DEF Inv
  <2> QED BY <1>2, <2>1 DEF KeepsStanding, BatchStands, Inv, TypeOK
<1> QED BY <1>4, <1>5, <1>6 DEF Inv

\* A daemon that starts or ends has no batch.
LEMMA UpDownKeeps ==
  ASSUME Inv, NEW d \in Daemons, Up(d) \/ Down(d)
  PROVE  Inv' /\ KeepsStanding
<1>1. /\ UNCHANGED <<clock, edits, schedules, runs>>
      /\ \E new \in {Off, Rest} : tasks' = [tasks EXCEPT ![d] = new]
      /\ ends' = ends \/ (ends < MaxEnds /\ ends' = ends + 1)
  BY DEF Up, Down
<1>2. /\ tasks' \in [Daemons -> Task] /\ tasks'[d].batch = {}
      /\ tasks'[d].pc \in {"off", "rest"}
      /\ \A e \in Daemons \ {d} : tasks'[e] = tasks[e]
  BY <1>1 DEF Off, Rest, Task, Inv, TypeOK
<1>3. TypeOK'
  BY <1>1, <1>2, SchedulerAssumption DEF Inv, TypeOK
<1>4. BatchIsDue' /\ KeepsStanding
  BY <1>1, <1>2 DEF Inv, BatchIsDue, BatchStands, KeepsStanding
<1>5. AdvanceHasRun'
  <2>1. \A e \in Daemons \ {d} : Head(e)' = Head(e)
    BY <1>2 DEF Head
  <2> QED BY <1>1, <1>2, <2>1 DEF Inv, AdvanceHasRun
<1> QED BY <1>3, <1>4, <1>5 DEF Inv

LEMMA LapseKeeps ==
  ASSUME Inv, NEW s \in Schedules, LeaseLapses(s)
  PROVE  Inv' /\ KeepsStanding
<1>1. /\ UNCHANGED <<clock, edits, ends, runs, tasks>>
      /\ schedules' = [schedules EXCEPT ![s] = [schedules[s] EXCEPT !.lapsed = TRUE]]
  BY DEF LeaseLapses, Inv, TypeOK
<1> DEFINE new == [schedules[s] EXCEPT !.lapsed = TRUE]
<1>2. /\ new \in Row /\ new.exists = schedules[s].exists /\ new.next = schedules[s].next
      /\ new.enabled = schedules[s].enabled /\ new.lease = schedules[s].lease
  BY DEF Row, Inv, TypeOK
<1> HIDE DEF new
<1>3. /\ schedules' \in [Schedules -> Row] /\ schedules'[s] = new
      /\ \A t \in Schedules \ {s} : schedules'[t] = schedules[t]
  BY <1>1, <1>2 DEF Inv, TypeOK, new
<1>4. TypeOK'
  BY <1>1, <1>3 DEF Inv, TypeOK
<1>5. BatchIsDue' /\ AdvanceHasRun'
  BY <1>1 DEF Inv, BatchIsDue, AdvanceHasRun, Head
<1>6. KeepsStanding
  <2>1. \A d \in Daemons : \A c \in tasks[d].batch : c.id \in Schedules
    BY TaskType, ClaimType DEF Inv
  <2> QED BY <1>1, <1>2, <1>3, <2>1 DEF BatchStands, KeepsStanding
<1> QED BY <1>4, <1>5, <1>6 DEF Inv

LEMMA TickKeeps ==
  ASSUME Inv, Tick
  PROVE  Inv' /\ KeepsStanding
<1>1. /\ UNCHANGED <<edits, ends, schedules, runs, tasks>>
      /\ clock < MaxTime /\ clock' = clock + 1 /\ clock \in Nat
  BY SchedulerAssumption DEF Tick, Inv, TypeOK
<1>2. TypeOK'
  BY <1>1, SchedulerAssumption DEF Inv, TypeOK
<1>3. BatchIsDue'
  <2>1. \A d \in Daemons : \A c \in tasks[d].batch : c.next \in Nat
    BY TaskType, ClaimType DEF Inv
  <2> QED BY <1>1, <2>1 DEF Inv, BatchIsDue
<1>4. AdvanceHasRun' /\ KeepsStanding
  BY <1>1 DEF Inv, AdvanceHasRun, BatchStands, KeepsStanding, Head
<1> QED BY <1>2, <1>3, <1>4 DEF Inv

LEMMA StepKeeps == Inv /\ [Next]_vars => Inv' /\ KeepsStanding
<1> SUFFICES ASSUME Inv, [Next]_vars PROVE Inv' /\ KeepsStanding
  OBVIOUS
<1>1. CASE UNCHANGED vars
  BY <1>1 DEF vars, Inv, TypeOK, BatchIsDue, BatchStands, AdvanceHasRun, Head, KeepsStanding
<1>2. ASSUME NEW d \in Daemons, Up(d) \/ Down(d) \/ Poll(d) \/ Work(d) \/ Edit(d)
      PROVE  Inv' /\ KeepsStanding
  BY <1>2, UpDownKeeps, PollKeeps, StartKeeps, HeadEndsKeeps, EditKeeps DEF Work
<1>3. CASE Passing
  BY <1>3, TickKeeps, LapseKeeps DEF Passing
<1>4. CASE Imports
  BY <1>4, ImportKeeps
<1> QED BY <1>1, <1>2, <1>3, <1>4 DEF Next

-----------------------------------------------------------------------------
\* Rows, tasks and claims keep their shape, a batch is due, and what is about to be
\* advanced has its run.
THEOREM Invariance == Spec => []Inv
<1> QED BY InitHolds, StepKeeps, PTL DEF Spec

\* Every variable has its type, for any number of daemons and schedules.
THEOREM TypeCorrect == Spec => []TypeOK
<1>1. Inv => TypeOK
  BY DEF Inv
<1> QED BY <1>1, Invariance, PTL

\* While one daemon is up at a time, the rows a batch was copied from still stand: no
\* request and no other daemon comes between.
THEOREM BatchesStand == Spec /\ []OneUp => []BatchStands
<1>1. Inv /\ OneUp /\ BatchStands /\ [Next]_vars => BatchStands'
  BY StepKeeps DEF KeepsStanding
<1> QED BY <1>1, InitHolds, Invariance, PTL DEF Spec

\* The rows of the head of a batch are as they were when it was claimed.
LEMMA HeadStands ==
  ASSUME Inv, BatchStands, NEW d \in Daemons,
         tasks[d].pc \in {"start", "advance", "release"}
  PROVE  /\ schedules[Head(d).id].exists /\ schedules[Head(d).id].enabled
         /\ schedules[Head(d).id].next = Head(d).next
  BY AtWork DEF BatchStands

\* A step that starts a run starts one for what its schedule says at that moment.
LEMMA StartStands ==
  ASSUME Inv, BatchStands, [Next]_vars, NEW c \in runs' \ runs
  PROVE  /\ schedules[c.id].exists /\ schedules[c.id].enabled
         /\ schedules[c.id].next = c.next /\ c.next <= clock
<1>1. PICK d \in Daemons : StartRun(d)
  BY DEF Next, vars, Up, Down, Poll, Work, StartRefused, Advance, NoOccurrence, Release, Edit,
         Create, Update, Remove, Imports, Import, Passing, Tick, LeaseLapses
<1>2. c = Head(d) /\ tasks[d].pc = "start"
  BY <1>1 DEF StartRun
<1> QED BY <1>2, AtWork, HeadStands

\* While one daemon is up at a time a run is started only for what its schedule says at that moment.
THEOREM OneStartsWhatStands == Spec /\ []OneUp => StartsWhatStands
<1>1. Inv /\ BatchStands /\ [Next]_vars =>
        [\A c \in runs' \ runs :
            /\ schedules[c.id].exists
            /\ schedules[c.id].enabled
            /\ schedules[c.id].next = c.next
            /\ c.next <= clock]_vars
  BY StartStands
<1> QED BY <1>1, Invariance, BatchesStand, PTL DEF Spec, StartsWhatStands

\* A step that moves a schedule, and is not a request's or an import's, moves it from an occurrence
\* that has its run to the next.
LEMMA AdvanceStands ==
  ASSUME Inv, BatchStands, [Next]_vars, NEW s \in Schedules, edits' = edits,
         schedules'[s].next # schedules[s].next
  PROVE  /\ schedules'[s].next = schedules[s].next + 1
         /\ [id |-> s, next |-> schedules[s].next] \in runs
<1>1. \A t \in Schedules : schedules[t] \in Row
  BY DEF Inv, TypeOK
<1>2. PICK d \in Daemons : Advance(d)
  <2>1. ASSUME NEW d \in Daemons, Release(d) PROVE FALSE
    <3>1. Head(d).id \in Schedules
      BY <2>1, AtWork DEF Release
    <3>2. schedules[Head(d).id] \in Row
      BY <1>1, <3>1
    <3> DEFINE new == Free(schedules[Head(d).id])
    <3>3. new \in Row /\ new.next = schedules[Head(d).id].next
      BY <3>2, FreeType
    <3>4. IfHolder(d, Head(d).id, new)
      BY <2>1 DEF Release
    <3> HIDE DEF new
    <3> QED BY <3>1, <3>3, <3>4, IfHolderType DEF Inv
  <2>2. ASSUME NEW d \in Daemons, Poll(d) PROVE FALSE
    <3>1. schedules'[s] = schedules[s]
          \/ schedules'[s] = [schedules[s] EXCEPT !.lease = d, !.lapsed = FALSE]
      BY <2>2 DEF Poll
    <3>2. [schedules[s] EXCEPT !.lease = d, !.lapsed = FALSE].next = schedules[s].next
      BY <1>1 DEF Row
    <3> QED BY <3>1, <3>2
  <2>3. ASSUME NEW t \in Schedules, LeaseLapses(t) PROVE FALSE
    BY <1>1, <2>3 DEF LeaseLapses, Inv, TypeOK, Row
  <2>4. edits \in Nat
    BY SchedulerAssumption DEF Inv, TypeOK
  <2>5. ASSUME NEW d \in Daemons, Edit(d) PROVE FALSE
    <3>1. edits' = edits + 1
      BY <2>5 DEF Edit, Create, Update, Remove, Request
    <3> QED BY <2>4, <3>1
  <2>6. ASSUME Imports PROVE FALSE
    BY <2>4, <2>6 DEF Imports, Import
  <2> QED BY <2>1, <2>2, <2>3, <2>5, <2>6
          DEF Next, vars, Up, Down, Work, StartRun, StartRefused, NoOccurrence, Passing,
              Tick
<1> DEFINE c == Head(d)
<1>3. /\ tasks[d].pc = "advance" /\ c \in Claim /\ c.id \in Schedules /\ c.next \in Nat
      /\ c \in runs /\ c.next <= MaxTime
  BY <1>2, AtWork, SchedulerAssumption DEF Advance, Inv, AdvanceHasRun
<1>4. c.next = schedules[c.id].next
  BY <1>3, HeadStands
<1> DEFINE new == Free([schedules[c.id] EXCEPT !.next = c.next + 1])
<1>5. new \in Row /\ new.next = c.next + 1
  <2>1. c.next + 1 \in Time
    BY <1>3, SchedulerAssumption DEF Time
  <2>2. schedules[c.id] \in Row
    BY <1>1, <1>3
  <2> QED BY <2>1, <2>2, FreeType
<1>6. IfHolder(d, c.id, new)
  BY <1>2 DEF Advance
<1> HIDE DEF c, new
<1>7. s = c.id /\ schedules'[s] = new
  BY <1>3, <1>5, <1>6, IfHolderType DEF Inv
<1>8. [id |-> s, next |-> schedules[s].next] = c
  BY <1>3, <1>4, <1>7 DEF Claim
<1> QED BY <1>3, <1>4, <1>5, <1>7, <1>8

\* While one daemon is up at a time no occurrence is skipped: a schedule goes on to the
\* next once the last has its run.
THEOREM OneSkipsNone == Spec /\ []OneUp => NoneSkipped
<1>1. Inv /\ BatchStands /\ [Next]_vars =>
        [\A s \in Schedules :
           \/ edits' # edits
           \/ schedules'[s].next = schedules[s].next
           \/ /\ schedules'[s].next = schedules[s].next + 1
              /\ [id |-> s, next |-> schedules[s].next] \in runs]_vars
  BY AdvanceStands
<1> QED BY <1>1, Invariance, BatchesStand, PTL DEF Spec, NoneSkipped
=============================================================================
