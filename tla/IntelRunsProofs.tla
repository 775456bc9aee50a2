---------------------------- MODULE IntelRunsProofs ----------------------------
(***************************************************************************)
(* Theorems about IntelRuns, for any number of runs, goroutines, crashes,  *)
(* shutdowns and errors.                                                   *)
(*                                                                         *)
(* A row is changed by the one worker that has it, by a cancellation of a  *)
(* queued run, or while no worker exists: so what a worker knows of its    *)
(* run stays true between its transactions.                                *)
(***************************************************************************)
EXTENDS IntelRuns, FiniteSetTheorems, TLAPS

\* Somebody asked for the run to end, or shut the daemon down.
Cause(r) == runs[r].cancelRequested \/ shutdowns > 0

Has(w, r) == HasRun(w) /\ workers[w].run = r

\* Workers and handlers exist while the server does, and share no run.
Hands ==
    /\ \A w \in Workers : HasRun(w) => workers[w].run \in Runs
    /\ \A w, v \in Workers : HasRun(w) /\ HasRun(v) /\ workers[w].run = workers[v].run
                                 => w = v
    /\ ~Serving => cancelling = {} /\ \A w \in Workers : ~HasRun(w)
    /\ phase # "reconcile" => pending = {}
    /\ phase = "closing" => shutdowns > 0

\* What a worker knows of its run between two of its transactions.
Knows ==
    \A w \in Workers, r \in Runs : Has(w, r) =>
        /\ workers[w].pc # "leave" => runs[r].status = "running"
        /\ workers[w].pc = "leave" => runs[r].status \in {"running"} \cup Terminal
        /\ workers[w].pc = "leave" /\ runs[r].status = "running" => errors > 0
        /\ workers[w].pc = "complete" => r \in evidence
        /\ workers[w].cancelled \/ workers[w].pc = "mark_cancelled" => Cause(r)

\* What a row says, whoever has the run.
Rows ==
    \A r \in Runs :
        /\ runs[r].status \in {"absent", "queued"} => ~runs[r].cancelRequested
        /\ r \in cancelling => runs[r].cancelRequested
        /\ runs[r].status = "cancelled" => Cause(r)
        /\ r \in pending => runs[r].status = "queued"
        /\ phase = "reconcile" => runs[r].status # "running"
        /\ phase = "ready" /\ runs[r].status = "running" =>
               errors > 0 \/ \E w \in Workers : Has(w, r)

\* Where published evidence may be.
Published ==
    \A r \in Runs :
        /\ runs[r].status = "absent" => r \notin evidence
        /\ runs[r].status = "succeeded" => r \in evidence
        /\ runs[r].status = "queued" /\ r \in evidence =>
               runs[r].recovered /\ ~Serving /\ (phase = "reconcile" => r \in pending)

\* Without crashes and errors published evidence has a report, or a worker about to
\* write one or to take the evidence back.
Clean ==
    crashes + errors = 0 => \A r \in Runs : r \in evidence =>
        \/ runs[r].status = "succeeded"
        \/ \E w \in Workers : Has(w, r) /\ workers[w].pc \in {"complete", "discard", "conflict"}

IInv ==
    /\ TypeOK
    /\ Hands
    /\ Knows
    /\ Rows
    /\ Published
    /\ Clean
    /\ CancelReachesAnalysis

-----------------------------------------------------------------------------
(* Records.                                                                *)

LEMMA RowFields ==
  ASSUME TypeOK, NEW r \in Runs
  PROVE  /\ runs[r] \in Run /\ runs[r].status \in Status
         /\ runs[r].recovered \in BOOLEAN /\ runs[r].cancelRequested \in BOOLEAN
  BY DEF TypeOK, Run

LEMMA WorkerFields ==
  ASSUME TypeOK, NEW w \in Workers
  PROVE  /\ workers[w] \in Worker /\ workers[w].pc \in Pc
         /\ workers[w].run \in Runs \cup {NoRun} /\ workers[w].cancelled \in BOOLEAN
  BY DEF TypeOK, Worker

LEMMA IdleFields ==
  IdleWorker \in Worker /\ IdleWorker.pc = "poll" /\ ~IdleWorker.cancelled
  BY DEF IdleWorker, Worker, Pc

\* A goroutine's record changes, and no other.
LEMMA OneWorkerChanges ==
  ASSUME TypeOK, NEW w \in Workers, NEW next \in Worker,
         workers' = [workers EXCEPT ![w] = next]
  PROVE  /\ workers' \in [Workers -> Worker] /\ workers'[w] = next
         /\ \A v \in Workers : v # w => workers'[v] = workers[v]
  BY DEF TypeOK

LEMMA GoesTo ==
  ASSUME TypeOK, NEW w \in Workers, NEW pc \in Pc, GoTo(w, pc)
  PROVE  \E next \in Worker :
             /\ workers' = [workers EXCEPT ![w] = next]
             /\ next.pc = pc /\ next.run = workers[w].run
             /\ next.cancelled = workers[w].cancelled
<1> DEFINE next == [workers[w] EXCEPT !.pc = pc]
<1>1. workers[w] \in Worker
  BY WorkerFields
<1>2. /\ next \in Worker /\ next.pc = pc /\ next.run = workers[w].run
      /\ next.cancelled = workers[w].cancelled
  BY <1>1 DEF Worker
<1>3. workers' = [workers EXCEPT ![w] = next]
  BY DEF GoTo, TypeOK
<1> QED BY <1>2, <1>3

\* The status of one row changes.
LEMMA StatusSet ==
  ASSUME TypeOK, NEW r \in Runs, NEW status \in Status,
         runs' = [runs EXCEPT ![r].status = status]
  PROVE  /\ runs' \in [Runs -> Run] /\ runs'[r].status = status
         /\ runs'[r].recovered = runs[r].recovered
         /\ runs'[r].cancelRequested = runs[r].cancelRequested
         /\ \A q \in Runs : q # r => runs'[q] = runs[q]
  BY DEF TypeOK, Run

LEMMA InitHolds ==
  ASSUME Init
  PROVE  IInv
<1>1. \A w \in Workers : ~HasRun(w)
  BY IdleFields DEF Init, HasRun
<1>2. \A r \in Runs : runs[r].status = "absent" /\ ~runs[r].cancelRequested
  BY DEF Init
<1>3. TypeOK
  BY IdleFields DEF Init, TypeOK, Run, Status
<1>4. Hands
  BY <1>1 DEF Init, Hands, Serving
<1>5. Knows
  BY <1>1 DEF Knows, Has
<1>6. Rows
  BY <1>2 DEF Init, Rows
<1>7. Published /\ Clean
  BY <1>2 DEF Init, Published, Clean
<1>8. CancelReachesAnalysis
  BY <1>1 DEF CancelReachesAnalysis, HasRun
<1> QED BY <1>3, <1>4, <1>5, <1>6, <1>7, <1>8 DEF IInv

-----------------------------------------------------------------------------
(* A worker's step: its own record changes, its run's row and evidence may. *)

\* What the invariant asks of such a step; next is the worker's new record.
Moves(w, r, next) ==
    /\ Serving /\ Has(w, r) /\ SameDaemon /\ UNCHANGED cancelling
    /\ errors' \in Nat /\ errors' >= errors
    /\ next \in Worker
    /\ workers' = [workers EXCEPT ![w] = next]
    /\ runs' \in [Runs -> Run] /\ evidence' \in SUBSET Runs
    /\ \A q \in Runs : q # r => runs'[q] = runs[q] /\ (q \in evidence' <=> q \in evidence)
    /\ runs'[r].cancelRequested = runs[r].cancelRequested
    /\ runs'[r].status \in {"running"} \cup Terminal
    /\ runs'[r].status = "cancelled" => Cause(r)
    /\ runs'[r].status = "succeeded" => r \in evidence'
    /\ next.pc = "poll" /\ runs'[r].status = "running" => errors' > 0 \/ phase = "closing"
    /\ next.pc # "poll" => next.run = r
    /\ next.pc \notin {"poll", "leave"} => runs'[r].status = "running"
    /\ next.pc = "leave" /\ runs'[r].status = "running" => errors' > 0
    /\ next.pc = "complete" => r \in evidence'
    /\ next.cancelled \/ next.pc = "mark_cancelled" => Cause(r) \/ next.pc = "poll"
    /\ crashes + errors' = 0 /\ r \in evidence' =>
           runs'[r].status = "succeeded" \/ next.pc \in {"complete", "discard", "conflict"}
    /\ next.pc = "analyze" /\ runs[r].cancelRequested /\ r \notin cancelling =>
           next.cancelled \/ errors' > 0

LEMMA MoveKeeps ==
  ASSUME IInv, NEW w \in Workers, NEW r \in Runs, NEW next, Moves(w, r, next)
  PROVE  IInv'
<1>1. /\ TypeOK /\ Hands /\ Knows /\ Rows /\ Published /\ Clean /\ CancelReachesAnalysis
      /\ Serving /\ HasRun(w) /\ workers[w].run = r /\ next \in Worker
      /\ phase' = phase /\ pending' = pending /\ crashes' = crashes /\ shutdowns' = shutdowns
      /\ cancelling' = cancelling /\ errors' \in Nat /\ errors' >= errors
      /\ runs' \in [Runs -> Run] /\ evidence' \in SUBSET Runs
      /\ \A q \in Runs : q # r => runs'[q] = runs[q] /\ (q \in evidence' <=> q \in evidence)
      /\ runs'[r].cancelRequested = runs[r].cancelRequested
      /\ runs'[r].status \in {"running"} \cup Terminal
      /\ errors \in Nat /\ crashes \in Nat
  BY DEF IInv, Moves, SameDaemon, Has, TypeOK
<1>2. /\ workers' \in [Workers -> Worker] /\ workers'[w] = next
      /\ \A v \in Workers : v # w => workers'[v] = workers[v]
  BY <1>1, OneWorkerChanges DEF Moves
<1>3. \A v \in Workers : v # w /\ HasRun(v) => workers[v].run \in Runs \ {r}
  BY <1>1 DEF Hands
<1>4. /\ Serving' <=> Serving
      /\ \A v \in Workers : v # w => (HasRun(v)' <=> HasRun(v))
      /\ \A v \in Workers, q \in Runs : v # w => (Has(v, q)' <=> Has(v, q))
      /\ HasRun(w)' => next.pc # "poll" /\ next.run = r
      /\ \A q \in Runs : Cause(q)' <=> Cause(q)
  BY <1>1, <1>2 DEF Serving, HasRun, Has, Cause, Moves
<1>5. TypeOK'
  BY <1>1, <1>2 DEF TypeOK
<1>6. Hands'
  BY <1>1, <1>2, <1>3, <1>4 DEF Hands
<1>7. Knows'
  <2> SUFFICES ASSUME NEW v \in Workers, NEW q \in Runs, Has(v, q)'
               PROVE  /\ workers'[v].pc # "leave" => runs'[q].status = "running"
                      /\ workers'[v].pc = "leave" => runs'[q].status \in {"running"} \cup Terminal
                      /\ workers'[v].pc = "leave" /\ runs'[q].status = "running" => errors' > 0
                      /\ workers'[v].pc = "complete" => q \in evidence'
                      /\ workers'[v].cancelled \/ workers'[v].pc = "mark_cancelled" => Cause(q)'
    BY DEF Knows
  <2>1. CASE v = w
    <3>1. q = r /\ next.pc # "poll"
      BY <1>2, <1>4, <2>1 DEF Has, HasRun
    <3> QED BY <1>1, <1>2, <1>4, <2>1, <3>1 DEF Moves
  <2>2. CASE v # w
    <3>1. q # r /\ Has(v, q)
      BY <1>3, <1>4, <2>2 DEF Has
    <3> QED BY <1>1, <1>2, <1>4, <2>2, <3>1 DEF Knows
  <2> QED BY <2>1, <2>2
<1>8. Rows'
  <2> SUFFICES ASSUME NEW q \in Runs
               PROVE  /\ runs'[q].status \in {"absent", "queued"} => ~runs'[q].cancelRequested
                      /\ q \in cancelling' => runs'[q].cancelRequested
                      /\ runs'[q].status = "cancelled" => Cause(q)'
                      /\ q \in pending' => runs'[q].status = "queued"
                      /\ phase' = "reconcile" => runs'[q].status # "running"
                      /\ phase' = "ready" /\ runs'[q].status = "running" =>
                             errors' > 0 \/ \E v \in Workers : Has(v, q)'
    BY DEF Rows
  <2>1. CASE q = r
    <3>1. runs'[r].status \notin {"absent", "queued"}
      BY <1>1 DEF Terminal
    <3>2. q \notin pending
      BY <1>1 DEF Hands, Serving
    <3>3. phase = "ready" /\ runs'[r].status = "running" =>
              errors' > 0 \/ (next.pc # "poll" /\ next.run = r)
      BY DEF Moves
    <3>4. phase = "ready" /\ runs'[r].status = "running" => errors' > 0 \/ Has(w, r)'
      BY <1>2, <3>3 DEF Has, HasRun
    <3>5. runs'[r].status = "cancelled" => Cause(r)
      BY DEF Moves
    <3> QED BY <1>1, <1>4, <2>1, <3>1, <3>2, <3>4, <3>5 DEF Rows, Serving
  <2>2. CASE q # r
    <3>1. \A v \in Workers : Has(v, q) => Has(v, q)'
      BY <1>1, <1>4, <2>2 DEF Has
    <3> QED BY <1>1, <1>4, <2>2, <3>1 DEF Rows
  <2> QED BY <2>1, <2>2
<1>9. Published'
  <2>1. runs'[r].status \notin {"absent", "queued"}
    BY <1>1 DEF Terminal
  <2>2. runs'[r].status = "succeeded" => r \in evidence'
    BY DEF Moves
  <2> QED BY <1>1, <1>4, <2>1, <2>2 DEF Published
<1>10. Clean'
  <2> SUFFICES ASSUME crashes + errors' = 0, NEW q \in Runs, q \in evidence'
               PROVE  \/ runs'[q].status = "succeeded"
                      \/ \E v \in Workers : /\ Has(v, q)'
                                            /\ workers'[v].pc \in {"complete", "discard", "conflict"}
    BY <1>1 DEF Clean
  <2>1. CASE q = r
    <3>1. runs'[r].status = "succeeded" \/ next.pc \in {"complete", "discard", "conflict"}
      BY <2>1 DEF Moves
    <3>2. next.pc \in {"complete", "discard", "conflict"} => Has(w, r)'
      BY <1>2 DEF Has, HasRun, Moves
    <3> QED BY <1>2, <2>1, <3>1, <3>2
  <2>2. CASE q # r
    <3>1. crashes + errors = 0
      BY <1>1
    <3>2. CASE runs[q].status = "succeeded"
      BY <1>1, <2>2, <3>2
    <3>3. ASSUME NEW v \in Workers, Has(v, q),
                 workers[v].pc \in {"complete", "discard", "conflict"}
          PROVE  Has(v, q)' /\ workers'[v].pc \in {"complete", "discard", "conflict"}
      <4>1. v # w
        BY <1>1, <2>2, <3>3 DEF Has
      <4> QED BY <1>2, <1>4, <3>3, <4>1
    <3> QED BY <1>1, <2>2, <3>1, <3>2, <3>3 DEF Clean
  <2> QED BY <2>1, <2>2
<1>11. CancelReachesAnalysis'
  <2> SUFFICES ASSUME NEW v \in Workers, workers'[v].pc = "analyze",
                      runs'[workers'[v].run].cancelRequested,
                      workers'[v].run \notin cancelling'
               PROVE  workers'[v].cancelled \/ errors' > 0
    BY DEF CancelReachesAnalysis
  <2>1. CASE v = w
    <3>1. next.pc = "analyze" /\ next.run = r
      BY <1>2, <2>1 DEF Moves
    <3> QED BY <1>1, <1>2, <2>1, <3>1 DEF Moves
  <2>2. CASE v # w
    <3>1. workers'[v] = workers[v] /\ HasRun(v)
      BY <1>2, <2>2 DEF HasRun
    <3>2. workers[v].run \in Runs /\ workers[v].run # r
      BY <1>3, <2>2, <3>1
    <3> QED BY <1>1, <3>1, <3>2 DEF CancelReachesAnalysis
  <2> QED BY <2>1, <2>2
<1> QED BY <1>5, <1>6, <1>7, <1>8, <1>9, <1>10, <1>11 DEF IInv

\* What a worker knows, for the run it has.
LEMMA Knowledge ==
  ASSUME IInv, NEW w \in Workers, HasRun(w)
  PROVE  /\ workers[w].run \in Runs /\ Has(w, workers[w].run)
         /\ workers[w].pc # "leave" => runs[workers[w].run].status = "running"
         /\ workers[w].pc = "leave" => runs[workers[w].run].status \in {"running"} \cup Terminal
         /\ workers[w].pc = "leave" /\ runs[workers[w].run].status = "running" => errors > 0
         /\ workers[w].pc = "complete" => workers[w].run \in evidence
         /\ workers[w].cancelled \/ workers[w].pc = "mark_cancelled" => Cause(workers[w].run)
<1>1. workers[w].run \in Runs /\ Has(w, workers[w].run)
  BY DEF IInv, Hands, Has
<1> QED BY <1>1 DEF IInv, Knows

\* Without crashes and errors a worker finds evidence only where it put it.
LEMMA NoneLeftBehind ==
  ASSUME IInv, NEW w \in Workers, HasRun(w), crashes + errors = 0,
         workers[w].run \in evidence
  PROVE  \/ runs[workers[w].run].status = "succeeded"
         \/ workers[w].pc \in {"complete", "discard", "conflict"}
<1>1. workers[w].run \in Runs
  BY Knowledge
<1>2. CASE runs[workers[w].run].status = "succeeded"
  BY <1>2
<1>3. ASSUME NEW v \in Workers, Has(v, workers[w].run),
             workers[v].pc \in {"complete", "discard", "conflict"}
      PROVE  workers[w].pc \in {"complete", "discard", "conflict"}
  BY <1>3 DEF IInv, Hands, Has
<1> QED BY <1>1, <1>2, <1>3 DEF IInv, Clean

\* A failing call is counted.
LEMMA ErrorCounts ==
  ASSUME IInv, SomeError
  PROVE  errors' \in Nat /\ errors' > errors /\ errors' > 0 /\ crashes + errors' # 0
  BY DEF IInv, TypeOK, SomeError

LEMMA Sums ==
  ASSUME NEW c \in Nat, NEW e \in Nat, NEW f \in Nat, f >= e
  PROVE  /\ c + f = 0 => c + e = 0
         /\ f > 0 => c + f # 0
  OBVIOUS

LEMMA ErrorsGrow ==
  ASSUME IInv, errors' \in Nat, errors' >= errors
  PROVE  /\ crashes + errors' = 0 => crashes + errors = 0
         /\ errors' > 0 => crashes + errors' # 0
<1>1. errors \in Nat /\ crashes \in Nat
  BY DEF IInv, TypeOK
<1> QED BY <1>1, Sums

\* A step that only takes the worker on, with its row and its evidence as they were.
LEMMA PlainMove ==
  ASSUME IInv, NEW w \in Workers, HasRun(w), Serving, SameDaemon,
         UNCHANGED <<runs, evidence, cancelling>>,
         errors' \in Nat, errors' >= errors,
         workers[w].pc \notin {"complete", "discard", "conflict", "leave"},
         NEW next \in Worker, workers' = [workers EXCEPT ![w] = next],
         next.run = workers[w].run, next.pc \notin {"poll", "leave", "complete"},
         next.cancelled \/ next.pc = "mark_cancelled" => Cause(workers[w].run),
         next.pc = "analyze" /\ runs[workers[w].run].cancelRequested
             /\ workers[w].run \notin cancelling => next.cancelled \/ errors' > 0
  PROVE  IInv'
<1>1. PICK r \in Runs : r = workers[w].run
  BY Knowledge
<1>2. Has(w, r) /\ runs[r].status = "running"
  BY <1>1, Knowledge
<1>3. /\ runs \in [Runs -> Run] /\ evidence \in SUBSET Runs
      /\ errors \in Nat /\ crashes \in Nat /\ errors' \in Nat /\ errors' >= errors
  BY DEF IInv, TypeOK
<1>4. crashes + errors' = 0 => r \notin evidence
  <2>1. crashes + errors' = 0 => crashes + errors = 0
    BY ErrorsGrow
  <2> QED BY <1>1, <1>2, <2>1, NoneLeftBehind
<1>5. Moves(w, r, next)
  BY <1>1, <1>2, <1>3, <1>4 DEF Moves, SameDaemon, Terminal
<1> QED BY <1>5, MoveKeeps

LEMMA AnnounceKeeps ==
  ASSUME IInv, NEW w \in Workers, Announce(w) \/ AnnounceFails(w)
  PROVE  IInv'
<1>1. /\ Serving /\ workers[w].pc = "announce" /\ HasRun(w) /\ SameDaemon
      /\ UNCHANGED <<runs, evidence, cancelling>>
      /\ TypeOK /\ errors \in Nat
  BY DEF Announce, AnnounceFails, At, HasRun, IInv, TypeOK
<1>2. CASE Announce(w)
  <2>1. GoTo(w, "register") /\ "register" \in Pc /\ errors' = errors
    BY <1>2 DEF Announce, Pc
  <2>2. PICK next \in Worker :
            /\ workers' = [workers EXCEPT ![w] = next]
            /\ next.pc = "register" /\ next.run = workers[w].run
            /\ next.cancelled = workers[w].cancelled
    BY <1>1, <2>1, GoesTo
  <2>3. next.cancelled => Cause(workers[w].run)
    BY <1>1, <2>2, Knowledge
  <2>4. errors' \in Nat /\ errors' >= errors
    BY <1>1, <2>1
  <2>5. /\ next.pc \notin {"poll", "leave", "complete", "analyze", "mark_cancelled"}
        /\ workers[w].pc \notin {"complete", "discard", "conflict", "leave"}
    BY <1>1, <2>2
  <2> QED BY <1>1, <2>2, <2>3, <2>4, <2>5, PlainMove
<1>3. CASE AnnounceFails(w)
  <2>1. workers' = [workers EXCEPT ![w] = IdleWorker]
    BY <1>3 DEF AnnounceFails
  <2>2. errors' \in Nat /\ errors' >= errors /\ (errors' > 0 \/ phase = "closing")
    BY <1>1, <1>3, ErrorCounts DEF AnnounceFails
  <2>3. PICK r \in Runs : r = workers[w].run
    BY <1>1, Knowledge
  <2>4. Has(w, r) /\ runs[r].status = "running"
    BY <1>1, <2>3, Knowledge
  <2>5. crashes + errors' = 0 => r \notin evidence
    <3>1. crashes + errors' = 0 => crashes + errors = 0
      BY <2>2, ErrorsGrow
    <3> QED BY <1>1, <2>3, <2>4, <3>1, NoneLeftBehind
  <2>6. Moves(w, r, IdleWorker)
    BY <1>1, <2>1, <2>2, <2>3, <2>4, <2>5, IdleFields DEF Moves, TypeOK, Terminal, SameDaemon
  <2> QED BY <2>6, MoveKeeps
<1> QED BY <1>2, <1>3

LEMMA RegisterKeeps ==
  ASSUME IInv, NEW w \in Workers, Register(w)
  PROVE  IInv'
<1>1. /\ Serving /\ workers[w].pc = "register" /\ HasRun(w) /\ SameDaemon
      /\ UNCHANGED <<runs, evidence, cancelling, errors>>
      /\ TypeOK /\ errors \in Nat /\ workers[w] \in Worker
  BY DEF Register, At, HasRun, IInv, TypeOK
<1>2. PICK next \in Worker :
          /\ workers' = [workers EXCEPT ![w] = next]
          /\ next.pc = "check" /\ next.run = workers[w].run
          /\ next.cancelled = (phase = "closing")
  <2> DEFINE next == [workers[w] EXCEPT !.pc = "check", !.cancelled = (phase = "closing")]
  <2>1. /\ next \in Worker /\ next.pc = "check" /\ next.run = workers[w].run
        /\ next.cancelled = (phase = "closing")
    BY <1>1 DEF Worker, Pc
  <2>2. workers' = [workers EXCEPT ![w] = next]
    BY <1>1 DEF Register, TypeOK
  <2> QED BY <2>1, <2>2
<1>3. next.cancelled => Cause(workers[w].run)
  BY <1>2 DEF IInv, Hands, Cause
<1>4. errors' \in Nat /\ errors' >= errors
  BY <1>1
<1> QED BY <1>1, <1>2, <1>3, <1>4, PlainMove

\* Reading the flag tells what the row says, or counts an error.
LEMMA SeenIsAsked ==
  ASSUME IInv, NEW r \in Runs, NEW seen \in BOOLEAN, CancelSeen(r, seen)
  PROVE  /\ errors' \in Nat /\ errors' >= errors
         /\ seen => Cause(r)
         /\ runs[r].cancelRequested => seen \/ errors' > 0
<1>1. errors \in Nat
  BY DEF IInv, TypeOK
<1>2. CASE seen = runs[r].cancelRequested /\ UNCHANGED errors
  BY <1>1, <1>2 DEF Cause
<1>3. CASE ~seen /\ SomeError
  BY <1>1, <1>3, ErrorCounts
<1> QED BY <1>2, <1>3 DEF CancelSeen

LEMMA CheckCancelKeeps ==
  ASSUME IInv, NEW w \in Workers, CheckCancel(w)
  PROVE  IInv'
<1>1. /\ Serving /\ workers[w].pc = "check" /\ HasRun(w) /\ SameDaemon
      /\ UNCHANGED <<runs, evidence, cancelling>>
      /\ TypeOK /\ workers[w] \in Worker
  BY DEF CheckCancel, At, HasRun, IInv, TypeOK
<1>2. PICK r \in Runs : r = workers[w].run
  BY <1>1, Knowledge
<1>3. PICK seen \in BOOLEAN :
          /\ CancelSeen(r, seen)
          /\ workers' = [workers EXCEPT ![w].pc = "analyze",
                                        ![w].cancelled = workers[w].cancelled \/ seen]
  BY <1>2 DEF CheckCancel
<1>4. PICK next \in Worker :
          /\ workers' = [workers EXCEPT ![w] = next]
          /\ next.pc = "analyze" /\ next.run = workers[w].run
          /\ next.cancelled <=> workers[w].cancelled \/ seen
  <2> DEFINE next == [workers[w] EXCEPT !.pc = "analyze",
                                        !.cancelled = workers[w].cancelled \/ seen]
  <2>1. /\ next \in Worker /\ next.pc = "analyze" /\ next.run = workers[w].run
        /\ next.cancelled <=> workers[w].cancelled \/ seen
    BY <1>1 DEF Worker, Pc
  <2>2. workers' = [workers EXCEPT ![w] = next]
    BY <1>1, <1>3 DEF TypeOK
  <2> QED BY <2>1, <2>2
<1>5. /\ errors' \in Nat /\ errors' >= errors
      /\ seen => Cause(r)
      /\ runs[r].cancelRequested => seen \/ errors' > 0
  BY <1>3, SeenIsAsked
<1>6. workers[w].cancelled => Cause(workers[w].run)
  BY <1>1, Knowledge
<1>7. next.cancelled => Cause(workers[w].run)
  BY <1>2, <1>4, <1>5, <1>6
<1>8. runs[workers[w].run].cancelRequested => next.cancelled \/ errors' > 0
  BY <1>2, <1>4, <1>5
<1> QED BY <1>1, <1>4, <1>5, <1>7, <1>8, PlainMove

\* A worker goes on to pc with its row and its evidence as they were.
LEMMA PlainGoTo ==
  ASSUME IInv, NEW w \in Workers, HasRun(w), Serving, SameDaemon,
         UNCHANGED <<runs, evidence, cancelling>>,
         errors' \in Nat, errors' >= errors,
         workers[w].pc \notin {"complete", "discard", "conflict", "leave"},
         NEW pc \in Pc, GoTo(w, pc), pc \notin {"poll", "leave", "complete", "analyze"},
         pc = "mark_cancelled" => Cause(workers[w].run)
  PROVE  IInv'
<1>1. PICK next \in Worker :
          /\ workers' = [workers EXCEPT ![w] = next]
          /\ next.pc = pc /\ next.run = workers[w].run
          /\ next.cancelled = workers[w].cancelled
  BY GoesTo DEF IInv
<1>2. workers[w].cancelled => Cause(workers[w].run)
  BY Knowledge
<1>3. next.cancelled \/ next.pc = "mark_cancelled" => Cause(workers[w].run)
  BY <1>1, <1>2
<1> QED BY <1>1, <1>3, PlainMove

LEMMA AnalyzeEndsKeeps ==
  ASSUME IInv, NEW w \in Workers, AnalyzeEnds(w)
  PROVE  IInv'
<1>1. /\ Serving /\ workers[w].pc = "analyze" /\ HasRun(w) /\ SameDaemon
      /\ UNCHANGED <<runs, evidence, cancelling, errors>>
      /\ errors' \in Nat /\ errors' >= errors
  BY DEF AnalyzeEnds, At, HasRun, IInv, TypeOK
<1>2. CASE GoTo(w, "verify") \/ GoTo(w, "mark_failed")
  <2>1. "verify" \in Pc /\ "mark_failed" \in Pc
    BY DEF Pc
  <2> QED BY <1>1, <1>2, <2>1, PlainGoTo
<1>3. CASE workers[w].cancelled /\ GoTo(w, "mark_cancelled")
  <2>1. "mark_cancelled" \in Pc /\ Cause(workers[w].run)
    BY <1>1, <1>3, Knowledge DEF Pc
  <2> QED BY <1>1, <1>3, <2>1, PlainGoTo
<1> QED BY <1>2, <1>3 DEF AnalyzeEnds

LEMMA VerifyKeeps ==
  ASSUME IInv, NEW w \in Workers, Verify(w) \/ Recheck(w)
  PROVE  IInv'
<1>1. /\ Serving /\ workers[w].pc \in {"verify", "recheck"} /\ HasRun(w) /\ SameDaemon
      /\ UNCHANGED <<runs, evidence, cancelling>> /\ errors \in Nat
      /\ {"mark_failed", "mark_cancelled", "commit"} \subseteq Pc
  BY DEF Verify, Recheck, At, HasRun, IInv, TypeOK, Pc
<1>2. PICK r \in Runs : r = workers[w].run
  BY <1>1, Knowledge
<1>3. CASE GoTo(w, "mark_failed") /\ UNCHANGED errors
  BY <1>1, <1>3, PlainGoTo
<1>4. ASSUME NEW seen \in BOOLEAN, NEW other \in {"mark_failed", "commit"},
             CancelSeen(r, seen), GoTo(w, IF seen THEN "mark_cancelled" ELSE other)
      PROVE  IInv'
  <2>1. errors' \in Nat /\ errors' >= errors /\ (seen => Cause(workers[w].run))
    BY <1>2, <1>4, SeenIsAsked
  <2>2. CASE seen
    BY <1>1, <1>4, <2>1, <2>2, PlainGoTo
  <2>3. CASE ~seen
    BY <1>1, <1>4, <2>1, <2>3, PlainGoTo
  <2> QED BY <2>2, <2>3
<1>5. CASE Verify(w)
  BY <1>2, <1>3, <1>4, <1>5 DEF Verify
<1>6. CASE Recheck(w)
  BY <1>2, <1>4, <1>6 DEF Recheck
<1> QED BY <1>5, <1>6

LEMMA CommitKeeps ==
  ASSUME IInv, NEW w \in Workers, Commit(w) \/ CommitSyncFails(w)
  PROVE  IInv'
<1>1. /\ Serving /\ workers[w].pc = "commit" /\ HasRun(w) /\ SameDaemon
      /\ UNCHANGED <<runs, cancelling>> /\ TypeOK /\ errors \in Nat /\ crashes \in Nat
      /\ {"mark_failed", "complete"} \subseteq Pc
  BY DEF Commit, CommitSyncFails, At, HasRun, IInv, TypeOK, Pc
<1>2. PICK r \in Runs : r = workers[w].run
  BY <1>1, Knowledge
<1>3. Has(w, r) /\ runs[r].status = "running" /\ (workers[w].cancelled => Cause(r))
  BY <1>1, <1>2, Knowledge
<1>4. CASE GoTo(w, "mark_failed") /\ UNCHANGED <<evidence, errors>>
  BY <1>1, <1>4, PlainGoTo
<1>5. ASSUME NEW pc \in {"mark_failed", "complete"}, GoTo(w, pc),
             evidence' = evidence \cup {r},
             errors' \in Nat, errors' >= errors, pc = "mark_failed" => errors' > 0
      PROVE  IInv'
  <2>1. PICK next \in Worker :
            /\ workers' = [workers EXCEPT ![w] = next]
            /\ next.pc = pc /\ next.run = workers[w].run
            /\ next.cancelled = workers[w].cancelled
    BY <1>1, <1>5, GoesTo
  <2>2. evidence' \in SUBSET Runs /\ runs' \in [Runs -> Run]
    BY <1>1, <1>5 DEF TypeOK
  <2>3. crashes + errors' = 0 => next.pc = "complete"
    <3>1. errors' > 0 => crashes + errors' # 0
      BY <1>5, ErrorsGrow
    <3> QED BY <1>5, <2>1, <3>1
  <2>4. Moves(w, r, next)
    BY <1>1, <1>2, <1>3, <1>5, <2>1, <2>2, <2>3 DEF Moves, SameDaemon, Terminal
  <2> QED BY <2>4, MoveKeeps
<1>6. CASE Commit(w)
  BY <1>1, <1>2, <1>4, <1>5, <1>6 DEF Commit
<1>7. CASE CommitSyncFails(w)
  BY <1>1, <1>2, <1>5, <1>7, ErrorCounts DEF CommitSyncFails
<1> QED BY <1>6, <1>7

LEMMA CompleteKeeps ==
  ASSUME IInv, NEW w \in Workers, Complete(w) \/ CompleteFails(w)
  PROVE  IInv'
<1>1. /\ Serving /\ workers[w].pc = "complete" /\ HasRun(w) /\ SameDaemon
      /\ UNCHANGED <<evidence, cancelling>> /\ TypeOK /\ errors \in Nat
      /\ evidence \in SUBSET Runs /\ runs \in [Runs -> Run]
      /\ {"leave", "conflict", "discard"} \subseteq Pc
  BY DEF Complete, CompleteFails, At, HasRun, IInv, TypeOK, Pc
<1>2. PICK r \in Runs : r = workers[w].run
  BY <1>1, Knowledge
<1>3. /\ Has(w, r) /\ runs[r].status = "running" /\ r \in evidence
      /\ workers[w].cancelled => Cause(r)
  BY <1>1, <1>2, Knowledge
<1>4. ASSUME NEW pc \in {"conflict", "discard"}, GoTo(w, pc), runs' = runs,
             errors' \in Nat, errors' >= errors
      PROVE  IInv'
  <2>1. PICK next \in Worker :
            /\ workers' = [workers EXCEPT ![w] = next]
            /\ next.pc = pc /\ next.run = workers[w].run
            /\ next.cancelled = workers[w].cancelled
    BY <1>1, <1>4, GoesTo
  <2>2. Moves(w, r, next)
    BY <1>1, <1>2, <1>3, <1>4, <2>1 DEF Moves, SameDaemon, Terminal
  <2> QED BY <2>2, MoveKeeps
<1>5. ASSUME GoTo(w, "leave"), runs' = [runs EXCEPT ![r].status = "succeeded"],
             errors' = errors
      PROVE  IInv'
  <2>1. PICK next \in Worker :
            /\ workers' = [workers EXCEPT ![w] = next]
            /\ next.pc = "leave" /\ next.run = workers[w].run
            /\ next.cancelled = workers[w].cancelled
    BY <1>1, <1>5, GoesTo
  <2>2. "succeeded" \in Status
    BY DEF Status, Terminal
  <2>3. /\ runs' \in [Runs -> Run] /\ runs'[r].status = "succeeded"
        /\ runs'[r].cancelRequested = runs[r].cancelRequested
        /\ \A q \in Runs : q # r => runs'[q] = runs[q]
    BY <1>1, <1>5, <2>2, StatusSet
  <2>4. Moves(w, r, next)
    BY <1>1, <1>2, <1>3, <1>5, <2>1, <2>3 DEF Moves, SameDaemon, Terminal
  <2> QED BY <2>4, MoveKeeps
<1>6. CASE Complete(w)
  <2>1. CASE ~runs[r].cancelRequested
    BY <1>2, <1>3, <1>5, <1>6, <2>1 DEF Complete
  <2>2. CASE runs[r].cancelRequested
    <3>1. GoTo(w, "conflict") /\ runs' = runs /\ errors' = errors
      BY <1>2, <1>6, <2>2 DEF Complete
    <3> QED BY <1>1, <1>4, <3>1
  <2> QED BY <2>1, <2>2
<1>7. CASE CompleteFails(w)
  <2>1. /\ GoTo(w, "discard") /\ runs' = runs
        /\ errors' \in Nat /\ errors' >= errors
    BY <1>1, <1>7, ErrorCounts DEF CompleteFails
  <2> QED BY <1>4, <2>1
<1> QED BY <1>6, <1>7

LEMMA DiscardKeeps ==
  ASSUME IInv, NEW w \in Workers, Discard(w)
  PROVE  IInv'
<1>1. /\ Serving /\ workers[w].pc \in {"discard", "conflict"} /\ HasRun(w) /\ SameDaemon
      /\ UNCHANGED <<runs, cancelling>> /\ TypeOK /\ errors \in Nat /\ crashes \in Nat
      /\ evidence \in SUBSET Runs /\ runs \in [Runs -> Run]
      /\ {"recheck", "mark_failed"} \subseteq Pc
  BY DEF Discard, At, HasRun, IInv, TypeOK, Pc
<1>2. PICK r \in Runs : r = workers[w].run
  BY <1>1, Knowledge
<1>3. Has(w, r) /\ runs[r].status = "running" /\ (workers[w].cancelled => Cause(r))
  BY <1>1, <1>2, Knowledge
<1>4. PICK pc \in {"recheck", "mark_failed"} : GoTo(w, pc)
  BY DEF Discard, AfterDiscard
<1>5. PICK next \in Worker :
          /\ workers' = [workers EXCEPT ![w] = next]
          /\ next.pc = pc /\ next.run = workers[w].run
          /\ next.cancelled = workers[w].cancelled
  BY <1>1, <1>4, GoesTo
<1>6. /\ evidence' \in SUBSET Runs /\ \A q \in Runs : q # r => (q \in evidence' <=> q \in evidence)
      /\ errors' \in Nat /\ errors' >= errors
      /\ r \in evidence' => crashes + errors' # 0
  <2>1. CASE evidence' = evidence \ {r} /\ UNCHANGED errors
    BY <1>1, <2>1
  <2>2. CASE UNCHANGED evidence /\ SomeError
    BY <1>1, <2>2, ErrorCounts
  <2> QED BY <1>2, <2>1, <2>2 DEF Discard
<1>7. Moves(w, r, next)
  BY <1>1, <1>2, <1>3, <1>4, <1>5, <1>6 DEF Moves, SameDaemon, Terminal
<1> QED BY <1>7, MoveKeeps

LEMMA MarkKeeps ==
  ASSUME IInv, NEW w \in Workers, Mark(w)
  PROVE  IInv'
<1>1. /\ Serving /\ workers[w].pc \in {"mark_failed", "mark_cancelled"} /\ HasRun(w)
      /\ UNCHANGED <<evidence, cancelling>> /\ TypeOK /\ errors \in Nat /\ crashes \in Nat
      /\ evidence \in SUBSET Runs /\ runs \in [Runs -> Run] /\ SameDaemon
      /\ GoTo(w, "leave") /\ "leave" \in Pc
  BY DEF Mark, At, HasRun, IInv, TypeOK, Pc
<1>2. PICK r \in Runs : r = workers[w].run
  BY <1>1, Knowledge
<1>3. /\ Has(w, r) /\ runs[r].status = "running"
      /\ workers[w].cancelled \/ workers[w].pc = "mark_cancelled" => Cause(r)
  BY <1>1, <1>2, Knowledge
<1>4. PICK next \in Worker :
          /\ workers' = [workers EXCEPT ![w] = next]
          /\ next.pc = "leave" /\ next.run = workers[w].run
          /\ next.cancelled = workers[w].cancelled
  BY <1>1, GoesTo
<1>5. PICK status \in {"failed", "cancelled"} :
          Finish(w, status) /\ (status = "cancelled" => Cause(r))
  <2>1. CASE At(w, "mark_failed") /\ Finish(w, "failed")
    BY <2>1
  <2>2. CASE At(w, "mark_cancelled") /\ Finish(w, "cancelled")
    BY <1>3, <2>2 DEF At
  <2> QED BY <2>1, <2>2 DEF Mark
<1>6. /\ runs' \in [Runs -> Run] /\ runs'[r].status \in {"running", status}
      /\ runs'[r].status = "running" => errors' > 0
      /\ runs'[r].cancelRequested = runs[r].cancelRequested
      /\ \A q \in Runs : q # r => runs'[q] = runs[q]
      /\ errors' \in Nat /\ errors' >= errors
  <2>1. CASE runs' = [runs EXCEPT ![r].status = status] /\ UNCHANGED errors
    <3>1. status \in Status
      BY DEF Status, Terminal
    <3>2. /\ runs' \in [Runs -> Run] /\ runs'[r].status = status
          /\ runs'[r].cancelRequested = runs[r].cancelRequested
          /\ \A q \in Runs : q # r => runs'[q] = runs[q]
      BY <1>1, <2>1, <3>1, StatusSet
    <3>3. status # "running" /\ errors' \in Nat /\ errors' >= errors
      BY <1>1, <2>1
    <3> QED BY <3>2, <3>3
  <2>2. CASE UNCHANGED runs /\ SomeError
    BY <1>1, <1>3, <2>2, ErrorCounts
  <2> QED BY <1>2, <1>3, <1>5, <2>1, <2>2 DEF Finish
<1>7. crashes + errors' = 0 => r \notin evidence
  <2>1. crashes + errors' = 0 => crashes + errors = 0
    BY <1>6, ErrorsGrow
  <2> QED BY <1>1, <1>2, <1>3, <2>1, NoneLeftBehind
<1>8. Moves(w, r, next)
  BY <1>1, <1>2, <1>3, <1>4, <1>5, <1>6, <1>7 DEF Moves, SameDaemon, Terminal
<1> QED BY <1>8, MoveKeeps

LEMMA LeaveKeeps ==
  ASSUME IInv, NEW w \in Workers, Leave(w)
  PROVE  IInv'
<1>1. /\ Serving /\ workers[w].pc = "leave" /\ HasRun(w) /\ SameDaemon
      /\ UNCHANGED <<runs, evidence, cancelling, errors>> /\ TypeOK /\ errors \in Nat
      /\ evidence \in SUBSET Runs /\ runs \in [Runs -> Run]
      /\ workers' = [workers EXCEPT ![w] = IdleWorker]
  BY DEF Leave, At, HasRun, IInv, TypeOK
<1>2. PICK r \in Runs : r = workers[w].run
  BY <1>1, Knowledge
<1>3. /\ Has(w, r) /\ runs[r].status \in {"running"} \cup Terminal
      /\ runs[r].status = "running" => errors > 0
  BY <1>1, <1>2, Knowledge
<1>4. crashes + errors = 0 /\ r \in evidence => runs[r].status = "succeeded"
  BY <1>1, <1>2, NoneLeftBehind
<1>5. /\ runs[r].status = "cancelled" => Cause(r)
      /\ runs[r].status = "succeeded" => r \in evidence
  BY DEF IInv, Rows, Published
<1>6. Moves(w, r, IdleWorker)
  BY <1>1, <1>2, <1>3, <1>4, <1>5, IdleFields DEF Moves, SameDaemon
<1> QED BY <1>6, MoveKeeps

LEMMA StepKeepsOne ==
  ASSUME IInv, NEW w \in Workers, Step(w)
  PROVE  IInv'
  BY AnnounceKeeps, RegisterKeeps, CheckCancelKeeps, AnalyzeEndsKeeps, VerifyKeeps,
     CommitKeeps, CompleteKeeps, DiscardKeeps, MarkKeeps, LeaveKeeps DEF Step

-----------------------------------------------------------------------------
(* A claim, and the requests.                                              *)

\* Nobody has a run that is new or waiting, and nothing is published for it.
LEMMA WaitingIsFree ==
  ASSUME IInv, NEW r \in Runs, runs[r].status \in {"absent", "queued"}
  PROVE  /\ \A v \in Workers : ~Has(v, r)
         /\ ~runs[r].cancelRequested /\ r \notin cancelling
         /\ Serving => r \notin evidence
<1>1. \A v \in Workers : ~Has(v, r)
  BY DEF IInv, Knows, Terminal
<1>2. ~runs[r].cancelRequested /\ r \notin cancelling
  BY DEF IInv, Rows
<1>3. Serving => r \notin evidence
  BY DEF IInv, Published
<1> QED BY <1>1, <1>2, <1>3

LEMMA ClaimKeeps ==
  ASSUME IInv, NEW w \in Workers, NEW r \in Runs, Claim(w, r)
  PROVE  IInv'
<1> DEFINE next == [pc |-> "announce", run |-> r, cancelled |-> FALSE]
<1>1. /\ TypeOK /\ Hands /\ Knows /\ Rows /\ Published /\ Clean /\ CancelReachesAnalysis
      /\ Serving /\ ~HasRun(w) /\ phase = "ready" /\ runs[r].status = "queued"
      /\ phase' = phase /\ pending' = pending /\ crashes' = crashes /\ shutdowns' = shutdowns
      /\ cancelling' = cancelling /\ errors' = errors /\ evidence' = evidence
  BY DEF IInv, Claim, At, HasRun, SameDaemon
<1>2. /\ \A v \in Workers : ~Has(v, r)
      /\ ~runs[r].cancelRequested /\ r \notin cancelling /\ r \notin evidence
  BY <1>1, WaitingIsFree
<1>3. next \in Worker /\ next.pc = "announce" /\ next.run = r /\ ~next.cancelled
  BY DEF Worker, Pc
<1>4. /\ workers' \in [Workers -> Worker] /\ workers'[w] = next
      /\ \A v \in Workers : v # w => workers'[v] = workers[v]
  <2>1. workers' = [workers EXCEPT ![w] = next]
    BY DEF Claim
  <2> HIDE DEF next
  <2> QED BY <1>1, <1>3, <2>1, OneWorkerChanges
<1>5. /\ runs' \in [Runs -> Run] /\ runs'[r].status = "running"
      /\ runs'[r].cancelRequested = runs[r].cancelRequested
      /\ \A q \in Runs : q # r => runs'[q] = runs[q]
  BY <1>1 DEF Claim, TypeOK, Run, Status
<1> HIDE DEF next
<1>6. /\ Serving' <=> Serving
      /\ \A v \in Workers : v # w => (HasRun(v)' <=> HasRun(v))
      /\ \A v \in Workers, q \in Runs : v # w => (Has(v, q)' <=> Has(v, q))
      /\ Has(w, r)'
      /\ \A q \in Runs : Cause(q)' <=> runs'[q].cancelRequested \/ shutdowns > 0
  BY <1>1, <1>3, <1>4 DEF Serving, HasRun, Has, Cause
<1>7. TypeOK'
  BY <1>1, <1>4, <1>5 DEF TypeOK
<1>8. Hands'
  <2>1. \A v \in Workers : HasRun(v) => workers[v].run \in Runs /\ workers[v].run # r
    BY <1>1, <1>2 DEF Hands, Has
  <2>2. \A v \in Workers : v # w => (HasRun(v)' <=> HasRun(v)) /\ workers'[v] = workers[v]
    BY <1>4, <1>6
  <2>3. workers'[w].run = r
    BY <1>3, <1>4
  <2>4. \A v \in Workers : HasRun(v)' => workers'[v].run \in Runs
    BY <2>1, <2>2, <2>3
  <2>5. \A u, v \in Workers : HasRun(u)' /\ HasRun(v)' /\ workers'[u].run = workers'[v].run
                                  => u = v
    BY <1>1, <2>1, <2>2, <2>3 DEF Hands
  <2> QED BY <1>1, <1>6, <2>4, <2>5 DEF Hands
<1>9. Knows'
  <2> SUFFICES ASSUME NEW v \in Workers, NEW q \in Runs, Has(v, q)'
               PROVE  /\ workers'[v].pc # "leave" => runs'[q].status = "running"
                      /\ workers'[v].pc = "leave" => runs'[q].status \in {"running"} \cup Terminal
                      /\ workers'[v].pc = "leave" /\ runs'[q].status = "running" => errors' > 0
                      /\ workers'[v].pc = "complete" => q \in evidence'
                      /\ workers'[v].cancelled \/ workers'[v].pc = "mark_cancelled" => Cause(q)'
    BY DEF Knows
  <2>1. CASE v = w
    <3>1. q = r
      BY <1>3, <1>4, <2>1 DEF Has
    <3> QED BY <1>3, <1>4, <1>5, <2>1, <3>1
  <2>2. CASE v # w
    <3>1. Has(v, q) /\ q # r
      BY <1>2, <1>6, <2>2
    <3>2. runs'[q] = runs[q] /\ workers'[v] = workers[v] /\ (Cause(q) <=> Cause(q)')
      BY <1>4, <1>5, <1>6, <2>2, <3>1 DEF Cause
    <3> QED BY <1>1, <3>1, <3>2 DEF Knows
  <2> QED BY <2>1, <2>2
<1>10. Rows'
  <2> SUFFICES ASSUME NEW q \in Runs
               PROVE  /\ runs'[q].status \in {"absent", "queued"} => ~runs'[q].cancelRequested
                      /\ q \in cancelling' => runs'[q].cancelRequested
                      /\ runs'[q].status = "cancelled" => Cause(q)'
                      /\ q \in pending' => runs'[q].status = "queued"
                      /\ phase' = "reconcile" => runs'[q].status # "running"
                      /\ phase' = "ready" /\ runs'[q].status = "running" =>
                             errors' > 0 \/ \E v \in Workers : Has(v, q)'
    BY DEF Rows
  <2>1. CASE q = r
    BY <1>1, <1>2, <1>5, <1>6, <2>1 DEF Hands
  <2>2. CASE q # r
    <3>1. \A v \in Workers : Has(v, q) => Has(v, q)'
      BY <1>1, <1>6 DEF Has
    <3>2. runs'[q] = runs[q] /\ (Cause(q) <=> Cause(q)')
      BY <1>5, <1>6, <2>2 DEF Cause
    <3> QED BY <1>1, <3>1, <3>2 DEF Rows
  <2> QED BY <2>1, <2>2
<1>11. Published'
  BY <1>1, <1>2, <1>5, <1>6 DEF Published
<1>12. Clean'
  <2>1. \A v \in Workers, q \in Runs : Has(v, q) => Has(v, q)' /\ workers'[v] = workers[v]
    BY <1>1, <1>4, <1>6 DEF Has
  <2>2. \A q \in Runs : q \in evidence => runs'[q] = runs[q]
    BY <1>2, <1>5
  <2> QED BY <1>1, <2>1, <2>2 DEF Clean
<1>13. CancelReachesAnalysis'
  <2> SUFFICES ASSUME NEW v \in Workers, workers'[v].pc = "analyze",
                      runs'[workers'[v].run].cancelRequested,
                      workers'[v].run \notin cancelling'
               PROVE  workers'[v].cancelled \/ errors' > 0
    BY DEF CancelReachesAnalysis
  <2>1. v # w
    BY <1>3, <1>4
  <2>2. workers'[v] = workers[v] /\ HasRun(v)
    BY <1>4, <2>1 DEF HasRun
  <2>3. workers[v].run \in Runs /\ workers[v].run # r
    BY <1>1, <1>2, <2>2 DEF Hands, Has
  <2> QED BY <1>1, <1>5, <2>2, <2>3 DEF CancelReachesAnalysis
<1> QED BY <1>7, <1>8, <1>9, <1>10, <1>11, <1>12, <1>13 DEF IInv

\* A request changes one row and no worker.
Asks(r) ==
    /\ Serving /\ SameDaemon /\ UNCHANGED <<evidence, workers, errors>>
    /\ runs' \in [Runs -> Run] /\ cancelling' \in SUBSET Runs
    /\ \A q \in Runs : q # r => runs'[q] = runs[q] /\ (q \in cancelling' <=> q \in cancelling)
    /\ runs[r].cancelRequested => runs'[r].cancelRequested
    /\ r \in cancelling' => runs'[r].cancelRequested
    /\ \/ runs'[r].status = runs[r].status /\ runs[r].status = "running"
       \/ /\ runs'[r].status = "queued" /\ ~runs'[r].cancelRequested
          /\ runs[r].status = "absent"
       \/ /\ runs'[r].status = "cancelled" /\ runs'[r].cancelRequested
          /\ runs[r].status = "queued"
    /\ runs'[r].cancelRequested => r \in cancelling'

LEMMA AsksKeeps ==
  ASSUME IInv, NEW r \in Runs, Asks(r)
  PROVE  IInv'
<1>1. /\ TypeOK /\ Hands /\ Knows /\ Rows /\ Published /\ Clean /\ CancelReachesAnalysis
      /\ Serving /\ workers' = workers
      /\ phase' = phase /\ pending' = pending /\ crashes' = crashes /\ shutdowns' = shutdowns
      /\ errors' = errors /\ evidence' = evidence
      /\ runs' \in [Runs -> Run] /\ cancelling' \in SUBSET Runs
      /\ \A q \in Runs : q # r => runs'[q] = runs[q] /\ (q \in cancelling' <=> q \in cancelling)
      /\ runs[r].cancelRequested => runs'[r].cancelRequested
      /\ r \in cancelling' => runs'[r].cancelRequested
      /\ runs'[r].cancelRequested => r \in cancelling'
  BY DEF IInv, Asks, SameDaemon
<1>2. \/ runs'[r].status = "running" /\ runs[r].status = "running"
      \/ /\ runs'[r].status = "queued" /\ ~runs'[r].cancelRequested
         /\ runs[r].status = "absent" /\ r \notin evidence
      \/ /\ runs'[r].status = "cancelled" /\ runs'[r].cancelRequested
         /\ runs[r].status = "queued" /\ r \notin evidence
  BY <1>1, WaitingIsFree DEF Asks
<1>3. /\ Serving' <=> Serving
      /\ \A v \in Workers : HasRun(v)' <=> HasRun(v)
      /\ \A v \in Workers, q \in Runs : Has(v, q)' <=> Has(v, q)
      /\ \A q \in Runs : Cause(q) => Cause(q)'
  BY <1>1 DEF Serving, HasRun, Has, Cause
<1>4. \A v \in Workers : Has(v, r) => runs'[r].status = runs[r].status
  BY <1>1, <1>2, WaitingIsFree
<1>5. r \notin pending
  BY <1>1 DEF Hands, Serving
<1>6. TypeOK'
  BY <1>1 DEF TypeOK
<1>7. Hands'
  BY <1>1, <1>3 DEF Hands
<1>8. Knows'
  <2> SUFFICES ASSUME NEW v \in Workers, NEW q \in Runs, Has(v, q)
               PROVE  /\ workers[v].pc # "leave" => runs'[q].status = "running"
                      /\ workers[v].pc = "leave" => runs'[q].status \in {"running"} \cup Terminal
                      /\ workers[v].pc = "leave" /\ runs'[q].status = "running" => errors > 0
                      /\ workers[v].pc = "complete" => q \in evidence
                      /\ workers[v].cancelled \/ workers[v].pc = "mark_cancelled" => Cause(q)'
    BY <1>1, <1>3 DEF Knows
  <2>1. runs'[q].status = runs[q].status
    BY <1>1, <1>4
  <2> QED BY <1>1, <1>3, <2>1 DEF Knows
<1>9. Rows'
  <2> SUFFICES ASSUME NEW q \in Runs
               PROVE  /\ runs'[q].status \in {"absent", "queued"} => ~runs'[q].cancelRequested
                      /\ q \in cancelling' => runs'[q].cancelRequested
                      /\ runs'[q].status = "cancelled" => Cause(q)'
                      /\ q \in pending => runs'[q].status = "queued"
                      /\ phase = "reconcile" => runs'[q].status # "running"
                      /\ phase = "ready" /\ runs'[q].status = "running" =>
                             errors > 0 \/ \E v \in Workers : Has(v, q)
    BY <1>1, <1>3 DEF Rows
  <2>1. CASE q = r
    BY <1>1, <1>2, <1>5, <2>1 DEF Rows, Cause, Serving
  <2>2. CASE q # r
    BY <1>1, <1>3, <2>2 DEF Rows
  <2> QED BY <2>1, <2>2
<1>10. Published'
  BY <1>1, <1>2, <1>3 DEF Published
<1>11. Clean'
  <2>1. \A q \in Runs : q \in evidence /\ runs[q].status = "succeeded" =>
            runs'[q].status = "succeeded"
    BY <1>1, <1>2
  <2> QED BY <1>1, <1>3, <2>1 DEF Clean
<1>12. CancelReachesAnalysis'
  <2> SUFFICES ASSUME NEW v \in Workers, workers[v].pc = "analyze",
                      runs'[workers[v].run].cancelRequested,
                      workers[v].run \notin cancelling'
               PROVE  workers[v].cancelled \/ errors > 0
    BY <1>1 DEF CancelReachesAnalysis
  <2>1. workers[v].run \in Runs /\ workers[v].run # r
    BY <1>1 DEF Hands, HasRun
  <2> QED BY <1>1, <2>1 DEF CancelReachesAnalysis
<1> QED BY <1>6, <1>7, <1>8, <1>9, <1>10, <1>11, <1>12 DEF IInv

LEMMA CreateRunKeeps ==
  ASSUME IInv, NEW r \in Runs, CreateRun(r)
  PROVE  IInv'
<1>1. TypeOK /\ Serving /\ runs[r].status = "absent"
  BY DEF IInv, CreateRun
<1>2. ~runs[r].cancelRequested /\ r \notin cancelling /\ cancelling \in SUBSET Runs
  BY <1>1, WaitingIsFree DEF TypeOK
<1>3. "queued" \in Status /\ runs' = [runs EXCEPT ![r].status = "queued"]
  BY DEF CreateRun, Status
<1>4. /\ runs' \in [Runs -> Run] /\ runs'[r].status = "queued"
      /\ runs'[r].cancelRequested = runs[r].cancelRequested
      /\ \A q \in Runs : q # r => runs'[q] = runs[q]
  BY <1>1, <1>3, StatusSet
<1>5. Asks(r)
  BY <1>1, <1>2, <1>4 DEF Asks, CreateRun
<1> QED BY <1>5, AsksKeeps

LEMMA RequestCancelKeeps ==
  ASSUME IInv, NEW r \in Runs, RequestCancel(r)
  PROVE  IInv'
<1>1. TypeOK /\ Serving /\ runs[r].status \in {"queued", "running"}
  BY DEF IInv, RequestCancel
<1>2. /\ runs' \in [Runs -> Run] /\ runs'[r].cancelRequested
      /\ runs[r].status = "running" => runs'[r].status = "running"
      /\ runs[r].status = "queued" => runs'[r].status = "cancelled"
      /\ \A q \in Runs : q # r => runs'[q] = runs[q]
  <2>1. runs \in [Runs -> Run] /\ "cancelled" \in Status /\ "running" \in Status
    BY <1>1 DEF TypeOK, Status, Terminal
  <2>2. CASE runs[r].status = "queued"
    <3>1. runs' = [runs EXCEPT ![r].cancelRequested = TRUE, ![r].status = "cancelled"]
      BY <2>1, <2>2 DEF RequestCancel, Run
    <3> QED BY <2>1, <2>2, <3>1 DEF Run
  <2>3. CASE runs[r].status = "running"
    <3>1. runs' = [runs EXCEPT ![r].cancelRequested = TRUE, ![r].status = "running"]
      BY <2>1, <2>3 DEF RequestCancel, Run
    <3> QED BY <2>1, <2>3, <3>1 DEF Run
  <2> QED BY <1>1, <2>2, <2>3
<1>3. cancelling' = cancelling \cup {r} /\ cancelling' \in SUBSET Runs
  BY <1>1 DEF RequestCancel, TypeOK
<1>4. Asks(r)
  BY <1>1, <1>2, <1>3 DEF Asks, RequestCancel
<1> QED BY <1>4, AsksKeeps

LEMMA SignalCancelKeeps ==
  ASSUME IInv, NEW r \in Runs, SignalCancel(r)
  PROVE  IInv'
<1>1. /\ TypeOK /\ Hands /\ Knows /\ Rows /\ Published /\ Clean /\ CancelReachesAnalysis
      /\ Serving /\ r \in cancelling /\ cancelling' = cancelling \ {r}
      /\ phase' = phase /\ pending' = pending /\ crashes' = crashes /\ shutdowns' = shutdowns
      /\ errors' = errors /\ evidence' = evidence /\ runs' = runs
  BY DEF IInv, SignalCancel, SameDaemon
<1>2. /\ workers' \in [Workers -> Worker]
      /\ \A v \in Workers :
            /\ workers'[v].pc = workers[v].pc /\ workers'[v].run = workers[v].run
            /\ ~(Registered(v) /\ workers[v].run = r) => workers'[v] = workers[v]
            /\ Registered(v) /\ workers[v].run = r => workers'[v].cancelled
  BY <1>1 DEF SignalCancel, TypeOK, Worker
<1>3. /\ Serving' <=> Serving
      /\ \A v \in Workers : HasRun(v)' <=> HasRun(v)
      /\ \A v \in Workers, q \in Runs : Has(v, q)' <=> Has(v, q)
      /\ \A q \in Runs : Cause(q) <=> Cause(q)'
  BY <1>1, <1>2 DEF Serving, HasRun, Has, Cause
<1>4. Cause(r)
  BY <1>1 DEF Rows, Cause
<1>5. TypeOK'
  BY <1>1, <1>2 DEF TypeOK
<1>6. Hands'
  BY <1>1, <1>2, <1>3 DEF Hands
<1>7. Knows'
  <2> SUFFICES ASSUME NEW v \in Workers, NEW q \in Runs, Has(v, q)
               PROVE  /\ workers[v].pc # "leave" => runs[q].status = "running"
                      /\ workers[v].pc = "leave" => runs[q].status \in {"running"} \cup Terminal
                      /\ workers[v].pc = "leave" /\ runs[q].status = "running" => errors > 0
                      /\ workers[v].pc = "complete" => q \in evidence
                      /\ workers'[v].cancelled \/ workers[v].pc = "mark_cancelled" => Cause(q)
    BY <1>1, <1>2, <1>3 DEF Knows
  <2>1. workers'[v].cancelled => workers[v].cancelled \/ q = r
    BY <1>2 DEF Has
  <2> QED BY <1>1, <1>4, <2>1 DEF Knows
<1>8. Rows'
  BY <1>1, <1>3 DEF Rows
<1>9. Published' /\ Clean'
  BY <1>1, <1>2, <1>3 DEF Published, Clean
<1>10. CancelReachesAnalysis'
  <2> SUFFICES ASSUME NEW v \in Workers, workers[v].pc = "analyze",
                      runs[workers[v].run].cancelRequested,
                      workers[v].run \notin cancelling'
               PROVE  workers'[v].cancelled \/ errors > 0
    BY <1>1, <1>2 DEF CancelReachesAnalysis
  <2>1. CASE workers[v].run = r
    BY <1>2, <2>1 DEF Registered
  <2>2. CASE workers[v].run # r
    BY <1>1, <1>2, <2>2 DEF CancelReachesAnalysis
  <2> QED BY <2>1, <2>2
<1> QED BY <1>5, <1>6, <1>7, <1>8, <1>9, <1>10 DEF IInv

LEMMA ShutdownKeeps ==
  ASSUME IInv, Shutdown
  PROVE  IInv'
<1>1. /\ TypeOK /\ Hands /\ Knows /\ Rows /\ Published /\ Clean /\ CancelReachesAnalysis
      /\ Serving /\ phase = "ready" /\ phase' = "closing" /\ cancelling' = cancelling
      /\ pending' = pending /\ crashes' = crashes /\ shutdowns' = shutdowns + 1
      /\ errors' = errors /\ evidence' = evidence /\ runs' = runs
      /\ shutdowns \in Nat
  BY DEF IInv, Shutdown, Serving, TypeOK
<1>2. /\ workers' \in [Workers -> Worker]
      /\ \A v \in Workers :
            /\ workers'[v].pc = workers[v].pc /\ workers'[v].run = workers[v].run
            /\ Registered(v) => workers'[v].cancelled
  BY <1>1 DEF Shutdown, TypeOK, Worker, Registered
<1>3. shutdowns' \in Nat /\ shutdowns' > 0
  BY <1>1
<1>4. /\ Serving'
      /\ \A v \in Workers : HasRun(v)' <=> HasRun(v)
      /\ \A v \in Workers, q \in Runs : Has(v, q)' <=> Has(v, q)
      /\ \A q \in Runs : Cause(q)'
  BY <1>1, <1>2, <1>3 DEF Serving, HasRun, Has, Cause
<1>5. TypeOK'
  BY <1>1, <1>2, <1>3 DEF TypeOK
<1>6. Hands'
  BY <1>1, <1>2, <1>3, <1>4 DEF Hands
<1>7. Knows'
  BY <1>1, <1>2, <1>4 DEF Knows
<1>8. Rows'
  BY <1>1, <1>4 DEF Rows
<1>9. Published' /\ Clean'
  BY <1>1, <1>2, <1>4 DEF Published, Clean
<1>10. CancelReachesAnalysis'
  BY <1>1, <1>2 DEF CancelReachesAnalysis, Registered
<1> QED BY <1>5, <1>6, <1>7, <1>8, <1>9, <1>10 DEF IInv

-----------------------------------------------------------------------------
(* The process while it has no worker: exit, crash and the steps of Start. *)

\* What the invariant comes to in a state without workers and handlers.
Quiet ==
    /\ \A w \in Workers : workers[w].pc = "poll"
    /\ workers \in [Workers -> Worker]
    /\ cancelling = {}
    /\ phase \in {"down", "recover", "reconcile", "ready"}
    /\ pending \in SUBSET Runs /\ (phase # "reconcile" => pending = {})
    /\ runs \in [Runs -> Run] /\ evidence \in SUBSET Runs
    /\ crashes \in Nat /\ shutdowns \in Nat /\ errors \in Nat
    /\ \A r \in Runs :
          /\ runs[r].status \in {"absent", "queued"} => ~runs[r].cancelRequested
          /\ runs[r].status = "cancelled" => Cause(r)
          /\ r \in pending => runs[r].status = "queued"
          /\ phase = "reconcile" => runs[r].status # "running"
          /\ phase = "ready" => runs[r].status # "running"
          /\ runs[r].status = "absent" => r \notin evidence
          /\ runs[r].status = "succeeded" => r \in evidence
          /\ runs[r].status = "queued" /\ r \in evidence =>
                 runs[r].recovered /\ phase # "ready" /\ (phase = "reconcile" => r \in pending)
    /\ crashes + errors = 0 =>
          \A r \in Runs : r \in evidence => runs[r].status = "succeeded"

LEMMA QuietIsEnough == Quiet => IInv
<1> SUFFICES ASSUME Quiet PROVE IInv
  OBVIOUS
<1>1. \A w \in Workers : ~HasRun(w)
  BY DEF Quiet, HasRun
<1>2. TypeOK
  BY DEF Quiet, TypeOK
<1>3. Hands
  BY <1>1 DEF Quiet, Hands
<1>4. Knows
  BY <1>1 DEF Knows, Has
<1>5. Rows
  BY DEF Quiet, Rows
<1>6. Published
  BY DEF Quiet, Published, Serving
<1>7. Clean
  BY DEF Quiet, Clean
<1>8. CancelReachesAnalysis
  BY DEF Quiet, CancelReachesAnalysis
<1> QED BY <1>2, <1>3, <1>4, <1>5, <1>6, <1>7, <1>8 DEF IInv

LEMMA QuietWhileDown ==
  ASSUME IInv, phase \in {"down", "recover", "reconcile"}
  PROVE  Quiet
<1>1. ~Serving /\ cancelling = {} /\ \A w \in Workers : ~HasRun(w)
  BY DEF IInv, Hands, Serving
<1>2. \A w \in Workers : workers[w].pc = "poll"
  BY <1>1 DEF HasRun
<1>3. crashes + errors = 0 => \A r \in Runs : r \in evidence => runs[r].status = "succeeded"
  BY <1>1 DEF IInv, Clean, Has
<1>4. phase # "reconcile" => pending = {}
  BY DEF IInv, Hands
<1> QED BY <1>1, <1>2, <1>3, <1>4 DEF Quiet, IInv, TypeOK, Rows, Published

LEMMA ExitKeeps ==
  ASSUME IInv, Exit
  PROVE  IInv'
<1>1. /\ TypeOK /\ Rows /\ Published /\ Clean
      /\ \A w \in Workers : ~HasRun(w) /\ workers[w].pc = "poll"
      /\ phase = "closing" /\ cancelling = {} /\ pending = {} /\ Serving
  BY DEF IInv, Exit, Hands, HasRun, Serving
<1>2. crashes + errors = 0 => \A r \in Runs : r \in evidence => runs[r].status = "succeeded"
  BY <1>1 DEF Clean, Has
<1>3. /\ phase' = "down" /\ pending' = pending /\ runs' = runs /\ evidence' = evidence
      /\ workers' = workers /\ cancelling' = cancelling
      /\ crashes' = crashes /\ shutdowns' = shutdowns /\ errors' = errors
  BY DEF Exit
<1>4. \A r \in Runs : Cause(r)' <=> Cause(r)
  BY <1>3 DEF Cause
<1>5. Quiet'
  BY <1>1, <1>2, <1>3, <1>4 DEF Quiet, TypeOK, Rows, Published
<1>6. Quiet' => IInv'
  BY QuietIsEnough, PTL
<1> QED BY <1>5, <1>6

LEMMA CrashKeeps ==
  ASSUME IInv, Crash
  PROVE  IInv'
<1>1. TypeOK /\ Rows /\ Published /\ crashes \in Nat /\ errors \in Nat
  BY DEF IInv, TypeOK
<1>2. /\ phase' = "down" /\ pending' = {} /\ runs' = runs /\ evidence' = evidence
      /\ workers' = [w \in Workers |-> IdleWorker] /\ cancelling' = {}
      /\ crashes' = crashes + 1 /\ shutdowns' = shutdowns /\ errors' = errors
  BY DEF Crash
<1>3. \A r \in Runs : Cause(r)' <=> Cause(r)
  BY <1>2 DEF Cause
<1>4. crashes' \in Nat /\ crashes' + errors' # 0
  BY <1>1, <1>2
<1>5. workers' \in [Workers -> Worker] /\ \A w \in Workers : workers'[w].pc = "poll"
  BY <1>2, IdleFields
<1>6. Quiet'
  BY <1>1, <1>2, <1>3, <1>4, <1>5 DEF Quiet, TypeOK, Rows, Published
<1>7. Quiet' => IInv'
  BY QuietIsEnough, PTL
<1> QED BY <1>6, <1>7

LEMMA LaunchKeeps ==
  ASSUME IInv, Launch
  PROVE  IInv'
<1>1. Quiet /\ phase = "down"
  BY QuietWhileDown DEF Launch
<1>2. /\ phase' = "recover" /\ pending' = pending /\ runs' = runs /\ evidence' = evidence
      /\ workers' = workers /\ cancelling' = cancelling
      /\ crashes' = crashes /\ shutdowns' = shutdowns /\ errors' = errors
  BY DEF Launch
<1>3. Quiet'
  BY <1>1, <1>2 DEF Quiet, Cause
<1>4. Quiet' => IInv'
  BY QuietIsEnough, PTL
<1> QED BY <1>3, <1>4

LEMMA RecoverRunKeeps ==
  ASSUME IInv, NEW r \in Runs, RecoverRun(r)
  PROVE  IInv'
<1>1. Quiet /\ TypeOK /\ phase = "recover" /\ runs[r].status = "running"
  BY QuietWhileDown DEF RecoverRun, Interrupted, IInv
<1>2. /\ phase' = phase /\ pending' = pending /\ evidence' = evidence
      /\ workers' = workers /\ cancelling' = cancelling
      /\ crashes' = crashes /\ shutdowns' = shutdowns /\ errors' = errors
  BY DEF RecoverRun
<1>3. /\ runs' \in [Runs -> Run]
      /\ runs'[r].cancelRequested = runs[r].cancelRequested
      /\ runs[r].cancelRequested => runs'[r].status = "cancelled"
      /\ ~runs[r].cancelRequested => runs'[r].status = "queued" /\ runs'[r].recovered
      /\ \A q \in Runs : q # r => runs'[q] = runs[q]
  <2>1. runs[r] \in Run /\ "cancelled" \in Status /\ "queued" \in Status
    BY <1>1, RowFields DEF Status, Terminal
  <2>2. CASE runs[r].cancelRequested
    <3> DEFINE row == [runs[r] EXCEPT !.status = "cancelled"]
    <3>1. /\ row \in Run /\ row.status = "cancelled"
          /\ row.cancelRequested = runs[r].cancelRequested
      BY <2>1 DEF Run
    <3>2. runs' = [runs EXCEPT ![r] = row]
      BY <1>1, <2>2 DEF RecoverRun, TypeOK
    <3> HIDE DEF row
    <3> QED BY <1>1, <2>2, <3>1, <3>2 DEF TypeOK
  <2>3. CASE ~runs[r].cancelRequested
    <3> DEFINE row == [runs[r] EXCEPT !.status = "queued", !.recovered = TRUE]
    <3>1. /\ row \in Run /\ row.status = "queued" /\ row.recovered
          /\ row.cancelRequested = runs[r].cancelRequested
      BY <2>1 DEF Run
    <3>2. runs' = [runs EXCEPT ![r] = row]
      BY <1>1, <2>3 DEF RecoverRun, TypeOK
    <3> HIDE DEF row
    <3> QED BY <1>1, <2>3, <3>1, <3>2 DEF TypeOK
  <2> QED BY <2>2, <2>3
<1>4. crashes + errors = 0 => r \notin evidence
  BY <1>1 DEF Quiet
<1>5. pending = {}
  BY <1>1 DEF Quiet
<1>6. /\ \A q \in Runs : q # r => (Cause(q)' <=> Cause(q))
      /\ runs[r].cancelRequested => Cause(r)'
  BY <1>2, <1>3 DEF Cause
<1>7. Quiet'
  BY <1>1, <1>2, <1>3, <1>4, <1>5, <1>6 DEF Quiet
<1>8. Quiet' => IInv'
  BY QuietIsEnough, PTL
<1> QED BY <1>7, <1>8

LEMMA ListRecoveredKeeps ==
  ASSUME IInv, ListRecovered
  PROVE  IInv'
<1>1. Quiet /\ phase = "recover" /\ \A r \in Runs : runs[r].status # "running"
  BY QuietWhileDown DEF ListRecovered, Interrupted
<1>2. /\ phase' = "reconcile" /\ runs' = runs /\ evidence' = evidence
      /\ workers' = workers /\ cancelling' = cancelling
      /\ crashes' = crashes /\ shutdowns' = shutdowns /\ errors' = errors
      /\ \A r \in Runs : r \in pending' <=> runs[r].status = "queued" /\ runs[r].recovered
      /\ pending' \in SUBSET Runs
  BY DEF ListRecovered
<1>3. Quiet'
  BY <1>1, <1>2 DEF Quiet, Cause
<1>4. Quiet' => IInv'
  BY QuietIsEnough, PTL
<1> QED BY <1>3, <1>4

LEMMA ReconcileKeeps ==
  ASSUME IInv, NEW r \in Runs, Reconcile(r)
  PROVE  IInv'
<1>1. Quiet /\ TypeOK /\ phase = "reconcile" /\ r \in pending /\ runs[r].status = "queued"
  BY QuietWhileDown DEF Reconcile, IInv, Rows
<1>2. /\ phase' = phase /\ pending' = pending \ {r} /\ evidence' = evidence
      /\ workers' = workers /\ cancelling' = cancelling
      /\ crashes' = crashes /\ shutdowns' = shutdowns
  BY DEF Reconcile
<1>3. ASSUME NEW status \in {"succeeded", "failed"},
             runs' = [runs EXCEPT ![r].status = status],
             (r \in evidence /\ errors' = errors)
                 \/ (status = "failed" /\ errors' = errors + 1)
      PROVE  Quiet'
  <2>1. status \in Status
    BY DEF Status, Terminal
  <2>2. /\ runs' \in [Runs -> Run] /\ runs'[r].status = status
        /\ \A q \in Runs : q # r => runs'[q] = runs[q]
    BY <1>1, <1>3, <2>1, StatusSet
  <2>3. \A q \in Runs : q # r => (Cause(q)' <=> Cause(q))
    BY <1>2, <2>2 DEF Cause
  <2>4. runs'[r].status \in {"succeeded", "failed"}
        /\ (runs'[r].status = "succeeded" => r \in evidence)
    BY <1>3, <2>2
  <2>5. ASSUME crashes + errors' = 0, NEW q \in Runs, q \in evidence
        PROVE  runs'[q].status = "succeeded"
    <3>1. crashes \in Nat /\ errors \in Nat
      BY <1>1 DEF Quiet
    <3>2. errors' = errors /\ r \in evidence
      BY <1>3, <2>5, <3>1
    <3>3. \A p \in Runs : p \in evidence => runs[p].status = "succeeded"
      BY <1>1, <2>5, <3>2 DEF Quiet
    <3>4. FALSE
      BY <1>1, <3>2, <3>3
    <3> QED BY <3>4
  <2>6. ASSUME NEW q \in Runs
        PROVE  /\ runs'[q].status \in {"absent", "queued"} => ~runs'[q].cancelRequested
               /\ runs'[q].status = "cancelled" => Cause(q)'
               /\ q \in pending' => runs'[q].status = "queued"
               /\ runs'[q].status # "running"
               /\ runs'[q].status = "absent" => q \notin evidence
               /\ runs'[q].status = "succeeded" => q \in evidence
               /\ runs'[q].status = "queued" /\ q \in evidence =>
                      runs'[q].recovered /\ q \in pending'
    <3>1. CASE q = r
      BY <1>2, <2>4, <3>1
    <3>2. CASE q # r
      BY <1>1, <1>2, <2>2, <2>3, <3>2 DEF Quiet
    <3> QED BY <3>1, <3>2
  <2>7. /\ \A w \in Workers : workers[w].pc = "poll"
        /\ workers \in [Workers -> Worker] /\ cancelling = {}
        /\ pending' \in SUBSET Runs /\ evidence \in SUBSET Runs
        /\ crashes \in Nat /\ shutdowns \in Nat /\ errors' \in Nat
    BY <1>1, <1>2, <1>3 DEF Quiet
  <2> QED BY <1>1, <1>2, <2>2, <2>5, <2>6, <2>7 DEF Quiet
<1>4. ASSUME r \notin evidence, runs' = runs, errors' = errors
      PROVE  Quiet'
  <2>1. \A q \in Runs : q \in pending' <=> q \in pending /\ q # r
    BY <1>2
  <2>2. \A q \in Runs : Cause(q)' <=> Cause(q)
    BY <1>2, <1>4 DEF Cause
  <2>3. \A q \in Runs : q \in evidence => q # r
    BY <1>4
  <2>4. pending' \in SUBSET Runs
    BY <1>1, <1>2 DEF Quiet
  <2> QED BY <1>1, <1>2, <1>4, <2>1, <2>2, <2>3, <2>4 DEF Quiet
<1>5. Quiet'
  <2>1. CASE r \notin evidence /\ UNCHANGED <<runs, errors>>
    BY <1>4, <2>1
  <2>2. CASE /\ r \in evidence /\ UNCHANGED errors
             /\ \E status \in {"succeeded", "failed"} :
                    runs' = [runs EXCEPT ![r].status = status]
    <3>1. PICK status \in {"succeeded", "failed"} : runs' = [runs EXCEPT ![r].status = status]
      BY <2>2
    <3> QED BY <1>3, <2>2, <3>1
  <2>3. CASE SomeError /\ runs' = [runs EXCEPT ![r].status = "failed"]
    BY <1>3, <2>3 DEF SomeError
  <2> QED BY <2>1, <2>2, <2>3 DEF Reconcile
<1>6. Quiet' => IInv'
  BY QuietIsEnough, PTL
<1> QED BY <1>5, <1>6

LEMMA ReadyKeeps ==
  ASSUME IInv, Ready
  PROVE  IInv'
<1>1. Quiet /\ phase = "reconcile" /\ pending = {}
  BY QuietWhileDown DEF Ready
<1>2. /\ phase' = "ready" /\ pending' = pending /\ runs' = runs /\ evidence' = evidence
      /\ workers' = workers /\ cancelling' = cancelling
      /\ crashes' = crashes /\ shutdowns' = shutdowns /\ errors' = errors
  BY DEF Ready
<1>3. Quiet'
  BY <1>1, <1>2 DEF Quiet, Cause
<1>4. Quiet' => IInv'
  BY QuietIsEnough, PTL
<1> QED BY <1>3, <1>4

-----------------------------------------------------------------------------
(* The invariant, and what follows from it.                                *)

LEMMA StartupKeeps ==
  ASSUME IInv, Startup
  PROVE  IInv'
<1>1. CASE Launch
  BY <1>1, LaunchKeeps
<1>2. CASE ListRecovered
  BY <1>2, ListRecoveredKeeps
<1>3. CASE Ready
  BY <1>3, ReadyKeeps
<1>4. ASSUME NEW r \in Runs, RecoverRun(r) \/ Reconcile(r)
      PROVE  IInv'
  BY <1>4, RecoverRunKeeps, ReconcileKeeps
<1> QED BY <1>1, <1>2, <1>3, <1>4 DEF Startup

LEMMA NextKeeps ==
  ASSUME IInv, Next
  PROVE  IInv'
<1>1. ASSUME NEW r \in Runs, CreateRun(r) \/ RequestCancel(r) \/ SignalCancel(r)
      PROVE  IInv'
  BY <1>1, CreateRunKeeps, RequestCancelKeeps, SignalCancelKeeps
<1>2. ASSUME NEW w \in Workers, NEW r \in Runs, Claim(w, r)
      PROVE  IInv'
  BY <1>2, ClaimKeeps
<1>3. ASSUME NEW w \in Workers, Step(w)
      PROVE  IInv'
  BY <1>3, StepKeepsOne
<1>4. CASE Startup
  BY <1>4, StartupKeeps
<1>5. CASE Shutdown
  BY <1>5, ShutdownKeeps
<1>6. CASE Exit
  BY <1>6, ExitKeeps
<1>7. CASE Crash
  BY <1>7, CrashKeeps
<1> QED BY <1>1, <1>2, <1>3, <1>4, <1>5, <1>6, <1>7 DEF Next, Request

LEMMA StutterKeeps ==
  ASSUME IInv, UNCHANGED vars
  PROVE  IInv'
<1>1. /\ phase' = phase /\ pending' = pending /\ runs' = runs /\ evidence' = evidence
      /\ workers' = workers /\ cancelling' = cancelling
      /\ crashes' = crashes /\ shutdowns' = shutdowns /\ errors' = errors
  BY DEF vars
<1>2. TypeOK' /\ Published'
  BY <1>1 DEF IInv, TypeOK, Published, Serving
<1>3. Hands' /\ CancelReachesAnalysis'
  BY <1>1 DEF IInv, Hands, HasRun, Serving, CancelReachesAnalysis
<1>4. Knows' /\ Rows' /\ Clean'
  BY <1>1 DEF IInv, Knows, Rows, Clean, Has, HasRun, Cause
<1> QED BY <1>2, <1>3, <1>4 DEF IInv

\* The conjunction of what rows, workers and published evidence say of each other is
\* an invariant of the daemon (manager.go, runs.go), whatever crashes and fails.
THEOREM Invariance == Spec => []IInv
<1>1. Init => IInv
  BY InitHolds
<1>2. IInv /\ [Next]_vars => IInv'
  BY NextKeeps, StutterKeeps
<1> QED BY <1>1, <1>2, PTL DEF Spec

\* Every variable keeps its shape.
THEOREM TypeCorrect == Spec => []TypeOK
<1>1. IInv => TypeOK
  BY DEF IInv
<1> QED BY <1>1, Invariance, PTL

\* A run that shows a report (completeRun) has the evidence CommitEvidence published.
THEOREM ReportsAreBacked == Spec => []ReportHasEvidence
<1>1. IInv => ReportHasEvidence
  BY DEF IInv, Published, ReportHasEvidence
<1> QED BY <1>1, Invariance, PTL

\* Without crashes and errors a run closed without a report leaves nothing published.
THEOREM EvidenceIsTakenBack == Spec => []NoOrphanEvidence
<1>1. IInv => NoOrphanEvidence
  <2> SUFFICES ASSUME IInv, crashes + errors = 0, NEW r \in Runs,
                      runs[r].status \in {"failed", "cancelled"}, r \in evidence
               PROVE  \E w \in Workers : HasRun(w) /\ workers[w].run = r
    BY DEF NoOrphanEvidence
  <2> QED BY DEF IInv, Clean, Has
<1> QED BY <1>1, Invariance, PTL

\* Two goroutines never have one run, and a running run of a serving daemon has one
\* unless a storage call failed.
THEOREM WorkersShareNothing == Spec => []RunningHasOneWorker
<1>1. IInv => RunningHasOneWorker
  <2> SUFFICES ASSUME IInv, NEW r \in Runs
               PROVE  LET hands == {w \in Workers : HasRun(w) /\ workers[w].run = r} IN
                      /\ Cardinality(hands) <= 1
                      /\ (phase = "ready" /\ runs[r].status = "running") =>
                             hands # {} \/ errors > 0
    BY DEF RunningHasOneWorker
  <2> DEFINE hands == {w \in Workers : HasRun(w) /\ workers[w].run = r}
  <2>1. \A w, v \in hands : w = v
    BY DEF IInv, Hands
  <2>2. Cardinality(hands) <= 1
    <3> HIDE DEF hands
    <3>1. CASE hands = {}
      <4>1. Cardinality(hands) = 0
        BY <3>1, FS_EmptySet
      <4> QED BY <4>1
    <3>2. CASE hands # {}
      <4>1. PICK w \in hands : hands = {w}
        BY <2>1, <3>2
      <4>2. Cardinality({w}) = 1
        BY FS_Singleton
      <4> QED BY <4>1, <4>2
    <3> QED BY <3>1, <3>2
  <2>3. phase = "ready" /\ runs[r].status = "running" => hands # {} \/ errors > 0
    BY DEF IInv, Rows, Has
  <2> QED BY <2>2, <2>3
<1> QED BY <1>1, Invariance, PTL

\* Once Cancel has returned, an analysis of the run has a cancelled context, unless a
\* storage call failed.
THEOREM CancelArrives == Spec => []CancelReachesAnalysis
<1>1. IInv => CancelReachesAnalysis
  BY DEF IInv
<1> QED BY <1>1, Invariance, PTL

\* CommitEvidence never finds the evidence of an earlier attempt.
THEOREM RetriesStartClean == Spec => []RetryStartsClean
<1>1. IInv => RetryStartsClean
  BY DEF IInv, Published, RetryStartsClean
<1> QED BY <1>1, Invariance, PTL

\* Only a request or a shutdown ends a run as cancelled.
THEOREM CancelsHaveCause == Spec => []CancelledForCause
<1>1. IInv => CancelledForCause
  BY DEF IInv, Rows, Cause, CancelledForCause
<1> QED BY <1>1, Invariance, PTL

-----------------------------------------------------------------------------
(* The daemon keeps its promise.                                           *)

\* One row changes: the client sees that run turn from one standing to another.
LEMMA Turns ==
  ASSUME NEW r \in Runs, \A q \in Runs : q # r => runs'[q] = runs[q]
  PROVE  /\ Standing' = [Standing EXCEPT ![r] = StandingOf(r)']
         /\ Standing[r] = StandingOf(r)
<1>1. \A q \in Runs : q # r => StandingOf(q)' = StandingOf(q)
  BY DEF StandingOf
<1> QED BY <1>1 DEF Standing

\* What the client may see happen to a run.
MayBecome(from, to) ==
    \/ to = from
    \/ from = "new" /\ to = "open"
    \/ from = "open" /\ to \in {"stopping", "reported"}
    \/ from \in {"open", "stopping"} /\ to \in {"failed", "cancelled"}

LEMMA PromisedTurn ==
  ASSUME NEW r \in Runs, \A q \in Runs : q # r => runs'[q] = runs[q],
         MayBecome(StandingOf(r), StandingOf(r)')
  PROVE  [Promise!Next]_Standing
<1> DEFINE from == StandingOf(r)
           to == StandingOf(r)'
<1>1. Standing' = [Standing EXCEPT ![r] = to] /\ Standing[r] = from
  BY Turns
<1>2. \/ to = from
      \/ from = "new" /\ to = "open"
      \/ from = "open" /\ to = "stopping"
      \/ from = "open" /\ to = "reported"
      \/ from \in {"open", "stopping"} /\ to = "failed"
      \/ from \in {"open", "stopping"} /\ to = "cancelled"
  BY DEF MayBecome
<1>3. Standing = [q \in Runs |-> Standing[q]]
  BY DEF Standing
<1> HIDE DEF from, to
<1>4. CASE to = from
  <2>1. Standing' = Standing
    BY <1>1, <1>3, <1>4
  <2> QED BY <2>1
<1>5. CASE from = "new" /\ to = "open"
  BY <1>1, <1>5 DEF Promise!Next, Promise!Accept, Promise!Become
<1>6. CASE from = "open" /\ to = "stopping"
  BY <1>1, <1>6 DEF Promise!Next, Promise!AskToStop, Promise!Become
<1>7. CASE from = "open" /\ to = "reported"
  BY <1>1, <1>7 DEF Promise!Next, Promise!Report, Promise!Become
<1>8. CASE from \in {"open", "stopping"} /\ to = "failed"
  BY <1>1, <1>8 DEF Promise!Next, Promise!Fail, Promise!Become
<1>9. CASE from \in {"open", "stopping"} /\ to = "cancelled"
  BY <1>1, <1>9 DEF Promise!Next, Promise!Stop, Promise!Become
<1> QED BY <1>2, <1>4, <1>5, <1>6, <1>7, <1>8, <1>9

LEMMA SameRows ==
  ASSUME runs' = runs
  PROVE  [Promise!Next]_Standing
<1>1. Standing' = Standing
  BY DEF Standing, StandingOf
<1> QED BY <1>1

\* What the client reads in a row.
LEMMA Reads ==
  ASSUME NEW r \in Runs
  PROVE  /\ runs[r].status = "absent" => StandingOf(r) = "new"
         /\ runs[r].status = "succeeded" => StandingOf(r) = "reported"
         /\ runs[r].status = "failed" => StandingOf(r) = "failed"
         /\ runs[r].status = "cancelled" => StandingOf(r) = "cancelled"
         /\ runs[r].status \in {"queued", "running"} /\ runs[r].cancelRequested =>
                StandingOf(r) = "stopping"
         /\ runs[r].status \in {"queued", "running"} /\ ~runs[r].cancelRequested =>
                StandingOf(r) = "open"
  BY DEF StandingOf

LEMMA ReadsNext ==
  ASSUME NEW r \in Runs
  PROVE  /\ runs'[r].status = "absent" => StandingOf(r)' = "new"
         /\ runs'[r].status = "succeeded" => StandingOf(r)' = "reported"
         /\ runs'[r].status = "failed" => StandingOf(r)' = "failed"
         /\ runs'[r].status = "cancelled" => StandingOf(r)' = "cancelled"
         /\ runs'[r].status \in {"queued", "running"} /\ runs'[r].cancelRequested =>
                StandingOf(r)' = "stopping"
         /\ runs'[r].status \in {"queued", "running"} /\ ~runs'[r].cancelRequested =>
                StandingOf(r)' = "open"
  BY DEF StandingOf

\* A row takes a new status, with the flag as it was.
LEMMA StatusTurn ==
  ASSUME TypeOK, NEW r \in Runs, NEW status \in Status,
         runs' = [runs EXCEPT ![r].status = status],
         \/ runs[r].status = "absent" /\ status = "queued" /\ ~runs[r].cancelRequested
         \/ /\ runs[r].status \in {"queued", "running"}
            /\ status \in {"failed", "cancelled"}
         \/ /\ runs[r].status \in {"queued", "running"} /\ ~runs[r].cancelRequested
            /\ status = "succeeded"
  PROVE  [Promise!Next]_Standing
<1>1. /\ runs'[r].status = status /\ runs'[r].cancelRequested = runs[r].cancelRequested
      /\ \A q \in Runs : q # r => runs'[q] = runs[q]
  BY StatusSet
<1>2. MayBecome(StandingOf(r), StandingOf(r)')
  BY <1>1, Reads, ReadsNext DEF MayBecome
<1> QED BY <1>1, <1>2, PromisedTurn

LEMMA RequestIsPromised ==
  ASSUME IInv, NEW r \in Runs, CreateRun(r) \/ RequestCancel(r)
  PROVE  [Promise!Next]_Standing
<1>1. TypeOK /\ runs \in [Runs -> Run]
  BY DEF IInv, TypeOK
<1>2. CASE CreateRun(r)
  <2>1. "queued" \in Status /\ ~runs[r].cancelRequested
    BY <1>2, WaitingIsFree DEF CreateRun, Status
  <2> QED BY <1>1, <1>2, <2>1, StatusTurn DEF CreateRun
<1>3. CASE RequestCancel(r)
  <2>1. runs[r].status = "queued" => ~runs[r].cancelRequested
    BY WaitingIsFree
  <2>2. CASE runs[r].status = "queued"
    <3>1. runs' = [runs EXCEPT ![r].cancelRequested = TRUE, ![r].status = "cancelled"]
      BY <1>1, <1>3, <2>2 DEF RequestCancel, Run
    <3>2. runs'[r].status = "cancelled" /\ \A q \in Runs : q # r => runs'[q] = runs[q]
      BY <1>1, <3>1 DEF Run
    <3>3. MayBecome(StandingOf(r), StandingOf(r)')
      BY <2>1, <2>2, <3>2, Reads, ReadsNext DEF MayBecome
    <3> QED BY <3>2, <3>3, PromisedTurn
  <2>3. CASE runs[r].status = "running"
    <3>1. runs' = [runs EXCEPT ![r].cancelRequested = TRUE, ![r].status = "running"]
      BY <1>1, <1>3, <2>3 DEF RequestCancel, Run
    <3>2. /\ runs'[r].status = "running" /\ runs'[r].cancelRequested
          /\ \A q \in Runs : q # r => runs'[q] = runs[q]
      BY <1>1, <3>1 DEF Run
    <3>3. MayBecome(StandingOf(r), StandingOf(r)')
      BY <2>3, <3>2, Reads, ReadsNext DEF MayBecome
    <3> QED BY <3>2, <3>3, PromisedTurn
  <2> QED BY <1>3, <2>2, <2>3 DEF RequestCancel
<1> QED BY <1>2, <1>3

LEMMA ClaimIsPromised ==
  ASSUME IInv, NEW w \in Workers, NEW r \in Runs, Claim(w, r)
  PROVE  [Promise!Next]_Standing
<1>1. runs \in [Runs -> Run] /\ runs[r].status = "queued"
  BY DEF IInv, TypeOK, Claim
<1>2. /\ runs'[r].status = "running"
      /\ runs'[r].cancelRequested = runs[r].cancelRequested
      /\ \A q \in Runs : q # r => runs'[q] = runs[q]
  BY <1>1 DEF Claim, Run
<1>3. MayBecome(StandingOf(r), StandingOf(r)')
  BY <1>1, <1>2, Reads, ReadsNext DEF MayBecome
<1> QED BY <1>2, <1>3, PromisedTurn

LEMMA CompleteIsPromised ==
  ASSUME IInv, NEW w \in Workers, Complete(w)
  PROVE  [Promise!Next]_Standing
<1>1. TypeOK /\ HasRun(w) /\ "succeeded" \in Status
  BY DEF IInv, Complete, At, HasRun, Status, Terminal
<1>2. PICK r \in Runs : r = workers[w].run
  BY <1>1, Knowledge
<1>3. CASE runs' = runs
  BY <1>3, SameRows
<1>4. CASE /\ runs[r].status = "running" /\ ~runs[r].cancelRequested
           /\ runs' = [runs EXCEPT ![r].status = "succeeded"]
  BY <1>1, <1>4, StatusTurn
<1> QED BY <1>2, <1>3, <1>4 DEF Complete

LEMMA MarkIsPromised ==
  ASSUME IInv, NEW w \in Workers, Mark(w)
  PROVE  [Promise!Next]_Standing
<1>1. TypeOK /\ HasRun(w) /\ {"failed", "cancelled"} \subseteq Status
  BY DEF IInv, Mark, At, HasRun, Status, Terminal
<1>2. PICK r \in Runs : r = workers[w].run
  BY <1>1, Knowledge
<1>3. CASE runs' = runs
  BY <1>3, SameRows
<1>4. ASSUME NEW status \in {"failed", "cancelled"}, runs[r].status = "running",
             runs' = [runs EXCEPT ![r].status = status]
      PROVE  [Promise!Next]_Standing
  BY <1>1, <1>4, StatusTurn
<1> QED BY <1>2, <1>3, <1>4 DEF Mark, Finish

LEMMA StepIsPromised ==
  ASSUME IInv, NEW w \in Workers, Step(w)
  PROVE  [Promise!Next]_Standing
<1>1. CASE Complete(w) \/ Mark(w)
  BY <1>1, CompleteIsPromised, MarkIsPromised
<1>2. CASE Announce(w) \/ AnnounceFails(w) \/ Register(w) \/ CheckCancel(w)
  BY <1>2, SameRows DEF Announce, AnnounceFails, Register, CheckCancel
<1>3. CASE AnalyzeEnds(w) \/ Verify(w) \/ Commit(w) \/ CommitSyncFails(w)
  BY <1>3, SameRows DEF AnalyzeEnds, Verify, Commit, CommitSyncFails
<1>4. CASE CompleteFails(w) \/ Discard(w) \/ Recheck(w) \/ Leave(w)
  BY <1>4, SameRows DEF CompleteFails, Discard, Recheck, Leave
<1> QED BY <1>1, <1>2, <1>3, <1>4 DEF Step

LEMMA RecoverIsPromised ==
  ASSUME IInv, NEW r \in Runs, RecoverRun(r)
  PROVE  [Promise!Next]_Standing
<1>1. /\ TypeOK /\ runs \in [Runs -> Run] /\ runs[r] \in Run
      /\ runs[r].status = "running" /\ "cancelled" \in Status
  BY DEF IInv, TypeOK, RecoverRun, Interrupted, Status, Terminal
<1>2. CASE runs[r].cancelRequested
  <2>1. runs'[r].status = "cancelled" /\ \A q \in Runs : q # r => runs'[q] = runs[q]
    BY <1>1, <1>2 DEF RecoverRun, Run
  <2>2. MayBecome(StandingOf(r), StandingOf(r)')
    BY <1>1, <1>2, <2>1, Reads, ReadsNext DEF MayBecome
  <2> QED BY <2>1, <2>2, PromisedTurn
<1>3. CASE ~runs[r].cancelRequested
  <2>1. /\ runs'[r].status = "queued" /\ ~runs'[r].cancelRequested
        /\ \A q \in Runs : q # r => runs'[q] = runs[q]
    BY <1>1, <1>3 DEF RecoverRun, Run
  <2>2. MayBecome(StandingOf(r), StandingOf(r)')
    BY <1>1, <1>3, <2>1, Reads, ReadsNext DEF MayBecome
  <2> QED BY <2>1, <2>2, PromisedTurn
<1> QED BY <1>2, <1>3

LEMMA ReconcileIsPromised ==
  ASSUME IInv, NEW r \in Runs, Reconcile(r)
  PROVE  [Promise!Next]_Standing
<1>1. TypeOK /\ runs[r].status = "queued" /\ {"succeeded", "failed"} \subseteq Status
  BY DEF IInv, Rows, Reconcile, Status, Terminal
<1>2. ~runs[r].cancelRequested
  BY <1>1, WaitingIsFree
<1>3. CASE runs' = runs
  BY <1>3, SameRows
<1>4. ASSUME NEW status \in {"succeeded", "failed"},
             runs' = [runs EXCEPT ![r].status = status]
      PROVE  [Promise!Next]_Standing
  BY <1>1, <1>2, <1>4, StatusTurn
<1>5. runs' = runs \/ \E status \in {"succeeded", "failed"} :
                          runs' = [runs EXCEPT ![r].status = status]
  BY DEF Reconcile
<1> QED BY <1>3, <1>4, <1>5

LEMMA NextIsPromised ==
  ASSUME IInv, [Next]_vars
  PROVE  [Promise!Next]_Standing
<1>1. ASSUME NEW r \in Runs, CreateRun(r) \/ RequestCancel(r)
      PROVE  [Promise!Next]_Standing
  BY <1>1, RequestIsPromised
<1>2. ASSUME NEW w \in Workers, NEW r \in Runs, Claim(w, r)
      PROVE  [Promise!Next]_Standing
  BY <1>2, ClaimIsPromised
<1>3. ASSUME NEW w \in Workers, Step(w)
      PROVE  [Promise!Next]_Standing
  BY <1>3, StepIsPromised
<1>4. ASSUME NEW r \in Runs, RecoverRun(r) \/ Reconcile(r)
      PROVE  [Promise!Next]_Standing
  BY <1>4, RecoverIsPromised, ReconcileIsPromised
<1>5. CASE \E r \in Runs : SignalCancel(r)
  BY <1>5, SameRows DEF SignalCancel
<1>6. CASE Launch \/ ListRecovered \/ Ready \/ Shutdown \/ Exit \/ Crash \/ UNCHANGED vars
  BY <1>6, SameRows DEF Launch, ListRecovered, Ready, Shutdown, Exit, Crash, vars
<1> QED BY <1>1, <1>2, <1>3, <1>4, <1>5, <1>6 DEF Next, Request, Startup

LEMMA InitIsPromised == Init => Promise!Init
<1> SUFFICES ASSUME Init PROVE Promise!Init
  OBVIOUS
<1>1. \A r \in Runs : StandingOf(r) = "new"
  BY Reads DEF Init
<1> QED BY <1>1 DEF Promise!Init, Standing

\* Through crashes, shutdowns and errors every step of the daemon is a step of its
\* promise to the client or hidden from it.
THEOREM PromiseIsKept == Spec => ImplementsPromise
<1>1. IInv /\ [Next]_vars => [Promise!Next]_Standing
  BY NextIsPromised
<1> QED BY <1>1, InitIsPromised, Invariance, PTL DEF Spec, ImplementsPromise, Promise!Spec

=============================================================================
