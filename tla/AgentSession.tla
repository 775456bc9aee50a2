----------------------------- MODULE AgentSession -----------------------------
(***************************************************************************)
(* One terminal session of the server: the turns a person types in the     *)
(* dashboard, the agent that holds the session under a lease, and the long *)
(* polls through which agents collect turns and interrupts.                *)
(*                                                                         *)
(* Every route runs to its end in one turn of the event loop, so an action *)
(* is a whole request.  A poll that finds nothing is parked in `waiters'   *)
(* until a turn, an interrupt, its timer or the session's end resolves it; *)
(* the server does not notice that its client has gone.                    *)
(*                                                                         *)
(* A lease (90 s) outlives a poll (25 s at most) by far, so the clock is   *)
(* abstracted to `overdue': the holder has been silent for its lease.      *)
(* What is said, the transcript and its streams are left out; speaking     *)
(* renews the lease and changes nothing else modelled here.                *)
(***************************************************************************)
EXTENDS Naturals, Sequences, SequencesExt

CONSTANTS
    Agents,         \* agent ids, minted at attach
    NoAgent,        \* null value
    MaxTurns,       \* bound: turns typed in one behaviour
    MaxWaiters      \* bound: polls parked at once

ASSUME ConstantsAssumption ==
    /\ NoAgent \notin Agents
    /\ MaxTurns \in Nat
    /\ MaxWaiters \in Nat

VARIABLES
    open,       \* the session is in the store
    spoken,     \* turns typed so far; a turn is its number
    pending,    \* turns no agent has collected, oldest first
    interrupt,  \* cancelRequested
    holder,     \* attachment.agentId
    overdue,    \* attachmentExpiresAt has passed
    waiters,    \* agents of the parked polls, oldest first
    handed      \* history: who was given each turn

vars == <<open, spoken, pending, interrupt, holder, overdue, waiters, handed>>

Turns == 1 .. MaxTurns

Init ==
    /\ open = TRUE
    /\ spoken = 0
    /\ pending = <<>>
    /\ interrupt = FALSE
    /\ holder = NoAgent
    /\ overdue = FALSE
    /\ waiters = <<>>
    /\ handed = [t \in Turns |-> NoAgent]

Waiting(a) == \E i \in DOMAIN waiters : waiters[i] = a

\* Mutant: the backlog is copied, not taken.
CopyTo(a) ==
    /\ handed' = [t \in Turns |->
                    IF \E i \in DOMAIN pending : pending[i] = t THEN a ELSE handed[t]]
    /\ UNCHANGED pending

\* All pending turns are taken for one agent.
HandTo(a) ==
    /\ handed' = [t \in Turns |->
                    IF \E i \in DOMAIN pending : pending[i] = t THEN a ELSE handed[t]]
    /\ pending' = <<>>

\* Mutant: the turn is taken from the queue before anyone is found to take it.
WakeAnyway(turns, flag) ==
    /\ pending' = <<>>
    /\ interrupt' = FALSE
    /\ waiters' = IF waiters = <<>> THEN <<>> ELSE Tail(waiters)
    /\ handed' = [t \in Turns |->
                    IF waiters # <<>> /\ \E i \in DOMAIN turns : turns[i] = t
                    THEN Head(waiters) ELSE handed[t]]

\* The oldest parked poll, and only that one, is answered with everything there is.
Wake(turns, flag) ==
    \/ /\ waiters = <<>>
       /\ pending' = turns
       /\ interrupt' = flag
       /\ UNCHANGED <<waiters, handed>>
    \/ /\ waiters # <<>>
       /\ handed' = [t \in Turns |->
                        IF \E i \in DOMAIN turns : turns[i] = t
                        THEN Head(waiters) ELSE handed[t]]
       /\ waiters' = Tail(waiters)
       /\ pending' = <<>>
       /\ interrupt' = FALSE

-----------------------------------------------------------------------------
(* The dashboard.                                                          *)

Say ==
    /\ open
    /\ spoken < MaxTurns
    /\ spoken' = spoken + 1
    /\ Wake(Append(pending, spoken + 1), interrupt)
    /\ UNCHANGED <<open, holder, overdue>>

Cancel ==
    /\ open
    /\ Wake(pending, TRUE)
    /\ UNCHANGED <<open, spoken, holder, overdue>>

\* Listing, opening or streaming a session, and speaking into it, looks at the lease.
Presence ==
    /\ open
    /\ overdue
    /\ holder' = NoAgent
    /\ overdue' = FALSE
    /\ UNCHANGED <<open, spoken, pending, interrupt, waiters, handed>>

\* Deleted, evicted as the oldest of 24, or the server shuts down: every parked poll
\* is answered with nothing.
Close ==
    /\ open
    /\ open' = FALSE
    /\ waiters' = <<>>
    /\ UNCHANGED <<spoken, pending, interrupt, holder, overdue, handed>>

-----------------------------------------------------------------------------
(* Agents.                                                                 *)

\* Mutant: attach does not look at the lease.
AttachIfVacant(a) ==
    /\ open
    /\ holder = NoAgent
    /\ ~ Waiting(a)
    /\ holder' = a
    /\ overdue' = FALSE
    /\ HandTo(a)
    /\ UNCHANGED <<open, spoken, interrupt, waiters>>

\* The seat is vacant or its lease has lapsed: a fresh agent takes it, and the turns
\* typed before.  An id is fresh here when neither the seat nor a poll names it.
Attach(a) ==
    /\ open
    /\ holder = NoAgent \/ overdue
    /\ a # holder /\ ~ Waiting(a)
    /\ holder' = a
    /\ overdue' = FALSE
    /\ HandTo(a)
    /\ UNCHANGED <<open, spoken, interrupt, waiters>>

\* A poll of the holder renews its lease, a lapsed one too, and collects what there is.
Collect(a) ==
    /\ open
    /\ holder = a
    /\ pending # <<>> \/ interrupt
    /\ overdue' = FALSE
    /\ HandTo(a)
    /\ interrupt' = FALSE
    /\ UNCHANGED <<open, spoken, holder, waiters>>

\* Mutant: the poll is parked without a look at the queue.
ParkAtOnce(a) ==
    /\ open
    /\ holder = a
    /\ Len(waiters) < MaxWaiters
    /\ overdue' = FALSE
    /\ waiters' = Append(waiters, a)
    /\ UNCHANGED <<open, spoken, pending, interrupt, holder, handed>>

\* With nothing to collect the poll is parked; one that may not wait just returns.
Park(a) ==
    /\ open
    /\ holder = a
    /\ pending = <<>> /\ ~ interrupt
    /\ overdue' = FALSE
    /\ \/ /\ Len(waiters) < MaxWaiters
          /\ waiters' = Append(waiters, a)
       \/ UNCHANGED waiters
    /\ UNCHANGED <<open, spoken, pending, interrupt, holder, handed>>

TimeOut(i) ==
    /\ i \in DOMAIN waiters
    /\ waiters' = RemoveAt(waiters, i)
    /\ UNCHANGED <<open, spoken, pending, interrupt, holder, overdue, handed>>

\* The seat is given up; polls the agent has parked stay.
Detach(a) ==
    /\ open
    /\ holder = a
    /\ holder' = NoAgent
    /\ overdue' = FALSE
    /\ UNCHANGED <<open, spoken, pending, interrupt, waiters, handed>>

\* A parked poll of the holder renewed the lease less than 25 s ago.
LeaseLapses ==
    /\ open
    /\ holder # NoAgent
    /\ ~ Waiting(holder)
    /\ ~ overdue
    /\ overdue' = TRUE
    /\ UNCHANGED <<open, spoken, pending, interrupt, holder, waiters, handed>>

-----------------------------------------------------------------------------

AttachSome == \E a \in Agents : Attach(a)

Next ==
    \/ Say \/ Cancel \/ Presence \/ Close
    \/ AttachSome
    \/ \E a \in Agents : Collect(a) \/ Park(a) \/ Detach(a)
    \/ \E i \in 1 .. MaxWaiters : TimeOut(i)
    \/ LeaseLapses

(***************************************************************************)
(* Fairness.  Some harness keeps looking for a session it can hold; a      *)
(* holder that does not poll is, sooner or later, silent for its lease.    *)
(* One that speaks for ever and never polls is thereby excluded.  Nothing  *)
(* is assumed of the person, or of an agent once it has attached.          *)
(***************************************************************************)
Fairness ==
    /\ WF_vars(AttachSome)
    /\ WF_vars(LeaseLapses)

Spec == Init /\ [][Next]_vars
FairSpec == Spec /\ Fairness

-----------------------------------------------------------------------------
(* Properties.                                                             *)

\* Every variable has its shape, and only a lease somebody holds can lapse.
TypeOK ==
    /\ open \in BOOLEAN
    /\ spoken \in 0 .. MaxTurns
    /\ pending \in Seq(Turns)
    /\ interrupt \in BOOLEAN
    /\ holder \in Agents \cup {NoAgent}
    /\ overdue \in BOOLEAN
    /\ overdue => holder # NoAgent
    /\ waiters \in Seq(Agents) /\ Len(waiters) <= MaxWaiters
    /\ handed \in [Turns -> Agents \cup {NoAgent}]

\* No agent sleeps in a poll on a turn or an interrupt that is there to be collected,
\* whichever of attach, poll, timeout, turn and interrupt came first.
NobodySleepsOnATurn == waiters # <<>> => pending = <<>> /\ ~ interrupt

\* The pending turns are the latest ones, in the order they were typed, and exactly
\* those no agent was given: none is lost, none overtakes another.
NoTurnLostOrOvertaken ==
    /\ Len(pending) <= spoken
    /\ \A i \in DOMAIN pending : pending[i] = spoken - Len(pending) + i
    /\ \A t \in Turns : handed[t] # NoAgent <=> t <= spoken - Len(pending)

\* A turn is never given to a second agent, nor twice (agent-session.ts:453).
HandedOnce ==
    [][\A t \in Turns :
          handed[t] # NoAgent =>
              /\ handed'[t] = handed[t]
              /\ \A i \in DOMAIN pending' : pending'[i] # t]_vars

\* A turn typed into an open session is collected: a holder that crashed does not
\* keep it, because its lease lapses and the next agent gets the backlog.
TurnIsCollected ==
    \A t \in Turns : (open /\ t <= spoken) ~> (handed[t] # NoAgent \/ ~ open)

-----------------------------------------------------------------------------
(* A property that no run lists: AgentSessionProofs proves it.             *)

\* What the next property denies happens in one way only: a turn given to an agent that
\* has left is the one just typed, alone, and uses up the poll that took it.  The
\* backlog is only ever given to the holder.
DepartedGetsOneTurn ==
    [][\A t \in Turns :
          (handed'[t] # handed[t] /\ handed'[t] # holder') =>
              /\ pending = <<>>
              /\ spoken' = spoken + 1 /\ t = spoken'
              /\ waiters # <<>>
              /\ handed'[t] = Head(waiters)
              /\ waiters' = Tail(waiters)]_vars

-----------------------------------------------------------------------------
(* What the documentation says and the code does not do.                   *)

\* docs/quickstart.md:106: with no agent attached "your turn waits" until one arrives:
\* a turn is only ever given to the agent that holds the session.
TurnWaitsForTheHolder ==
    [][\A t \in Turns : handed'[t] # handed[t] => handed'[t] = holder']_vars
=============================================================================
