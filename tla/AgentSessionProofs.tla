-------------------------- MODULE AgentSessionProofs --------------------------
(***************************************************************************)
(* Proofs about AgentSession, for any agents, turns and parked polls.      *)
(***************************************************************************)
EXTENDS AgentSession, SequenceTheorems, TLAPS

\* What the steps preserve together: the wake-up of one poll hands over one turn
\* because no poll sleeps on an older one.
Inv == TypeOK /\ NobodySleepsOnATurn /\ NoTurnLostOrOvertaken

-----------------------------------------------------------------------------
(* Sequences.                                                              *)

\* What remains of the parked polls is a shorter sequence of agents.
LEMMA Removed ==
  ASSUME NEW S, NEW s \in Seq(S), NEW i \in DOMAIN s
  PROVE  /\ RemoveAt(s, i) \in Seq(S)
         /\ Len(RemoveAt(s, i)) = Len(s) - 1
<1>1. i \in 1 .. Len(s) /\ Len(s) \in Nat
  OBVIOUS
<1> DEFINE left == SubSeq(s, 1, i - 1)
           right == SubSeq(s, i + 1, Len(s))
<1>2. left \in Seq(S) /\ Len(left) = i - 1
  BY <1>1, SubSeqProperties, 1 \in 1 .. Len(s) + 1, i - 1 \in 1 - 1 .. Len(s)
<1>3. right \in Seq(S) /\ Len(right) = Len(s) - i
  BY <1>1, SubSeqProperties, i + 1 \in 1 .. Len(s) + 1, Len(s) \in (i + 1) - 1 .. Len(s)
<1>4. RemoveAt(s, i) = left \o right
  BY DEF RemoveAt
<1> HIDE DEF left, right
<1> QED BY <1>1, <1>2, <1>3, <1>4

\* The backlog is what lies between the turns given away and the latest one.
LEMMA Backlog ==
  ASSUME NEW s \in Seq(Turns), NEW n \in Nat, Len(s) <= n,
         \A i \in DOMAIN s : s[i] = n - Len(s) + i,
         NEW t \in Turns
  PROVE  (\E i \in DOMAIN s : s[i] = t) <=> (n - Len(s) < t /\ t <= n)
<1>1. DOMAIN s = 1 .. Len(s) /\ Len(s) \in Nat /\ t \in Nat
  BY ConstantsAssumption DEF Turns
<1>2. ASSUME NEW i \in DOMAIN s, s[i] = t
      PROVE  n - Len(s) < t /\ t <= n
  BY <1>1, <1>2
<1>3. ASSUME n - Len(s) < t, t <= n
      PROVE  \E i \in DOMAIN s : s[i] = t
  <2> DEFINE i == t - (n - Len(s))
  <2>1. i \in DOMAIN s /\ n - Len(s) + i = t
    BY <1>1, <1>3
  <2>2. s[i] = t
    BY <2>1
  <2> QED BY <2>1, <2>2
<1> QED BY <1>2, <1>3

-----------------------------------------------------------------------------
(* The two ways a turn changes hands.                                      *)

\* Taking the backlog leaves nothing pending and gives every turn typed so far away.
LEMMA HandToKeeps ==
  ASSUME Inv, NEW a \in Agents, HandTo(a)
  PROVE  /\ pending' = <<>>
         /\ handed' \in [Turns -> Agents \cup {NoAgent}]
         /\ \A t \in Turns : handed'[t] # NoAgent <=> t <= spoken
         /\ \A t \in Turns : handed[t] # NoAgent => handed'[t] = handed[t]
<1>1. /\ pending \in Seq(Turns) /\ spoken \in Nat /\ Len(pending) <= spoken
      /\ \A i \in DOMAIN pending : pending[i] = spoken - Len(pending) + i
      /\ handed \in [Turns -> Agents \cup {NoAgent}]
      /\ \A t \in Turns : handed[t] # NoAgent <=> t <= spoken - Len(pending)
  BY ConstantsAssumption DEF Inv, TypeOK, NoTurnLostOrOvertaken
<1>2. \A t \in Turns : handed'[t] = IF \E i \in DOMAIN pending : pending[i] = t
                                    THEN a ELSE handed[t]
  BY DEF HandTo
<1>3. \A t \in Turns : (\E i \in DOMAIN pending : pending[i] = t)
                          <=> (spoken - Len(pending) < t /\ t <= spoken)
  BY <1>1, Backlog
<1>4. a # NoAgent /\ \A t \in Turns : t \in Nat
  BY ConstantsAssumption DEF Turns
<1>5. Len(pending) \in Nat
  BY <1>1
<1>6. pending' = <<>> /\ handed' \in [Turns -> Agents \cup {NoAgent}]
  BY <1>1 DEF HandTo
<1>7. ASSUME NEW t \in Turns
      PROVE  /\ handed'[t] # NoAgent <=> t <= spoken
             /\ handed[t] # NoAgent => handed'[t] = handed[t]
  <2> DEFINE waits == spoken - Len(pending) < t /\ t <= spoken
  <2>1. handed'[t] = IF waits THEN a ELSE handed[t]
    BY <1>2, <1>3
  <2>2. handed[t] # NoAgent <=> t <= spoken - Len(pending)
    BY <1>1
  <2> QED BY <1>1, <1>4, <1>5, <2>1, <2>2
<1> QED BY <1>6, <1>7

\* A turn just typed, if any, is queued behind the others or, when a poll is parked
\* and the queue therefore empty, given to it alone.
LEMMA WakeKeeps ==
  ASSUME Inv, NEW turns \in Seq(Turns), NEW n \in Nat, n <= MaxTurns,
         \/ n = spoken /\ turns = pending
         \/ n = spoken + 1 /\ turns = Append(pending, n),
         \E flag \in BOOLEAN : Wake(turns, flag)
  PROVE  /\ pending' \in Seq(Turns) /\ interrupt' \in BOOLEAN
         /\ waiters' \in Seq(Agents) /\ Len(waiters') <= MaxWaiters
         /\ waiters' # <<>> => pending' = <<>> /\ ~ interrupt'
         /\ Len(pending') <= n
         /\ \A i \in DOMAIN pending' : pending'[i] = n - Len(pending') + i
         /\ handed' \in [Turns -> Agents \cup {NoAgent}]
         /\ \A t \in Turns : handed'[t] # NoAgent <=> t <= n - Len(pending')
         /\ \A t \in Turns : handed[t] # NoAgent => handed'[t] = handed[t]
<1> PICK flag \in BOOLEAN : Wake(turns, flag)
  OBVIOUS
<1>1. /\ pending \in Seq(Turns) /\ spoken \in Nat /\ Len(pending) \in Nat
      /\ Len(pending) <= spoken
      /\ \A i \in DOMAIN pending : pending[i] = spoken - Len(pending) + i
      /\ handed \in [Turns -> Agents \cup {NoAgent}]
      /\ \A t \in Turns : handed[t] # NoAgent <=> t <= spoken - Len(pending)
      /\ waiters \in Seq(Agents) /\ Len(waiters) <= MaxWaiters
      /\ waiters # <<>> => pending = <<>>
      /\ MaxWaiters \in Nat
      /\ \A t \in Turns : t \in Nat
  BY ConstantsAssumption DEF Inv, TypeOK, NoTurnLostOrOvertaken, NobodySleepsOnATurn, Turns
<1>2. /\ Len(turns) \in Nat /\ Len(turns) <= n
      /\ n - Len(turns) = spoken - Len(pending)
      /\ \A i \in DOMAIN turns : turns[i] = n - Len(turns) + i
  <2>1. CASE n = spoken /\ turns = pending
    BY <1>1, <2>1
  <2>2. CASE n = spoken + 1 /\ turns = Append(pending, n)
    <3>1. /\ Len(turns) = Len(pending) + 1
          /\ DOMAIN turns = 1 .. Len(pending) + 1
          /\ \A i \in 1 .. Len(pending) + 1 :
                turns[i] = IF i <= Len(pending) THEN pending[i] ELSE n
      BY <1>1, <2>2
    <3>2. /\ Len(turns) \in Nat /\ Len(turns) <= n
          /\ n - Len(turns) = spoken - Len(pending)
      BY <1>1, <2>2, <3>1
    <3>3. ASSUME NEW i \in DOMAIN turns
          PROVE  turns[i] = n - Len(turns) + i
      <4>1. CASE i <= Len(pending)
        <5>1. i \in DOMAIN pending
          BY <1>1, <3>1, <4>1
        <5> QED BY <1>1, <3>1, <3>2, <4>1, <5>1
      <4>2. CASE i > Len(pending)
        <5>1. i = Len(pending) + 1 /\ Len(pending) \in Nat
          BY <1>1, <3>1, <4>2
        <5>2. turns[i] = n /\ Len(turns) = Len(pending) + 1
          BY <3>1, <5>1
        <5> QED BY <5>1, <5>2
      <4> QED BY <1>1, <3>1, <4>1, <4>2
    <3> QED BY <3>2, <3>3
  <2> QED BY <2>1, <2>2
<1>3. CASE waiters = <<>>
  BY <1>1, <1>2, <1>3 DEF Wake
<1>4. CASE waiters # <<>>
  <2>1. /\ pending' = <<>> /\ interrupt' = FALSE /\ waiters' = Tail(waiters)
        /\ handed' = [t \in Turns |-> IF \E i \in DOMAIN turns : turns[i] = t
                                      THEN Head(waiters) ELSE handed[t]]
    BY <1>4 DEF Wake
  <2>2. Head(waiters) \in Agents /\ Head(waiters) # NoAgent
    BY <1>1, <1>4, ConstantsAssumption
  <2>3. waiters' \in Seq(Agents) /\ Len(waiters') <= MaxWaiters
    BY <1>1, <1>4, <2>1
  <2>4. \A t \in Turns : (\E i \in DOMAIN turns : turns[i] = t)
                            <=> (n - Len(turns) < t /\ t <= n)
    BY <1>2, Backlog
  <2>5. Len(pending) = 0
    BY <1>1, <1>4
  <2>6. ASSUME NEW t \in Turns
        PROVE  /\ handed'[t] # NoAgent <=> t <= n
               /\ handed[t] # NoAgent => handed'[t] = handed[t]
    <3>1. handed'[t] = IF n - Len(turns) < t /\ t <= n THEN Head(waiters) ELSE handed[t]
      BY <2>1, <2>4
    <3>2. handed[t] # NoAgent <=> t <= n - Len(turns)
      BY <1>1, <1>2
    <3> QED BY <1>1, <1>2, <2>2, <3>1, <3>2
  <2>7. handed' \in [Turns -> Agents \cup {NoAgent}]
    BY <1>1, <2>1, <2>2
  <2>8. Len(pending') = 0 /\ pending' \in Seq(Turns) /\ DOMAIN pending' = {}
    BY <2>1
  <2>9. \A t \in Turns : handed'[t] # NoAgent <=> t <= n - Len(pending')
    <3>1. n - Len(pending') = n
      BY <2>8
    <3> QED BY <2>6, <3>1
  <2>10. \A i \in DOMAIN pending' : pending'[i] = n - Len(pending') + i
    BY <2>8
  <2>11. interrupt' \in BOOLEAN /\ ~ interrupt' /\ Len(pending') <= n
    <3>1. interrupt' \in BOOLEAN /\ ~ interrupt'
      BY <2>1
    <3> QED BY <2>8, <3>1
  <2>12. \A t \in Turns : handed[t] # NoAgent => handed'[t] = handed[t]
    BY <2>6
  <2> QED BY <2>1, <2>3, <2>7, <2>8, <2>9, <2>10, <2>11, <2>12
<1> QED BY <1>3, <1>4

-----------------------------------------------------------------------------
(* The invariant.                                                          *)

\* The invariant as one list of facts, so that a step need not open it.
LEMMA InvFacts ==
  Inv <=>
    /\ open \in BOOLEAN
    /\ spoken \in 0 .. MaxTurns
    /\ pending \in Seq(Turns)
    /\ interrupt \in BOOLEAN
    /\ holder \in Agents \cup {NoAgent}
    /\ overdue \in BOOLEAN
    /\ overdue => holder # NoAgent
    /\ waiters \in Seq(Agents) /\ Len(waiters) <= MaxWaiters
    /\ handed \in [Turns -> Agents \cup {NoAgent}]
    /\ waiters # <<>> => pending = <<>> /\ ~ interrupt
    /\ Len(pending) <= spoken
    /\ \A i \in DOMAIN pending : pending[i] = spoken - Len(pending) + i
    /\ \A t \in Turns : handed[t] # NoAgent <=> t <= spoken - Len(pending)
  BY DEF Inv, TypeOK, NobodySleepsOnATurn, NoTurnLostOrOvertaken

LEMMA InitInv == Init => Inv
<1> SUFFICES ASSUME Init PROVE Inv
  OBVIOUS
<1>1. /\ pending \in Seq(Turns) /\ Len(pending) = 0 /\ DOMAIN pending = {}
      /\ waiters \in Seq(Agents) /\ Len(waiters) <= MaxWaiters /\ waiters = <<>>
  BY ConstantsAssumption DEF Init
<1>2. spoken = 0 /\ 0 \in 0 .. MaxTurns
  BY ConstantsAssumption DEF Init
<1>3. \A t \in Turns : handed[t] # NoAgent <=> t <= spoken - Len(pending)
  <2>1. \A t \in Turns : ~ (t <= 0 - 0)
    BY ConstantsAssumption DEF Turns
  <2>2. \A t \in Turns : handed[t] = NoAgent
    BY DEF Init
  <2> QED BY <1>1, <1>2, <2>1, <2>2
<1>4. /\ open \in BOOLEAN /\ interrupt \in BOOLEAN /\ overdue \in BOOLEAN /\ ~ overdue
      /\ holder \in Agents \cup {NoAgent} /\ handed \in [Turns -> Agents \cup {NoAgent}]
  BY DEF Init
<1>5. Len(pending) <= spoken
  BY <1>1, <1>2
<1> QED BY <1>1, <1>2, <1>3, <1>4, <1>5, InvFacts

LEMMA SayKeeps ==
  ASSUME Inv, Say
  PROVE  Inv' /\ \A t \in Turns : handed[t] # NoAgent => handed'[t] = handed[t]
<1> DEFINE n == spoken + 1
           turns == Append(pending, n)
<1>1. spoken' = n /\ UNCHANGED <<open, holder, overdue>>
  BY DEF Say
<1>2. /\ n \in Turns /\ n \in Nat /\ n <= MaxTurns /\ n \in 0 .. MaxTurns
      /\ pending \in Seq(Turns) /\ interrupt \in BOOLEAN
  <2>1. spoken \in 0 .. MaxTurns /\ pending \in Seq(Turns) /\ interrupt \in BOOLEAN
    BY InvFacts
  <2>2. spoken < MaxTurns
    BY DEF Say
  <2>3. MaxTurns \in Nat
    BY ConstantsAssumption
  <2>4. n \in Turns /\ n \in Nat /\ n <= MaxTurns /\ n \in 0 .. MaxTurns
    <3> HIDE DEF turns
    <3> QED BY <2>1, <2>2, <2>3 DEF Turns
  <2> QED BY <2>1, <2>4
<1>3. turns \in Seq(Turns)
  BY <1>2
<1>4. \E flag \in BOOLEAN : Wake(turns, flag)
  <2>1. Wake(turns, interrupt)
    BY DEF Say
  <2> QED BY <1>2, <2>1, Zenon
<1>5. n = spoken + 1 /\ turns = Append(pending, n)
  OBVIOUS
<1> HIDE DEF n, turns
<1>6. /\ pending' \in Seq(Turns) /\ interrupt' \in BOOLEAN
      /\ waiters' \in Seq(Agents) /\ Len(waiters') <= MaxWaiters
      /\ waiters' # <<>> => pending' = <<>> /\ ~ interrupt'
      /\ Len(pending') <= n
      /\ \A i \in DOMAIN pending' : pending'[i] = n - Len(pending') + i
      /\ handed' \in [Turns -> Agents \cup {NoAgent}]
      /\ \A t \in Turns : handed'[t] # NoAgent <=> t <= n - Len(pending')
      /\ \A t \in Turns : handed[t] # NoAgent => handed'[t] = handed[t]
  BY <1>2, <1>3, <1>4, <1>5, WakeKeeps
<1>7. open' \in BOOLEAN /\ holder' \in Agents \cup {NoAgent} /\ overdue' \in BOOLEAN
      /\ (overdue' => holder' # NoAgent)
  BY <1>1, InvFacts
<1>8. Inv'
  BY <1>1, <1>2, <1>6, <1>7
  DEF Inv, TypeOK, NobodySleepsOnATurn, NoTurnLostOrOvertaken
<1> QED BY <1>6, <1>8

LEMMA CancelKeeps ==
  ASSUME Inv, Cancel
  PROVE  Inv' /\ \A t \in Turns : handed[t] # NoAgent => handed'[t] = handed[t]
<1>1. spoken' = spoken /\ UNCHANGED <<open, holder, overdue>>
  BY DEF Cancel
<1>2. \E flag \in BOOLEAN : Wake(pending, flag)
  BY DEF Cancel
<1>3. pending \in Seq(Turns) /\ spoken \in Nat /\ spoken <= MaxTurns
  BY ConstantsAssumption, InvFacts
<1>4. /\ pending' \in Seq(Turns) /\ interrupt' \in BOOLEAN
      /\ waiters' \in Seq(Agents) /\ Len(waiters') <= MaxWaiters
      /\ waiters' # <<>> => pending' = <<>> /\ ~ interrupt'
      /\ Len(pending') <= spoken
      /\ \A i \in DOMAIN pending' : pending'[i] = spoken - Len(pending') + i
      /\ handed' \in [Turns -> Agents \cup {NoAgent}]
      /\ \A t \in Turns : handed'[t] # NoAgent <=> t <= spoken - Len(pending')
      /\ \A t \in Turns : handed[t] # NoAgent => handed'[t] = handed[t]
  BY <1>2, <1>3, WakeKeeps
<1>5. /\ spoken' \in 0 .. MaxTurns
      /\ open' \in BOOLEAN /\ holder' \in Agents \cup {NoAgent} /\ overdue' \in BOOLEAN
      /\ (overdue' => holder' # NoAgent)
  BY <1>1, InvFacts
<1>6. Inv'
  BY <1>1, <1>4, <1>5 DEF Inv, TypeOK, NobodySleepsOnATurn, NoTurnLostOrOvertaken
<1> QED BY <1>4, <1>6

\* The backlog is taken: what is left to show is who holds the session.
LEMMA TakenKeeps ==
  ASSUME Inv, NEW a \in Agents, HandTo(a),
         UNCHANGED <<open, spoken, waiters>>,
         holder' = a, overdue' = FALSE, interrupt' = FALSE \/ interrupt' = interrupt
  PROVE  Inv' /\ \A t \in Turns : handed[t] # NoAgent => handed'[t] = handed[t]
<1>1. /\ pending' = <<>> /\ handed' \in [Turns -> Agents \cup {NoAgent}]
      /\ \A t \in Turns : handed'[t] # NoAgent <=> t <= spoken
      /\ \A t \in Turns : handed[t] # NoAgent => handed'[t] = handed[t]
  BY HandToKeeps
<1>2. /\ open' \in BOOLEAN /\ spoken' \in 0 .. MaxTurns /\ spoken' = spoken
      /\ spoken \in Nat
      /\ interrupt' \in BOOLEAN /\ holder' \in Agents \cup {NoAgent}
      /\ waiters' \in Seq(Agents) /\ Len(waiters') <= MaxWaiters
      /\ waiters' # <<>> => ~ interrupt'
  <2>1. open' \in BOOLEAN /\ spoken' \in 0 .. MaxTurns /\ spoken' = spoken /\ spoken \in Nat
    BY ConstantsAssumption, InvFacts
  <2>2. waiters' \in Seq(Agents) /\ Len(waiters') <= MaxWaiters
    BY InvFacts
  <2>3. interrupt \in BOOLEAN /\ (waiters' # <<>> => ~ interrupt)
    BY InvFacts
  <2>4. interrupt' \in BOOLEAN /\ (waiters' # <<>> => ~ interrupt')
    <3>1. CASE interrupt' = FALSE
      BY <3>1
    <3>2. CASE interrupt' = interrupt
      BY <2>3, <3>2
    <3> QED BY <3>1, <3>2
  <2> QED BY <2>1, <2>2, <2>4
<1>3. pending' \in Seq(Turns) /\ Len(pending') = 0 /\ DOMAIN pending' = {}
  BY <1>1
<1>4. /\ Len(pending') <= spoken'
      /\ \A i \in DOMAIN pending' : pending'[i] = spoken' - Len(pending') + i
      /\ \A t \in Turns : handed'[t] # NoAgent <=> t <= spoken' - Len(pending')
  BY <1>1, <1>2, <1>3
<1>5. Inv'
  BY <1>1, <1>2, <1>3, <1>4 DEF Inv, TypeOK, NobodySleepsOnATurn, NoTurnLostOrOvertaken
<1> QED BY <1>1, <1>5

\* The other steps leave the turns, and who was given them, alone.
LEMMA QuietKeeps ==
  ASSUME Inv,
         \/ Presence \/ Close \/ LeaseLapses
         \/ \E a \in Agents : Park(a) \/ Detach(a)
         \/ \E i \in 1 .. MaxWaiters : TimeOut(i)
  PROVE  Inv' /\ handed' = handed
<1> USE DEF Inv, TypeOK, NobodySleepsOnATurn, NoTurnLostOrOvertaken
<1>1. CASE Presence
  BY <1>1 DEF Presence
<1>2. CASE LeaseLapses
  BY <1>2 DEF LeaseLapses
<1>3. CASE Close
  <2>1. waiters' = <<>> /\ waiters' \in Seq(Agents) /\ Len(waiters') <= MaxWaiters
    BY <1>3, ConstantsAssumption DEF Close
  <2> QED BY <1>3, <2>1 DEF Close
<1>4. ASSUME NEW a \in Agents, Detach(a)
      PROVE  Inv' /\ handed' = handed
  BY <1>4 DEF Detach
<1>5. ASSUME NEW a \in Agents, Park(a)
      PROVE  Inv' /\ handed' = handed
  <2>1. waiters' \in Seq(Agents) /\ Len(waiters') <= MaxWaiters
    BY <1>5, ConstantsAssumption DEF Park
  <2> QED BY <1>5, <2>1 DEF Park
<1>6. ASSUME NEW i \in 1 .. MaxWaiters, TimeOut(i)
      PROVE  Inv' /\ handed' = handed
  <2>1. /\ waiters \in Seq(Agents) /\ i \in DOMAIN waiters
        /\ waiters' = RemoveAt(waiters, i)
    BY <1>6 DEF TimeOut
  <2>2. /\ waiters' \in Seq(Agents) /\ Len(waiters') = Len(waiters) - 1
    BY <2>1, Removed
  <2>3. Len(waiters') <= MaxWaiters /\ waiters # <<>>
    BY <2>1, <2>2, ConstantsAssumption
  <2> QED BY <1>6, <2>2, <2>3 DEF TimeOut
<1> QED BY <1>1, <1>2, <1>3, <1>4, <1>5, <1>6

LEMMA NextKeeps ==
  ASSUME Inv, [Next]_vars
  PROVE  Inv' /\ \A t \in Turns : handed[t] # NoAgent => handed'[t] = handed[t]
<1>1. CASE UNCHANGED vars
  BY <1>1 DEF vars, Inv, TypeOK, NobodySleepsOnATurn, NoTurnLostOrOvertaken
<1>2. ASSUME NEW a \in Agents, Attach(a) \/ Collect(a)
      PROVE  Inv' /\ \A t \in Turns : handed[t] # NoAgent => handed'[t] = handed[t]
  <2>1. CASE Attach(a)
    BY <2>1, TakenKeeps DEF Attach
  <2>2. CASE Collect(a)
    BY <2>2, TakenKeeps DEF Collect
  <2> QED BY <1>2, <2>1, <2>2
<1>3. CASE Next
  BY <1>2, <1>3, SayKeeps, CancelKeeps, QuietKeeps DEF Next, AttachSome
<1> QED BY <1>1, <1>3

\* The session's variables, its sleeping polls and its queue agree, whatever requests,
\* timers and lapses interleave.
THEOREM Invariance == Spec => []Inv
<1>1. Init => Inv
  BY InitInv
<1>2. Inv /\ [Next]_vars => Inv'
  BY NextKeeps
<1> QED BY <1>1, <1>2, PTL DEF Spec

\* Every variable keeps its shape.
THEOREM TypeCorrect == Spec => []TypeOK
<1>1. Inv => TypeOK
  BY DEF Inv
<1> QED BY <1>1, Invariance, PTL

\* No poll sleeps while a turn or an interrupt waits: no wake-up is lost.
THEOREM NoLostWakeUp == Spec => []NobodySleepsOnATurn
<1>1. Inv => NobodySleepsOnATurn
  BY DEF Inv
<1> QED BY <1>1, Invariance, PTL

\* The queue holds exactly the turns nobody was given, in the order they were typed.
THEOREM QueueIsExact == Spec => []NoTurnLostOrOvertaken
<1>1. Inv => NoTurnLostOrOvertaken
  BY DEF Inv
<1> QED BY <1>1, Invariance, PTL

\* A turn given to an agent is never given again, nor queued again.
THEOREM TurnsHandedOnce == Spec => HandedOnce
<1>1. Inv /\ Inv' /\ [Next]_vars =>
        [\A t \in Turns :
            handed[t] # NoAgent =>
                /\ handed'[t] = handed[t]
                /\ \A i \in DOMAIN pending' : pending'[i] # t]_vars
  <2> SUFFICES ASSUME Inv, Inv', [Next]_vars, NEW t \in Turns, handed[t] # NoAgent
               PROVE  /\ handed'[t] = handed[t]
                      /\ \A i \in DOMAIN pending' : pending'[i] # t
    OBVIOUS
  <2>1. handed'[t] = handed[t]
    BY NextKeeps
  <2>2. /\ pending' \in Seq(Turns) /\ spoken' \in Nat /\ t \in Nat
        /\ \A i \in DOMAIN pending' : pending'[i] = spoken' - Len(pending') + i
        /\ t <= spoken' - Len(pending')
    BY <2>1, ConstantsAssumption DEF Inv, TypeOK, NoTurnLostOrOvertaken, Turns
  <2> QED BY <2>1, <2>2
<1> QED BY <1>1, Invariance, PTL DEF Spec, HandedOnce

-----------------------------------------------------------------------------
(* Agents that have left.                                                  *)

\* The backlog goes to whoever holds the session; a poll left behind by an agent takes at
\* most the one turn that is typed next, and is gone with it.
THEOREM BacklogGoesToHolder == Spec => DepartedGetsOneTurn
<1>1. ASSUME Inv, [Next]_vars, NEW t \in Turns,
             handed'[t] # handed[t], handed'[t] # holder'
      PROVE  /\ pending = <<>>
             /\ spoken' = spoken + 1 /\ t = spoken'
             /\ waiters # <<>>
             /\ handed'[t] = Head(waiters)
             /\ waiters' = Tail(waiters)
  <2>1. handed \in [Turns -> Agents \cup {NoAgent}] /\ (waiters # <<>> => pending = <<>>)
    BY <1>1 DEF Inv, TypeOK, NobodySleepsOnATurn
  <2>2. ASSUME NEW turns, NEW flag, Wake(turns, flag)
        PROVE  /\ waiters # <<>> /\ pending = <<>>
               /\ \E i \in DOMAIN turns : turns[i] = t
               /\ handed'[t] = Head(waiters) /\ waiters' = Tail(waiters)
    BY <1>1, <2>1, <2>2 DEF Wake
  <2>3. CASE Say
    <3>1. /\ waiters # <<>> /\ pending = <<>>
          /\ \E i \in DOMAIN Append(pending, spoken + 1) : Append(pending, spoken + 1)[i] = t
          /\ handed'[t] = Head(waiters) /\ waiters' = Tail(waiters)
      BY <2>2, <2>3 DEF Say
    <3>2. t = spoken + 1
      BY <3>1
    <3> QED BY <2>3, <3>1, <3>2 DEF Say
  <2>4. ~ Cancel
    <3>1. ASSUME Cancel PROVE FALSE
      <4>1. pending = <<>> /\ \E i \in DOMAIN pending : pending[i] = t
        BY <2>2, <3>1 DEF Cancel
      <4> QED BY <4>1
    <3> QED BY <3>1
  <2>5. ASSUME NEW a, HandTo(a), holder' = a
        PROVE  FALSE
    BY <1>1, <2>5 DEF HandTo
  <2> QED
    BY <1>1, <2>3, <2>4, <2>5
    DEF Next, Presence, Close, AttachSome, Attach, Collect, Park, Detach, TimeOut, LeaseLapses,
        vars
<1>2. Inv /\ [Next]_vars =>
        [\A t \in Turns :
            (handed'[t] # handed[t] /\ handed'[t] # holder') =>
                /\ pending = <<>>
                /\ spoken' = spoken + 1 /\ t = spoken'
                /\ waiters # <<>>
                /\ handed'[t] = Head(waiters)
                /\ waiters' = Tail(waiters)]_vars
  BY <1>1
<1> QED BY <1>2, Invariance, PTL DEF Spec, DepartedGetsOneTurn
=============================================================================
