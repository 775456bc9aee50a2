\* Four turns, three polls, and a third agent while two are still named by old polls.
SPECIFICATION FairSpec
CONSTANTS
    a1 = a1
    a2 = a2
    a3 = a3
    NoAgent = NoAgent
    Agents = {a1, a2, a3}
    MaxTurns = 4
    MaxWaiters = 3
\* A closed session does nothing more.
CHECK_DEADLOCK FALSE
INVARIANTS NobodySleepsOnATurn NoTurnLostOrOvertaken
PROPERTIES HandedOnce TurnIsCollected
