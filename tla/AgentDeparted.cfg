SPECIFICATION Spec
CONSTANTS
    a1 = a1
    a2 = a2
    NoAgent = NoAgent
    Agents = {a1, a2}
    MaxTurns = 2
    MaxWaiters = 1
CHECK_DEADLOCK FALSE
PROPERTIES TurnWaitsForTheHolder
