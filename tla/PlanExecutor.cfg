\* Every plan of three nodes, cyclic ones included, every fate, two lanes, an abort
\* anywhere.
SPECIFICATION FairSpec
CONSTANTS
    Nodes = {1, 2, 3}
    Concurrency = 2
\* A plan that ended does nothing more.
CHECK_DEADLOCK FALSE
INVARIANTS NeedsComeFirst ResultsAsMeant
PROPERTIES AbortDiscards PlanEnds
