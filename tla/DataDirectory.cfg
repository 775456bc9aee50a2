\* Three commands over two PIDs, other programs, failed starts and imports, and a schedule
\* that is changed once.
SPECIFICATION Spec
CONSTANTS
    p1 = p1
    p2 = p2
    p3 = p3
    s1 = s1
    NoProcess = NoProcess
    TheDaemon = TheDaemon
    Processes = {p1, p2, p3}
    Pids = {1, 2}
    MaxLaunches = 3
    Schedules = {s1}
    Refused = {}
    NoNext = {}
    Limit = 1
    MaxTime = 1
    MaxEdits = 1
SYMMETRY Symmetry
CHECK_DEADLOCK FALSE
INVARIANTS OneOwner OwnerIsRecorded
PROPERTIES OneUntilAStartFails
