\* Two daemons started one after the other, the first start failing.
SPECIFICATION Spec
CONSTANTS
    p1 = p1
    p2 = p2
    p3 = p3
    s1 = s1
    NoProcess = NoProcess
    TheDaemon = TheDaemon
    Processes = {p1, p2}
    Pids = {1, 2}
    MaxLaunches = 2
    Schedules = {s1}
    Refused = {}
    NoNext = {}
    Limit = 1
    MaxTime = 0
    MaxEdits = 0
CHECK_DEADLOCK FALSE
INVARIANT NoDuplicateScheduler
