\* Two runs, two calls of deleteProject, two crashes and two failed calls.
SPECIFICATION Spec
CONSTANTS
    r1 = r1
    r2 = r2
    d1 = d1
    d2 = d2
    home = home
    NoDeletion = NoDeletion
    Runs = {r1, r2}
    Dirs = {home}
    ProjectDir = home
    Deletions = {d1, d2}
    MaxCrashes = 2
    MaxFaults = 2
\* A deleted project has nothing left to do.
CHECK_DEADLOCK FALSE
SYMMETRY Symmetry
INVARIANTS NothingLost HealthTellsTruth OnlyMissedRunsRemain
