\* One run, two attempts, cancelled at any time, and two crashes, under fairness.  A run
\* has one job and at most one more for each crash.  When the run is over the daemon idles.
SPECIFICATION FairSpec
CONSTANTS
    r1 = r1
    NoRun = NoRun
    NoJob = NoJob
    Runs = {r1}
    Jobs = {1, 2, 3}
    MaxAttempts = 2
    Concurrency = 1
    MaxCrashes = 2
CHECK_DEADLOCK FALSE
INVARIANTS OneActiveJob RunningIsExecuted QueuedHasJob SettledJobSettlesRun AttemptsBounded
PROPERTIES FinishedStaysWithoutCrash CancelLostOnlyToReport QueuedRunEnds
