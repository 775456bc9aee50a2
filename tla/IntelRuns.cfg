\* Two runs, two workers, two crashes or shutdowns and an error, under fairness.  A daemon
\* whose runs have ended idles.
SPECIFICATION FairSpec
CONSTANTS
    r1 = r1
    r2 = r2
    w1 = w1
    w2 = w2
    NoRun = NoRun
    Runs = {r1, r2}
    Workers = {w1, w2}
    MaxStops = 2
    MaxErrors = 1
CHECK_DEADLOCK FALSE
INVARIANTS ReportHasEvidence NoOrphanEvidence RunningHasOneWorker CancelReachesAnalysis RetryStartsClean CancelledForCause
PROPERTIES ImplementsPromise CancelledRunEnds
