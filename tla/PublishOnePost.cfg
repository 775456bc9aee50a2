\* One post under two approvals, a slot ahead and two crashes, on an account that allows
\* one post a day and may have sent it, under fairness.
SPECIFICATION FairSpec
CONSTANTS
    p1 = p1
    k0 = k0
    k1 = k1
    k2 = k2
    NoIntent = NoIntent
    NoKey = NoKey
    NotScheduled = NotScheduled
    Intents = {p1}
    Keys = {k0, k1, k2}
    Earlier = {k0}
    NoPublisher = {}
    DailyLimit = 1
    Window = 1
    Concurrency = 2
    MaxTime = 1
    MaxCrashes = 2
INVARIANTS AtMostOneSend OutcomeMatchesEvidence
PROPERTIES NoSendOnceCeilingKnown ImplementsConsent JobNeverBeforeItsSlot QueuedPostIsServed LeasedJobEnds
