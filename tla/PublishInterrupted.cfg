SPECIFICATION Spec
CONSTANTS
    p1 = p1
    k1 = k1
    k2 = k2
    k0 = k0
    NoIntent = NoIntent
    NoKey = NoKey
    NotScheduled = NotScheduled
    Intents = {p1}
    Keys = {k1, k2}
    Earlier = {}
    NoPublisher = {}
    DailyLimit = 1
    Window = 1
    Concurrency = 2
    MaxTime = 1
    MaxCrashes = 1
INVARIANT NoAttemptLeftOpen
