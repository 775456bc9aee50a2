\* Three schedules, one of them refused at times and without a next occurrence, some yet
\* to be created, two claimed at once, a daemon that ends twice, an edit, under fairness.
SPECIFICATION FairSpec
CONSTANTS
    s1 = s1
    s2 = s2
    s3 = s3
    d1 = d1
    NoDaemon = NoDaemon
    Schedules = {s1, s2, s3}
    Daemons = {d1}
    Refused = {s1}
    NoNext = {s1}
    Limit = 2
    MaxTime = 1
    MaxEdits = 1
    MaxEnds = 2
CHECK_DEADLOCK FALSE
PROPERTIES StartsWhatStands NoneSkipped DueFires
