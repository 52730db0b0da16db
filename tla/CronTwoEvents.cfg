CONSTANTS
    daily = daily
    once = once
    hand = hand
    Absent = Absent
    NotLoaded = NotLoaded
    Job <- MCJob
    OneShot <- MCOneShot
    DeleteAfterRun = {}
    Manual <- MCManual
    Concurrency = 1
    MaxImmediate = 1
    MaxRetries = 1
    MaxEvents = 2
SPECIFICATION MCSpec
INVARIANTS RunningMarkTrue
PROPERTIES DueNotSkipped OneShotDone
\* With every job removed, nothing is left to do.
CHECK_DEADLOCK FALSE
