CONSTANTS
    d1 = d1
    Delivery <- One
    Payloads = 2
    MaxRetries = 2
    MaxStarts = 2
    MaxCrashes = 2
    parent = parent
    child = child
    MaxRuns = 3
    Session <- MCSession
    requesterOf <- MCRequesterOf
    Outside = Outside
    Scenes <- MCScenes
    MaxAnnounces = 2
    MaxUpsets = 2
SPECIFICATION DeliveriesSpec
INVARIANTS NoLoss RunsKept
PROPERTIES AckedNotReplayed EventuallyOut RunsSettle
CHECK_DEADLOCK FALSE
