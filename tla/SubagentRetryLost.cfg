\* The announce flow deletes the session in delete mode also when the send failed, so that the
\* retry finds an orphan and prunes the run: TLC shows NoRetryLost violated.
CONSTANTS
    d1 = d1
    Delivery <- One
    Payloads = 2
    MaxRetries = 2
    MaxStarts = 1
    MaxCrashes = 2
    parent = parent
    child = child
    MaxRuns = 3
    Session <- MCSession
    requesterOf <- MCRequesterOf
    Outside = Outside
    Scenes <- MCScenes
    MaxAnnounces = 2
    MaxUpsets = 2
SPECIFICATION DeliveriesSpec
INVARIANT NoRetryLost
CHECK_DEADLOCK FALSE
