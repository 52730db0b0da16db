CONSTANTS
    d1 = d1
    Delivery <- One
    Payloads = 2
    MaxRetries = 2
    MaxStarts = 2
    MaxCrashes = 2
SPECIFICATION FairSpec
INVARIANTS NoLoss
PROPERTIES AckedNotReplayed EventuallyOut
CHECK_DEADLOCK FALSE
