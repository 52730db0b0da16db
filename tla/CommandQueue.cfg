CONSTANTS
    t1 = t1
    t2 = t2
    t3 = t3
    main = main
    sub = sub
    Task <- MCTask
    Lane <- MCLane
    MaxLimit = 2
    MaxGeneration = 1
SPECIFICATION MCSpec
INVARIANTS LanesConsistent WorkConserving DrainedSound
PROPERTIES StartsWithinLimit ImplementsLaneService EventuallyLeavesQueue
CHECK_DEADLOCK FALSE
