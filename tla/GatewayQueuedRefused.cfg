CONSTANTS
    r1 = r1
    r2 = r2
    session = session
    Main = Main
    Cron = Cron
    Nested = Nested
    Nobody = Nobody
    Run <- MCRun
    Job <- MCNoJob
    Task <- MCTask
    SessionLane <- MCSessions
    Lane <- MCLane
    sessionOf <- MCSession
    requestedLane <- MCNobody
    caller <- MCNobody
    MaxLimit = 1
    MaxGeneration = 1
SPECIFICATION LoopSpec
SYMMETRY Symmetric
INVARIANTS AcceptedRunNotRefused
CHECK_DEADLOCK FALSE
