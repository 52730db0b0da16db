CONSTANTS
    message = message
    reply = reply
    cronTurn = cronTurn
    send = send
    job = job
    s1 = s1
    s2 = s2
    Main = Main
    Cron = Cron
    Nested = Nested
    Nobody = Nobody
    Run <- MCRun
    Job <- MCJob
    Task <- MCTask
    SessionLane <- MCSessions
    Lane <- MCLane
    sessionOf <- MCSession
    requestedLane <- MCRequested
    caller <- MCCaller
    MaxLimit = 1
    MaxGeneration = 0
SPECIFICATION FairAgentSpec
INVARIANTS NoLaneDeadlock OneRunPerSession
PROPERTIES EveryRunEnds
CHECK_DEADLOCK FALSE
