CONSTANTS
    r1 = r1
    r2 = r2
    session = session
    Main = Main
    Cron = Cron
    Nested = Nested
    Nobody = Nobody
    Run <- MCRun
    Job <- MCNoJob
    Task <- MCTask
    SessionLane <- MCSessions
    Lane <- MCLane
    sessionOf <- MCSession
    requestedLane <- MCNobody
    caller <- MCNobody
    MaxLimit = 1
    MaxGeneration = 2
    message = message
    Dispatcher <- MCDispatcher
    MaxReplies = 1
    Config <- MCConfig
    FirstConfig <- MCFirst
    Missing = Missing
    Invalid = Invalid
    MaxEvents = 2
    MaxFaults = 1
    MaxSections = 1
SPECIFICATION GatewaySpec
INVARIANTS CronFollowsConfig
CHECK_DEADLOCK FALSE
