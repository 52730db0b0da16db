CONSTANTS
    a1 = a1
    a2 = a2
    a3 = a3
    home = home
    Announcement <- MCAnnouncement
    Route <- MCRoute
    Unroutable = "unroutable"
    Settings <- MCSettings
    MaxMishaps = 1
SPECIFICATION FairSpec
PROPERTIES SummaryInjected
CHECK_DEADLOCK FALSE
