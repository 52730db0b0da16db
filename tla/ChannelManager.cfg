CONSTANTS
    c1 = c1
    c2 = c2
    c3 = c3
    c4 = c4
    Caller <- MCCallers
    Program <- MCProgram
    MaxAttempts = 1
    MaxInstances = 8
SPECIFICATION FairSpec
INVARIANTS LiveIsTracked StoppedStaysStopped RuntimeTrue
PROPERTIES CallsSettle
\* The requests are few: once they have been served nothing is left to do.
CHECK_DEADLOCK FALSE
