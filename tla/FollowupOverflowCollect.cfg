CONSTANTS
    m1 = m1
    m2 = m2
    m3 = m3
    chatA = chatA
    chatB = chatB
    noOrigin = noOrigin
    webchat = webchat
    Msg <- Msgs3
    Route <- OneRoute
    Unkeyed = noOrigin
    Unroutable = webchat
    Settings <- CollectCap2
    Policies <- Summarize
    MaxQueues = 1
SPECIFICATION Spec
INVARIANTS NoSilentLoss
CHECK_DEADLOCK FALSE
