CONSTANTS
    k1 = k1
    k2 = k2
    Target <- MCTarget
    Priority <- MCPriority
    MaxHandlers = 1
    MaxRequests = 2
    MaxBatches = 2
SPECIFICATION Spec
PROPERTIES CooldownKept
CHECK_DEADLOCK FALSE
