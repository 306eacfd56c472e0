SPECIFICATION Spec
CONSTANTS
    p1 = p1
    p2 = p2
    Process = {p1, p2}
    Writer = {w1, w2}
    ProcessOf <- TwoProcesses
    Rand = {0, 1}
    MaxCounter = 1
    StepsBack = FALSE
    MaxClock = 1
    MaxMillis = 1
    MaxRows = 3
INVARIANT ChainLinear
CHECK_DEADLOCK FALSE
