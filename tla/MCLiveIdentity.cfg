SPECIFICATION LiveSpec
CONSTANTS
    Instance = {"i1", "i2"}
    Browser = {"b1"}
    LiveUser = {"u1", "u2"}
    Everyone = "all"
    EventBound = 2
INVARIANT NoForeignEvent
CHECK_DEADLOCK FALSE
