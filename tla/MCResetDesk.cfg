SPECIFICATION DeskSpec
CONSTANTS
    DeskRequest = {"q1", "q2"}
    NoRequest = NoRequest
    FetchBound = 2
INVARIANT DecidesWhatWasAsked
CHECK_DEADLOCK FALSE
