SPECIFICATION Spec
CONSTANTS
    MaxRequests = 3
INVARIANTS
    NothingLeftBehind
    StopsGoDown
CHECK_DEADLOCK FALSE
