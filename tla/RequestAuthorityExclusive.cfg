SPECIFICATION Spec
CONSTANTS
    Sessions = {s1}
    Keys = {k1}
    NoKey = none
    Reports = {"success"}
    MaxRequests = 3
    MaxRestarts = 1
INVARIANTS
    OneLiveRequestPerSession
CHECK_DEADLOCK FALSE
