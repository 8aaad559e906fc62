SPECIFICATION FairSpec
CONSTANTS
    Sessions = {s1, s2}
    Keys = {k1}
    NoKey = none
    Reports = {"success"}
    MaxRequests = 2
    MaxRestarts = 1
INVARIANTS
    TypeOK
    CancelPrecedesOutcome
    IndexesNameLiveOperations
    WaitingWorkIsWanted
PROPERTIES
    ImplementsWorkOrder
    CancelSettles
CHECK_DEADLOCK FALSE
