SPECIFICATION Spec
CONSTANTS
    Calls = {c1, c2}
    Rollbackable = {r1}
    External = {e1}
    Files = {f1}
    Durable = FALSE
    None = None
    MaxStarts = 4
    MaxGeneration = 2
INVARIANTS
    FailedPrepareHoldsNoClaim
CHECK_DEADLOCK FALSE
