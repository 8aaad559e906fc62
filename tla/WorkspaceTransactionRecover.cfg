SPECIFICATION Spec
CONSTANTS
    Calls = {c1, c2}
    Rollbackable = {r1}
    External = {e1}
    Files = {f1}
    Durable = TRUE
    None = None
    MaxStarts = 4
    MaxGeneration = 2
PROPERTIES
    StaleOwnerNeverRecovers
CHECK_DEADLOCK FALSE
