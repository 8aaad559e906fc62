SPECIFICATION Spec
CONSTANTS
    Calls = {c1, c2}
    Rollbackable = {r1}
    External = {e1}
    Files = {f1}
    Durable = TRUE
    None = None
    MaxStarts = 5
    MaxGeneration = 2
INVARIANTS
    TypeOK
    OutcomesAgree
    NoRecordedMutationLost
    LedgerMatchesCommit
    ExternalEffectsApproved
PROPERTIES
    ImplementsAtomicMutation
CHECK_DEADLOCK FALSE
