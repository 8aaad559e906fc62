SPECIFICATION Spec
CONSTANTS
    Owners = {o1, o2}
    Terms = {1, 2}
    Processes = {p1}
    MaxNow = 3
    MaxCalls = 4
INVARIANTS
    TypeOK
    GenerationNeverReminted
    ConfirmedGrantPersisted
PROPERTIES
    LiveLeaseNotOverwritten
    ImplementsFencedLease
CHECK_DEADLOCK FALSE
