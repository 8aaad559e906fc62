SPECIFICATION FairSpec
CONSTANTS
    Owners = {o1, o2}
    Terms = {1}
    Subscribers = {s1}
    MaxNow = 2
    MaxCalls = 4
    MaxLane = 2
INVARIANTS
    TypeOK
    GenerationNeverReminted
    WatcherNeverBehind
PROPERTIES
    OnlyTheHolderChangesAGrant
    LiveLeaseDisplacedOnlyByProof
    ImplementsFencedLease
    EveryCallAnswered
CHECK_DEADLOCK FALSE
