SPECIFICATION Spec
SYMMETRY Alike
VIEW Unanswered
CONSTANTS
    Device = {d1, d2}
    Kind = {k1, k2}
    WindowEvents = 3
    WindowTime = 1
    ChannelTtl = 1
    MaxBatch = 2
    Feeds = {"array", "object", "sequenced"}
    MaxEvents = 4
    MaxSeq = 2
    MaxChannels = 1
    MaxSubs = 1
    MaxTime = 2
    MaxMounts = 2
INVARIANTS TypeOK NothingSkipped
PROPERTIES ImplementsEventLog DeadChannelStaysDead
CHECK_DEADLOCK FALSE
