SPECIFICATION Spec
CONSTANTS
    Followers = {f1, f2}
    Authorized = {f1}
    QueueCapacity = 1
    WireCapacity = 1
    MaxLsn = 2
    MaxSessions = 2
CHECK_DEADLOCK FALSE
INVARIANTS StreamsExact AppliedPrefix UnauthorizedIsolated
