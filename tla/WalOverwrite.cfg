SPECIFICATION Spec
CONSTANTS
    Payloads = {q1, q2}
    Checkpoint = Checkpoint
    Torn = Torn
    ChannelCapacity = 1
    BatchSize = 2
    MaxCheckpoints = 1
    MaxCrashes = 1
CHECK_DEADLOCK FALSE
INVARIANTS AckedSurvives
