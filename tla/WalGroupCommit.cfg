SPECIFICATION FairSpec
CONSTANTS
    Payloads = {q1, q2}
    Checkpoint = Checkpoint
    Torn = Torn
    ChannelCapacity = 1
    BatchSize = 2
    MaxCheckpoints = 2
    MaxCrashes = 2
CHECK_DEADLOCK FALSE
INVARIANTS LogSound
PROPERTIES AppendAnswered
