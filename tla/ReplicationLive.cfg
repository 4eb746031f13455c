SPECIFICATION FairSpec
CONSTANTS
    Followers = {f1}
    Authorized = {f1}
    QueueCapacity = 1
    WireCapacity = 1
    MaxLsn = 3
    MaxSessions = 1
CHECK_DEADLOCK FALSE
PROPERTIES AppendTerminates FollowersInformed
