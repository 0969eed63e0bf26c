SPECIFICATION FairSpec
CONSTANTS
    p1 = p1
    NoMessage = NoMessage
    Partition <- OnePartition
    LogLen = 4
    Corrupt <- Nothing
    Invalid <- Fourth
    Injected <- First
    Pii <- FirstToThird
    Mistyped <- Second
    QueueLimit = 2
    MaxRewinds = 1
    MaxResends = 1
INVARIANTS
    CommittedIsForwarded
    OneCopyPerDelivery
    FlaggedIsAudited
PROPERTIES
    StopFinishesMessage
    LoopProgress
    ShutdownCompletes
CHECK_DEADLOCK FALSE
