SPECIFICATION FairSpec
CONSTANTS
    p1 = p1
    p2 = p2
    NoMessage = NoMessage
    Partition <- TwoPartitions
    LogLen = 2
    Malformed <- Garbled
    Untokenisable <- Special
    Low <- LowSeverity
    LowSkip = TRUE
    MaxRetries = 2
    MaxRewinds = 1
PROPERTIES
    ImplementsAtLeastOnce
    BacklogDrains
CHECK_DEADLOCK FALSE
