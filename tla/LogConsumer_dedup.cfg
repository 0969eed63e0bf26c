SPECIFICATION Spec
CONSTANTS
    p1 = p1
    t1 = t1
    NoTrace = NoTrace
    NoMessage = NoMessage
    Partition <- OnePartition
    LogLen = 4
    TraceOf <- RepeatedTrace
    Malformed <- Fourth
    Rejected <- Second
    BatchSize = 2
    MaxRetries = 2
    MaxRewinds = 0
PROPERTIES
    DedupDropsOnlyRedeliveries
CHECK_DEADLOCK FALSE
