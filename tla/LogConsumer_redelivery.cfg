SPECIFICATION Spec
CONSTANTS
    p1 = p1
    t1 = t1
    NoTrace = NoTrace
    NoMessage = NoMessage
    Partition <- OnePartition
    LogLen = 3
    TraceOf <- RepeatedTrace
    Malformed <- NoRecord
    Rejected <- NoRecord
    BatchSize = 2
    MaxRetries = 1
    MaxRewinds = 1
INVARIANTS
    CommittedIsRepresented
    OneRowPerDelivery
CHECK_DEADLOCK FALSE
