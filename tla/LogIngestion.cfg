SPECIFICATION IngestionSpec
CONSTANTS
    a = a
    b = b
    bad = bad
    Log <- Logs
    Valid <- ValidLogs
    Rps = 2
    MaxSends = 2
    MaxTicks = 1
    MaxProbes = 1
    MaxCrashes = 1
SYMMETRY Symmetric
INVARIANTS
    AcceptedIsPublished
PROPERTIES
    DrainIsGraceful
CHECK_DEADLOCK FALSE
