SPECIFICATION FairSpec
CONSTANTS
    c1 = c1
    Messages <- Topic
    MaxIterations = 2
    MaxAttempts = 2
    MaxScanned = 4
    Client = {c1}
    MaxCalls = 1
    MaxEnds = 1
INVARIANTS
    CompleteStreamIsWhole
    OutcomesAgree
PROPERTIES
    EveryIncidentEnds
CHECK_DEADLOCK FALSE
