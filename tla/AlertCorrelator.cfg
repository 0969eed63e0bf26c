SPECIFICATION FairSpec
CONSTANTS
    p1 = p1
    t1 = t1
    t2 = t2
    s1 = s1
    s2 = s2
    NoMessage = NoMessage
    NoIncident = NoIncident
    Partition <- OnePartition
    LogLen = 4
    Malformed <- Last
    Tenant <- TwoTenants
    Service <- TwoServices
    TenantOf <- Tenants
    ServiceOf <- ServicesOf
    SeverityOf <- Severities
    WindowSeconds = 1
    MaxRetries = 2
    MaxClock = 2
    MaxRewinds = 1
INVARIANTS
    CascadeIsGenuine
    OneCascadePerArrival
PROPERTIES
    ImplementsAtLeastOnce
    NoCascadeMissed
    BacklogDrains
CHECK_DEADLOCK FALSE
