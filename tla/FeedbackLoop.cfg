SPECIFICATION FairSpec
CONSTANTS
    t1 = t1
    t2 = t2
    NoIncident = NoIncident
    Incident <- Incidents
    Past <- PastIncidents
    Lasting <- WithoutTtl
    Tenant <- Tenants
    TenantOf <- TenantsOf
    Score <- Scores
    Seeded <- Seeds
    Labelled <- Labels
    Observed <- Observations
    Closeness <- Distances
    ProxyThreshold = 1
    Mark = {60, 90}
    Threshold = 2
    Budget = 2
    TierCost = {1, 2}
    FallbackCost = {1}
    MaxEnds = 1
    MaxDays = 1
INVARIANTS
    DailyCapHoldsUpToFlight
    AnswersAreGenuine
    KnowledgeHasRows
    LearnedIsGrounded
PROPERTIES
    ResultsAreTaken
CHECK_DEADLOCK FALSE
