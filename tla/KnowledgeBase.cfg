SPECIFICATION KnowledgeSpec
CONSTANTS
    acme = acme
    other = other
    Silent = Silent
    Tenant <- AllTenants
    Tenants <- SeededTenants
    Incidents = 2
    SeedThreshold = 2
    CorpusLimit = 2
    TopK = 3
    K = 60
    Results = 1
    MaxTransactions = 3
INVARIANTS
    SeededOnce
    AnswersAreBacked
    BothListsFirst
CHECK_DEADLOCK FALSE
