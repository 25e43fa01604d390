SPECIFICATION FairSpec
CONSTANTS
    N = 2
    Poison <- FirstPoison
    PoisonAt = 1
    MaxId = 1
    MaxLen = 2
    FirstLen = 2
    PageLimit = 1
    MaxPages = 1
    MaxPerTrigger = 2
    MaxResumable = 1
    MaxBatches = 2
    BatchErrors = 1
    Certified = TRUE
    Http = {}
    Nothing = Nothing
INVARIANTS TypeOK
PROPERTIES HealthyRefreshed
CHECK_DEADLOCK FALSE
