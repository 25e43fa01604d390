SPECIFICATION Spec
CONSTANTS
    N = 1
    Poison <- NoPoison
    PoisonAt = 1
    MaxId = 2
    MaxLen = 2
    FirstLen = 1
    PageLimit = 1
    MaxPages = 1
    MaxPerTrigger = 1
    MaxResumable = 1
    MaxBatches = 2
    BatchErrors = 1
    Certified = TRUE
    Http = {}
    Nothing = Nothing
INVARIANTS SettledIsWhole
PROPERTIES CatalogMonotone
CHECK_DEADLOCK FALSE
