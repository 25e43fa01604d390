SPECIFICATION IndexerSpec
CONSTANTS
    N = 1
    Poison <- NoPoison
    PoisonAt = 1
    MaxId = 2
    MaxLen = 2
    FirstLen = 2
    PageLimit = 1
    MaxPages = 1
    MaxPerTrigger = 2
    MaxResumable = 1
    MaxBatches = 1
    BatchErrors = 2
    Certified = TRUE
    Http = {h1}
    Nothing = Nothing
INVARIANTS CountsAreExact
CHECK_DEADLOCK FALSE
