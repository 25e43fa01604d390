SPECIFICATION FairSpec
CONSTANTS
    a = a  b = b  p1 = p1
    Runtime = {a}
    Fresh = {a}
    Continued = {a}
    Watched = {a}
    Path = {p1}
    NoPath = NoPath
    MaxRecords = 2
    MaxGen = 2
    MaxDaemons = 2
    MaxDisposals = 1
INVARIANTS TypeOK DisposeKeepsTasks
PROPERTIES InitializationSettles
CHECK_DEADLOCK FALSE
