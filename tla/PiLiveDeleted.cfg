SPECIFICATION Spec
CONSTANTS
    a = a  b = b  p1 = p1
    Runtime = {a}
    Fresh = {a}
    Continued = {}
    Watched = {a}
    Path = {p1}
    NoPath = NoPath
    MaxRecords = 2
    MaxGen = 2
    MaxDaemons = 2
    MaxDisposals = 2
INVARIANTS DeletedStaysDeleted
CHECK_DEADLOCK FALSE
