SPECIFICATION MCSpec
CONSTANTS
    a = a  b = b  p1 = p1
    Runtime = {a}
    Fresh = {a}
    Continued = {}
    Watched = {a}
    Path = {p1}
    NoPath = NoPath
    MaxRecords = 2
    MaxGen = 3
    MaxDaemons = 1
    MaxDisposals = 0
    Turns = 2
    Parts = 1
    MaxFaults = 2
INVARIANTS ReadyIsServed SavedIsStored WorkersAreHeld QuietIsFaithful
PROPERTIES NothingVanishes
CHECK_DEADLOCK FALSE
