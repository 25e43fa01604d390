SPECIFICATION MCSpec
CONSTANTS
    None = None  Unknown = Unknown
    e1 = e1  e2 = e2  e3 = e3
    f1 = f1  f2 = f2  s1 = s1  s2 = s2  ca = ca  cb = cb
    m1 = m1  m2 = m2  d1 = d1  d2 = d2
    Event = {e1, e2, e3}  Oversized = {}  Sessionless = {}  NoFile = NoFile
    MaxName = 3  MaxEntries = 1  PageSize = 1  Shared = {}
    File = {f1}  Snap = {s1, s2}  ContentOf <- MCContentOf
    MaxVersion = 1  MaxObjects = 2
    Mig = {m1, m2}
    Daemon = {d1, d2}
    MaxWrites = 1
INVARIANTS PagesSkipNothing SnapshotsAreTrue SnapshotsAreWhole
    PointerNamesInstalled RetryPossible DaemonsOpenWhole
PROPERTIES ActivatesEverything
CHECK_DEADLOCK FALSE
