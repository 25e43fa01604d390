SPECIFICATION MCSpec
CONSTANTS
    None = None  NoScope = NoScope
    v1 = v1  v2 = v2
    i1 = i1  i2 = i2  r1 = r1
    Installation = {i1, i2}  Rescan = {r1}  MaxScopes = 1
    Version = {v1, v2}
    ApiOf <- MCApiOf
    Release <- MCRelease
    MaxOps = 3
    MaxHistory = 1
INVARIANTS PointerIsWhole CacheIsTrue OneCapturePerScope
    NothingOutlivesDispose RunExaminesItsFinds
PROPERTIES InstallsAtomically OperationsSettle EveryCallReturns
CHECK_DEADLOCK FALSE
