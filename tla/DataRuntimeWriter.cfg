SPECIFICATION Spec
CONSTANTS
    r1 = r1  r2 = r2  r3 = r3  r4 = r4  t1 = t1
    Req = {r1, r2, r3, r4}
    Tx = {t1}
    NoTx = NoTx  Ping = Ping  Stop = Stop  None = None
    Role = "writer"
    Workloads <- TxWorkloads
    MaxPending = 2
    MaxStarts = 1
INVARIANTS AckedWritesDurable TransactionsAtomic
PROPERTIES NoStartAfterTimeout CleanupReleases
CHECK_DEADLOCK FALSE
