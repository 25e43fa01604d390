SPECIFICATION StallSpec
CONSTANTS
    r1 = r1  r2 = r2  r3 = r3  r4 = r4  t1 = t1
    Req = {r1, r2}
    Tx = {t1}
    NoTx = NoTx  Ping = Ping  Stop = Stop  None = None
    Role = "reader"
    Workloads <- CallWorkloads
    MaxPending = 2
    MaxStarts = 2
INVARIANTS BacklogBounded OpenIffPending
PROPERTIES EveryCallSettles SlotsComeBack UnresponsiveWorkerRecycled
CHECK_DEADLOCK FALSE
