SPECIFICATION FairInboxSpec
CONSTANTS
    e1 = e1  e2 = e2  e3 = e3
    Event = {e1, e2, e3}
    Oversized = {e1, e3}
    Sessionless = {e3}
    NoFile = NoFile
    MaxName = 3
    MaxEntries = 1
    PageSize = 1
    Shared = {1}
INVARIANTS EmittedIsSealed
PROPERTIES AtLeastOnce HealthyDelivered
