CONSTANTS
    h1 = h1
    h2 = h2
    d1 = d1
    d2 = d2
    l1 = l1
    l2 = l2
    Torn = Torn
    None = None
    Handlers = {h1, h2}
    Data = {d1, d2}
    Leases = {l1, l2}
    Length = 2
    MaxFaults = 2
SPECIFICATION FairSpec
INVARIANTS TypeOK AcknowledgedBytesAreStored OneWorkerPerRow VerdictIsReported NoOrphanBytes
PROPERTIES CompleteIsDecided ExpiredIsRemoved
CHECK_DEADLOCK FALSE
