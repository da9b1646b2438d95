SPECIFICATION FairSpec
CONSTANTS
    u1 = u1
    u2 = u2
    o1 = o1
    o2 = o2
    Uploads = {u1, u2}
    Remote = {u1}
    Length <- MixedLength
    Orders = {}
    OrderSeq <- NoOrders
    Method <- Points
    Traffic <- NoTraffic
    PointsPrice = 1
    Reward = 1
    InitialTraffic = 3
    InitialPoints = 1
    LegacyHold = 0
    GuestDailyBytes = 0
    MaxFiles = 2
    MaxBytes = 3
    None = None
    MaxFaults = 1
INVARIANTS TypeOK ChargeFollowsUpload TransferCountsUploads
PROPERTIES HoldsEnd DeletedStaysDeleted
CHECK_DEADLOCK FALSE
