SPECIFICATION Spec
CONSTANTS
    u1 = u1
    u2 = u2
    o1 = o1
    o2 = o2
    Uploads = {u1, u2}
    Remote = {u1}
    Length <- MixedLength
    Orders = {o1, o2}
    OrderSeq <- TwoOrders
    Method <- BothMethods
    Traffic <- TrafficOfOrders
    PointsPrice = 2
    Reward = 1
    InitialTraffic = 1
    InitialPoints = 1
    LegacyHold = 1
    GuestDailyBytes = 2
    MaxFiles = 2
    MaxBytes = 3
    None = None
    MaxFaults = 0
INVARIANTS HoldsAreCovered TrafficIsConserved ReturnedOrderIsUnused
CHECK_DEADLOCK FALSE
