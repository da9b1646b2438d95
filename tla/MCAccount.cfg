SPECIFICATION Spec
CONSTANTS
    Requests = {q1, q2}
    Batches = {b1, b2}  Codes = {k1, k2}  Redeemers = {h1, h2, h3}  CheckIns = {i1, i2}
    b1 = b1  b2 = b2  k1 = k1  k2 = k2  h1 = h1  h2 = h2  h3 = h3
    BatchOf <- MCBatchOf  UserOf <- MCUserOf  Duration <- MCDuration
    Me = me  Other = other  None = None
    Offers <- MCOffers  DayLength = 2
    CodeTTL = 2  Cooldown = 2  DeliveryTimeout = 1  MaxAttempts = 1
    PendingLifetime = 1  SessionLifetime = 2  Welcome = 1
    MaxCodes = 2  MaxSessions = 3  MaxFaults = 1  MaxTime = 2  MaxOperations = 6
SYMMETRY Interchangeable
INVARIANTS TypeOK DeliveredCodeIsCurrent AccountIsWhole BenefitsOnce
PROPERTIES DisabledIsFinal VipIsKept
CHECK_DEADLOCK FALSE
