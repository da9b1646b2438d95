SPECIFICATION RevocationSpec
CONSTANTS
    Recipients = {c1}
    Uploads = {u1}
    Sessions = {s1, s2}
    Reservations = {r1, r2}
    None = None
    TransferModes = {"retrieval_session_v1"}
    MaxDownloads = 1
    FileLength = 1
    ProvisionalLifetime = 2
    SessionLifetime = 3
    ReservationLifetime = 2
    MaxStream = 3
    TransferLifetime = 3
    MaxDelay = 0
    MaxTime = 3
    MaxFaults = 0
SYMMETRY Symmetry
PROPERTY RevokedIsUnavailable
CHECK_DEADLOCK FALSE
