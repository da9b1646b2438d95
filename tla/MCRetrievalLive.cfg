SPECIFICATION FairSpec
CONSTANTS
    Recipients = {c1}
    Uploads = {u1, u2}
    Sessions = {s1}
    Reservations = {r1, r2}
    None = None
    TransferModes = {"retrieval_session_v1"}
    MaxDownloads = 1
    FileLength = 2
    ProvisionalLifetime = 1
    SessionLifetime = 2
    ReservationLifetime = 1
    MaxStream = 2
    TransferLifetime = 1
    MaxDelay = 0
    MaxTime = 3
    MaxFaults = 1
INVARIANT TypeOK
PROPERTIES EarlyCloseIsComplete ExpiredFilesAreDeleted ProvisionalEnds
CHECK_DEADLOCK FALSE
