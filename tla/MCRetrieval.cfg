SPECIFICATION Spec
CONSTANTS
    Recipients = {c1, c2}
    Uploads = {u1}
    Sessions = {s1, s2}
    Reservations = {r1, r2}
    None = None
    TransferModes = {"retrieval_session_v1", "legacy_file"}
    MaxDownloads = 1
    FileLength = 1
    ProvisionalLifetime = 1
    SessionLifetime = 2
    ReservationLifetime = 1
    MaxStream = 2
    TransferLifetime = 2
    MaxDelay = 1
    MaxTime = 3
    MaxFaults = 1
SYMMETRY Symmetry
INVARIANTS SlotAccounting StatusTracksSlots StreamKeepsSession NoConcurrentFileDownload
PROPERTIES ExhaustedDeletionIsQuiet OnlyUnusedSlotsReturn
CHECK_DEADLOCK FALSE
