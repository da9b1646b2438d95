SPECIFICATION FairSpec
CONSTANTS
    Handlers = {h1}
    Workers = {w1}
    None = None
    Length = 1
    MaxAttempts = 2
    Failures = {"timeout"}
    MaxFaults = 1
PROPERTIES EndedDownloadsLetGo
CHECK_DEADLOCK FALSE
