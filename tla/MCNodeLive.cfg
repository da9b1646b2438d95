SPECIFICATION FairSpec
CONSTANTS
    Handlers = {h1}
    Workers = {w1, w2}
    None = None
    Length = 2
    MaxAttempts = 5
    Failures = {"timeout", "control", "crash", "stale", "lease", "disk"}
    MaxFaults = 3
PROPERTIES SessionsEnd BegunIsSettled
CHECK_DEADLOCK FALSE
