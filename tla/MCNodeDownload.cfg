SPECIFICATION Spec
CONSTANTS
    Handlers = {h1, h2}
    Workers = {w1, w2}
    None = None
    Length = 3
    MaxAttempts = 2
    Failures = {"timeout", "deny", "control", "crash", "stale", "lease", "disk", "deadline"}
    MaxFaults = 3
SYMMETRY Symmetry
INVARIANTS TypeOK BegunStreamHasSession SettlementIsQueued StreamIsAuthorised ReadersKeepObject
PROPERTIES ForgetsOnlySettled ImplementsLedger
CHECK_DEADLOCK FALSE
