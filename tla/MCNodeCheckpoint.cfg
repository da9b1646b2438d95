SPECIFICATION Spec
CONSTANTS
    Handlers = {h1}
    Workers = {w1}
    None = None
    Length = 2
    MaxAttempts = 2
    Failures = {}
    MaxFaults = 0
PROPERTIES CheckpointsDoNotInterrupt
CHECK_DEADLOCK FALSE
