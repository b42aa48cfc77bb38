\* One worker slot, and a handler that fails once.
CONSTANTS
    Workers = {w1}
    MaxAttempts = 2
    NoWorker = NoWorker
    Faults = {"crash", "provider"}
SPECIFICATION Spec
CHECK_DEADLOCK FALSE
INVARIANT SkippedIsCompleted
