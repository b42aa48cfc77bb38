\* A batch of a routable and an unroutable event, faults at any time; and a relay with
\* delayed rows, a refusing queue, failing batches and probes, lost notifications.
CONSTANTS
    Events = {e1, e2}
    Dispatchers = {d1}
    Workers = {w1}
    MaxAttempts = 2
    BatchSize = 2
    Unroutable = {e2}
    Behind = {}
    NoEvent = NoEvent
    NoWorker = NoWorker
    Rows = {r1, r2}
    MaxBatch = 1
    MaxRounds = 2
    Delays = TRUE
    NoRow = NoRow
    Failures = {"drain", "probe", "enqueue", "silence"}
SPECIFICATION DispatchSpec
CHECK_DEADLOCK FALSE
INVARIANTS
    NoLostWakeup
    StopAwaitsBatch
PROPERTIES
    EventuallySettled
    GapSurfaces
    DueIsClaimed
    StopTerminates
