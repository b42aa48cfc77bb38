\* Two worker slots and every fault, slow workers, cancellations and removals included.
CONSTANTS
    Workers = {w1, w2}
    MaxAttempts = 2
    NoWorker = NoWorker
    Faults = {"crash", "db", "provider", "slow", "cancel"}
SPECIFICATION FairSpec
CHECK_DEADLOCK FALSE
INVARIANTS
    OneSender
    ProcessedMeansSettled
    CompletedHasFile
PROPERTIES
    SettledStays
    EventuallySettled
