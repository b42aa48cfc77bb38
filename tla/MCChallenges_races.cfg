\* Two overlapping requests of every kind, a deadline on either side of the clock.
CONSTANTS
    Requests = {q1, q2}
    Deadlines = {1, 2}
    OpensAt = 1
    Lead = 1
    MaxNow = 2
    MaxRevision = 3
SPECIFICATION FairSpec
CHECK_DEADLOCK FALSE
INVARIANTS
    ResultsAgree
    ReminderFollowsRow
    OneDeadlinePerRevision
PROPERTIES
    LifecycleMovesForward
    ShortenedOnlyUnseen
    ScheduledIsDispatched
