\* Two requests of every kind, deadlines on either side of the clock, and enough
\* versions for a reopened submission to be saved again.
CONSTANTS
    Requests = {q1, q2}
    Deadlines = {1, 2}
    MaxVersions = 5
    MaxNow = 2
SPECIFICATION Spec
CHECK_DEADLOCK FALSE
INVARIANTS
    FinalVersionKept
    DraftsFollowOn
    MarkedWhileDisqualified
PROPERTIES
    DisqualificationStands
    ImplementsLife
