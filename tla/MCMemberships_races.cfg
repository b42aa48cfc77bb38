\* Two users, two overlapping requests of every kind.
CONSTANTS
    Users = {u1, u2}
    NoUser = NoUser
    Requests = {q1, q2}
    Kinds = {"changeRole", "remove", "reactivate", "join", "delete"}
SYMMETRY Symmetry
SPECIFICATION Spec
CHECK_DEADLOCK FALSE
PROPERTIES
    OwnerlessOnlyByOverlap
    BettersOnlyByOverlap
    RemovedRowsStay
