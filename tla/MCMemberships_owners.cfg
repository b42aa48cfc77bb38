\* Two removals or demotions overlap.
CONSTANTS
    Users = {u1, u2, u3}
    NoUser = NoUser
    Requests = {q1, q2}
    Kinds = {"changeRole", "remove", "join"}
SYMMETRY Symmetry
SPECIFICATION Spec
CHECK_DEADLOCK FALSE
INVARIANT AlwaysAnOwner
