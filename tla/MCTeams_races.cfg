\* Two requests of every kind overlap in a team with room for one more.
CONSTANTS
    Users = {u1, u2, u3}
    Teams = {t1}
    Invitations = {i1, i2}
    Requests = {q1, q2}
    MaxTeamSize = 2
    None = None
SYMMETRY Symmetry
SPECIFICATION Spec
CHECK_DEADLOCK FALSE
PROPERTIES
    CapacityHeld
    AloneKeepsRosters
    AloneAcceptsPending
    RostersFreeze
