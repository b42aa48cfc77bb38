SPECIFICATION Spec
SYMMETRY Symmetry
CONSTANTS
    Users = {u1, u2}
    Invitee = u1
    Requests = {q1, q2}
    Asks = {a1, a2}
    MaxUses = 1
    MaxResends = 2
    None = None
INVARIANT GroundsStand
INVARIANT JoinsArePaid
PROPERTY DecisionsStand
PROPERTY LinkDiesOnlyByOverlap
