\* Two requests overlap on one card, scored and submitted again under two rubrics, or
\* on two assignments of which one takes over the other.
CONSTANTS
    Requests = {q1, q2}
    Judges = {j1}
    Submissions = {s1}
    Cards = {c1, c2}
    Scores = {1, 2}
    Rubrics = {1, 2}
    None = None
SPECIFICATION Spec
CHECK_DEADLOCK FALSE
SYMMETRY Symmetry
CONSTRAINT Bound
INVARIANT TotalsMatchScores
PROPERTIES
    LockedAsSubmitted
    ResultsStand
    RubricLockedByScores
    AssignmentsMoveForward
