\* One event, routable or not, two dispatchers and two worker slots: every race for one
\* row; one slot runs a build that lacks the handler.
CONSTANTS
    Events = {e1, e2}
    Dispatchers = {d1, d2}
    Workers = {w1, w2}
    MaxAttempts = 3
    BatchSize = 1
    Unroutable = {e2}
    Behind = {w2}
    NoEvent = NoEvent
    NoWorker = NoWorker
SYMMETRY Symmetry
CONSTRAINT OneRow
SPECIFICATION Spec
PROPERTIES
    ImplementsObligation
    ImplementsHandledJob
