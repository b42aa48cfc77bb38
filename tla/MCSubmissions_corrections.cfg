\* One request after the other, one deadline, room for a second final version.
CONSTANTS
    Requests = {q1}
    Deadlines = {1}
    MaxVersions = 3
    MaxNow = 1
SPECIFICATION PersistentSpec
CHECK_DEADLOCK FALSE
PROPERTIES
    CorrectionsAreFinalized
