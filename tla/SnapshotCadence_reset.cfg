SPECIFICATION Spec
CONSTANTS
    Sessions = {s1, s2}
    Keys = {k1, k2}
    Edits = {e1, e2}
    Null = Null
    MaxRevision = 3
    MaxGeneration = 2
    MaxMishaps = 1
SYMMETRY Interchangeable
PROPERTY StaleWritersLose
CHECK_DEADLOCK FALSE
