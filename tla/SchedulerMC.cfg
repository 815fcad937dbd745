SPECIFICATION FairSpec
CONSTANTS
    Horizon = 2
    MaxRevision = 2
    first = a
    second = b
    one = s
    two = t
    Instance = {a, b}
    Sender = {s, t}
    Nobody = Nobody
    CrashLimit = 1
    Disturbances = 1
ACTION_CONSTRAINT Bounds
INVARIANTS TypeOK PostsAccounted OccurrenceOnce UnsentIsCurrent
PROPERTIES EventuallyDecided
CHECK_DEADLOCK FALSE
