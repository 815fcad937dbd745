SPECIFICATION FairSpec
CONSTANTS
    MaxAttempts = 2
    Disturbances = 2
INVARIANTS TypeOK WorkersAccounted
PROPERTIES OwnerDecides EveryTaskSettles
CHECK_DEADLOCK FALSE
