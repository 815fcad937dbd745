SPECIFICATION FairSpec
CONSTANTS
    MaxAttempts = 2
    CrashLimit = 1
    SteerLimit = 1
ACTION_CONSTRAINT Bounds
INVARIANTS TypeOK CommandedOnce CancelledIsQuiet
PROPERTIES TerminalStays OutcomeTold EventuallySettled
CHECK_DEADLOCK FALSE
