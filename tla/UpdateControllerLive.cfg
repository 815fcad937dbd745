SPECIFICATION FairSpec
CONSTANTS
    Plans <- TwoPlans
    CrashLimit = 0
    EventLimit = 1
PROPERTIES ActivationSettles
CHECK_DEADLOCK FALSE
