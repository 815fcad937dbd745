SPECIFICATION Spec
CONSTANTS
    Plans <- SomePlans
    CrashLimit = 1
    EventLimit = 0
INVARIANTS OldReadsSchema
CHECK_DEADLOCK FALSE
