SPECIFICATION Spec
CONSTANTS
    Plans <- SomePlans
    CrashLimit = 1
    EventLimit = 1
ACTION_CONSTRAINT OneDisturbance
INVARIANTS TypeOK KnownGood DecisionTrue
PROPERTIES WorkersStayBehind OneCommand
CHECK_DEADLOCK FALSE
