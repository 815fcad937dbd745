SPECIFICATION Spec
CONSTANTS
    Job = {j1, j2}
    None = None
    Second = j2
    Events = 2
    MaxPhases = 2
    FaultLimit = 1
    CallFaults = 2
    CrashLimit = 1
    ReturnLimit = 1
    OutageLimit = 1
    HandLimit = 2
    StopLimit = 1
ACTION_CONSTRAINT Bounds
INVARIANTS TypesOK ToldStaysTrue NoticeIsLastWord 
PROPERTIES EverythingComes
CHECK_DEADLOCK FALSE
