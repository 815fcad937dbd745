SPECIFICATION Spec
CONSTANTS
    Request = {r1, r2}
    NoRequest = NoRequest
    MaxFence = 3
    RollbackLimit = 0
    OutageLimit = 0
ACTION_CONSTRAINT Answering
SYMMETRY Interchangeable
INVARIANTS RuntimeSingleFlight
