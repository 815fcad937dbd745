SPECIFICATION Spec
CONSTANTS
    Request = {r1, r2}
    NoRequest = NoRequest
    MaxFence = 3
    RollbackLimit = 1
    OutageLimit = 0
SYMMETRY Interchangeable
INVARIANTS RuntimeSingleFlight
