SPECIFICATION FairSpec
CONSTANTS
    Request = {r1}
    NoRequest = NoRequest
    MaxFence = 2
    RollbackLimit = 1
    OutageLimit = 1
ACTION_CONSTRAINT OneDisturbance
INVARIANTS TypeOK OneWriter DecisionReported
PROPERTIES ReopenedByNewFence NoticeSettles
