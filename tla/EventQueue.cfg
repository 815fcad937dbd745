SPECIFICATION FairSpec
CONSTANTS
  NoEvent = NoEvent
  slack = slack
  notice = notice
  work = work
  Event = {slack, notice, work}
  Threaded = {slack}
  Scheduled = {work}
  MaxAttempts = 2
  RetryLimit = 1
  OutageLimit = 2
  Replies = {"completed", "completed_posted", "failed", "failed_posted", "invalid"}
ACTION_CONSTRAINT Bounds
INVARIANTS TypeOK SingleFlight AtMostOnce DispatchingIsHeld OwnedFollowsEvent
PROPERTIES OrderedDispatch DeliversSerially EventuallySettled
