SPECIFICATION QSpec
CONSTANTS
  NoEvent = NoEvent
  Event = {work}
  Threaded = {}
  Scheduled = {}
  MaxAttempts = 2
  RetryLimit = 1
  OutageLimit = 0
  Replies = {"completed"}
PROPERTY NoRetryWhileOwned
