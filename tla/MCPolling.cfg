\* One account with one channel.
SPECIFICATION FairSpec
CONSTANTS
  a1 = a1
  Accounts = {a1}
  MaxChannel = 1
  Interval = 2
  Jitter = 1
  Waits = {1, 2}
  Window = 1
  Threshold = 2
  MaxHandlers = 2
  MaxPurges = 1
  MaxFailures = 1
  Free = Free
  Keep = Keep
INVARIANTS OneJobTooManyAtMost FloodWaitIsHonoured OneNoticePerPause
PROPERTY DueChannelIsPolled
