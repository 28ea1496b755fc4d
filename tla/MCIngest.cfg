SPECIFICATION FairSpec
CONSTANTS
  PageSize = 2
  Limits <- MCLimits
  MaxId = 4
  MaxChanges = 1
  MaxFailures = 2
INVARIANT WalkedIsKept
PROPERTIES CursorAdvances LatestIsStored
