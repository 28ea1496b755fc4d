\* Two runs of two cycles; the documentation is reviewed every second cycle.
SPECIFICATION FairRunnerSpec
CONSTANTS
  NItems = 2
  Verified <- MCVerified
  MaxCycles = 2
  MaxRetries = 1
  MaxWaits = 1
  DocsInterval = 2
  MaxRepairs = 2
  AllowDirty = FALSE
  MaxStarts = 2
  MaxCommits = 2
  MaxOdd = 1
\* The user may stop starting it.
CHECK_DEADLOCK FALSE
PROPERTIES DoneIsGated NextItemAfterReview RunnerEnds
