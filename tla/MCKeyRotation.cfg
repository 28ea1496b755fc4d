\* One job at a time, interrupted and resumed.
SPECIFICATION FairSpec
CONSTANTS
  j1 = j1
  Jobs = {j1}
  MaxVersion = 3
  MaxAccount = 3
  MaxCrashes = 2
  NoState = NoState
INVARIANT NoAccountIsSkipped
PROPERTIES CompletionIsEarned RotationFinishes
