SPECIFICATION DeploymentSpec
CONSTANTS
  Procs = {p1, p2}
  Self = p1
  Tokens = {t1, t2, t3, t4}
  MaxCrashes = 1
  Nothing = Nothing
  Accounts <- MCAccounts
  Keys <- MCKeys
  Values = {v}
  Default = Default
  Absent = Absent
INVARIANTS
  QueueOutlivesLoops
  EnginesOutliveWrites
  ShutdownReversesStartup
  WriteFailuresRecover
  UserValueStays
PROPERTY
  TokenIsNotRotated
  ShutdownEnds
