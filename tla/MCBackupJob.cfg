\* Three runs over three days, one after another, with a retention of one or
\* two: a run can fail, repeat a day, and push out an older backup.
SPECIFICATION BackupSpec
CONSTANTS
  r1 = r1
  r2 = r2
  r3 = r3
  Runs = {r1, r2, r3}
  MaxDay = 3
  Retains = {1, 2}
  MaxDeaths = 1
  Overlap = FALSE
  NoFile = NoFile
SYMMETRY Symmetry
INVARIANT BackupsAreWhole
PROPERTIES SuccessKeepsItsBackup BackupIsLostToNewerOnes
CHECK_DEADLOCK FALSE
