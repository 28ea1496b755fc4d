\* Two concurrent requests, two groups, up to two transactions of another process.
SPECIFICATION Spec
CONSTANTS
  r1 = r1
  r2 = r2
  c1 = c1
  c2 = c2
  v1 = v1
  v2 = v2
  None = None
  Channels = {c1, c2}
  Requests = {r1, r2}
  Values = {v1, v2}
  MaxGroup = 2
  MaxRivals = 2
  MaxFaults = 1
SYMMETRY Symmetry
PROPERTIES RefusedCreateLeavesNoGroup ConflictKeepsOldChannel PatchKeepsOtherColumns
