\* Two clusters with the same id, one after the other.
SPECIFICATION BotSpec
CONSTANTS
  k1 = k1
  Configs = {k1}
  None = None
  MaxCluster = 1
  BatchSize = 2
  MaxSerial = 2
  MaxRequests = 0
  MaxCrashes = 0
  Poison = {}
INVARIANT RecordedWasSent
