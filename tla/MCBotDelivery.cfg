\* Two clusters, which may have the same id one after the other; Telegram never
\* accepts the message of the first.
SPECIFICATION FairBotSpec
CONSTANTS
  k1 = k1
  Configs = {k1}
  None = None
  MaxCluster = 2
  BatchSize = 2
  MaxSerial = 2
  MaxRequests = 1
  MaxCrashes = 1
  Poison = {1}
PROPERTIES
  RecordedIsNotSentAgain ThirdFailureWarns ClusterGetsDelivered DisabledBotFallsSilent
