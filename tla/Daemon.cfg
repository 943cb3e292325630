SPECIFICATION FairSpec
CONSTANTS
  Clients = {hmi, logger}
  MaxSubs = 2
  Configs <- MCConfigs
  MaxUnits = 2
  NumKeys = 1
INVARIANTS ResourceLifetimes CrashNeedsFailedBridge EveryoneGetsEach
PROPERTY ShutdownCompletes
