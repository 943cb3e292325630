SPECIFICATION FairSpec
CONSTANTS
  Profiles <- MCProfiles
  Versions = {1, 2}
  PoolSize = 65535
  Threshold = 3
INVARIANTS RequestSound SearchKeepsTarget PoolMirrorsDevice
PROPERTIES ScanCovers ScanEnds
