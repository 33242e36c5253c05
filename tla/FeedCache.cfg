SPECIFICATION FairCacheSpec
CONSTANTS
  MaxVersion = 3
  Retries = 1
  MaxKills = 2
  None = None
  Torn = Torn
INVARIANTS
  ServedIsCurrent
  OfflineIsGenuine
  CacheInv
PROPERTIES
  CallEnds
