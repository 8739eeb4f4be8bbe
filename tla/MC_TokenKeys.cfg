SPECIFICATION KeysSpec
CONSTANTS
  k1 = k1
  k2 = k2
  Kid = {k1, k2}
  MinCacheAge = 1
  MaxCacheAge = 3
  RefetchInterval = 2
  MaxStale = 4
  FetchTimeout = 1
  MaxTime = 8
SYMMETRY KidSymmetry
PROPERTIES WithdrawnKeysExpire PublishedKeysAreFound OutageIsBridged
CHECK_DEADLOCK FALSE
