SPECIFICATION LoginSpec
CONSTANTS
  c1 = c1
  c2 = c2
  Conn = {c1, c2}
  HelloTimeout = 1
  KeyFetchTimeout = 2
  KeyCacheAge = 2
  WriteTimeout = 1
  ChallengeTTL = 2
  PingInterval = 1
  Leeway = 1
  Lifetimes <- MCLifetimes
  NoToken = NoToken
  Lookup = Lookup
  NoOne = NoOne
  MaxFetches = 3
SYMMETRY ConnSymmetry
INVARIANT LoginsEnd
PROPERTIES LifetimeIsTold NoLateRequest
