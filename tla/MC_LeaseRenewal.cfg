SPECIFICATION RenewalSpec
CONSTANTS
  PingInterval = 4
  PingEvery = 2
  LeaseTTL = 9
  MaxTime = 40
INVARIANTS LeaseStays
CHECK_DEADLOCK FALSE
