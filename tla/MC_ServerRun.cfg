SPECIFICATION RunSpec
CONSTANTS
  c1 = c1
  c2 = c2
  Conn = {c1, c2}
  Unset = Unset
  Unreadable = Unreadable
  Envs <- MCEnvs
INVARIANTS CleanShutdown StoreOutlivesUse PoolIsClosed SyncIsKept ServesAsConfigured
PROPERTIES RunReturns ConnectionsEnd
CHECK_DEADLOCK FALSE
