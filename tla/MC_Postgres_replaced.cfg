SPECIFICATION PgSpec
CONSTANTS
  None = None
  NoOwner = NoOwner
  s1 = s1
  s2 = s2
  o1 = o1
  d1 = d1
  c1 = c1
  c2 = c2
  l1 = l1
  i1 = i1
  i2 = i2
  t1 = t1
  t2 = t2
  Subject = {s1, s2}
  DBID = {d1}
  Owner = {o1}
  OwnerOf <- OneOwner
  Instance = {i1}
  CommitID = {}
  Label = {l1}
  PageSize = {1}
  BlockList <- EmptyBlocks
  MaxPages = 0
  ChangeWindow = 1
  TTL = 1
  Skew = 0
  MaxTime = 0
  MaxLeases = 1
  MaxVersion = 1
  UnusedAfter = 0
  SweepBatch = 1
  Tx = {t1, t2}
  Ops = {"open", "claim"}
  ScanOrder <- OneName
INVARIANTS ReplacedKeysHaveNothing
SYMMETRY TxSubjectSymmetry
CHECK_DEADLOCK FALSE
