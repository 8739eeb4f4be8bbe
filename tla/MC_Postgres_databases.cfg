SPECIFICATION PgSpec
CONSTANTS
  None = None
  NoOwner = NoOwner
  s1 = s1
  s2 = s2
  o1 = o1
  d1 = d1
  c1 = c1
  c2 = c2
  l1 = l1
  i1 = i1
  i2 = i2
  t1 = t1
  t2 = t2
  Subject = {s1}
  DBID = {d1}
  Owner = {o1}
  OwnerOf <- NoOwners
  Instance = {i1, i2}
  CommitID = {c1, c2}
  Label = {l1}
  PageSize = {1}
  BlockList <- OneBlock
  MaxPages = 1
  ChangeWindow = 1
  TTL = 1
  Skew = 1
  MaxTime = 1
  MaxLeases = 2
  MaxVersion = 2
  UnusedAfter = 0
  SweepBatch = 1
  Tx = {t1, t2}
  Ops = {"open", "commit", "delete", "changes", "fetch"}
  ScanOrder <- OneName
INVARIANTS ChangesOfCurrentVersion FetchIsASnapshot
PROPERTIES Contract NotStolen
SYMMETRY TxCommitSymmetry
CHECK_DEADLOCK FALSE
