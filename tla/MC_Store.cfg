SPECIFICATION StoreSpec
CONSTANTS
  None = None
  NoOwner = NoOwner
  s1 = s1
  o1 = o1
  d1 = d1
  c1 = c1
  c2 = c2
  i1 = i1
  i2 = i2
  Subject = {s1}
  DBID = {d1}
  Owner = {o1}
  OwnerOf <- OneOwner
  Instance = {i1, i2}
  CommitID = {c1, c2}
  Label = {None}
  PageSize = {1, 2}
  BlockList <- OneBlockOrNone
  MaxPages = 1
  ChangeWindow = 1
  TTL = 0
  Skew = 0
  MaxTime = 1
  MaxLeases = 2
  MaxVersion = 3
  UnusedAfter = 0
  SweepBatch = 1
INVARIANTS StoreTypeOK StoreInv Fencing ExactlyOnce StateIsLastCommit BlocksFitTheFile CatchUp
PROPERTIES EpochAndVersionGrow ImplementsLeasedFile
SYMMETRY Symmetry
CHECK_DEADLOCK FALSE
