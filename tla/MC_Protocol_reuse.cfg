SPECIFICATION ProtocolSpec
CONSTANTS
  None = None
  NoOwner = NoOwner
  s1 = s1
  s2 = s2
  o1 = o1
  d1 = d1
  c1 = c1
  c2 = c2
  l1 = l1
  i1 = i1
  i2 = i2
  v1 = v1
  v2 = v2
  x1 = x1
  x2 = x2
  x3 = x3
  Subject = {s1}
  DBID = {d1}
  Owner = {o1}
  OwnerOf <- OneOwner
  Instance = {i1}
  CommitID = {c1}
  Label = {l1}
  PageSize = {1}
  BlockList <- EmptyBlocks
  MaxPages = 0
  ChangeWindow = 1
  TTL = 1
  Skew = 0
  MaxTime = 0
  MaxLeases = 2
  MaxVersion = 1
  Wrap = 4
  UnusedAfter = 1
  SweepBatch = 1
  Server = {v1}
  Conn = {x1, x2}
  ServerOf <- OneServer
  SubjectOf <- OneSubject
  InstanceOf <- OneInstance
  FetchRanges <- NoRanges
  MaxFetchRanges = 2
  MaxFrameBytes = 80
  KeyReuse = TRUE
INVARIANTS LeaseOfThisLife
CHECK_DEADLOCK FALSE
