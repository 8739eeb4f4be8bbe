SPECIFICATION ProtocolSpec
CONSTANTS
  None = None
  NoOwner = NoOwner
  s1 = s1
  s2 = s2
  o1 = o1
  d1 = d1
  c1 = c1
  c2 = c2
  l1 = l1
  i1 = i1
  i2 = i2
  v1 = v1
  v2 = v2
  x1 = x1
  x2 = x2
  x3 = x3
  Subject = {s1}
  DBID = {d1}
  Owner = {o1}
  OwnerOf <- NoOwners
  Instance = {i1, i2}
  CommitID = {c1, c2}
  Label = {l1}
  PageSize = {1, 2}
  BlockList <- BothBlocks
  MaxPages = 2
  ChangeWindow = 1
  TTL = 0
  Skew = 1
  MaxTime = 1
  MaxLeases = 2
  MaxVersion = 2
  Wrap = 4
  UnusedAfter = 0
  SweepBatch = 1
  Server = {v1, v2}
  Conn = {x1, x2}
  ServerOf <- TwoServers
  SubjectOf <- OneSubject
  InstanceOf <- TwoInstances
  FetchRanges <- SomeRanges
  MaxFetchRanges = 2
  MaxFrameBytes = 83
  KeyReuse = FALSE
INVARIANTS ProtocolTypeOK FetchIsOneVersion AnswerIsWhole FramesFit
PROPERTIES ImplementsStore
CHECK_DEADLOCK FALSE
