SPECIFICATION PartsSpec
CONSTANTS
  h1 = h1
  h2 = h2
  badID = badID
  p1 = p1
  p2 = p2
  Header = {h1, h2, badID}
  ValidID <- MCValidID
  Payload = {p1, p2}
  Size <- MCSize
  MaxCommitBytes = 4
  MaxPart = 2
  MaxFrames = 4
SYMMETRY HeaderSymmetry
INVARIANTS WholeCommits SizeBounded
