SPECIFICATION Spec
CONSTANTS
  n1 = n1
  n2 = n2
  h1 = h1
  h2 = h2
  NoName = NoName
  NoHost = NoHost
  Idle = Idle
  NumBrowses = 1
  MaxAdverts = 2
  Names <- TwoNames
  Hosts <- OneHost
  Interfaces = {1, 2}
  Options <- WalkLines
  MaxAnnounced = 2
  NumFds = 5
SYMMETRY NameSymmetry
INVARIANTS
  TypeOK
  RefsOwned
  SelectedSound
  DirectoryExact
PROPERTIES
  NeverBlocks
