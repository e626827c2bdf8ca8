SPECIFICATION FairSpec
CONSTANTS
  n1 = n1
  n2 = n2
  h1 = h1
  h2 = h2
  NoName = NoName
  NoHost = NoHost
  Idle = Idle
  NumBrowses = 1
  MaxAdverts = 1
  Names <- TwoNames
  Hosts <- TwoHosts
  Interfaces = {1}
  Options <- LookupLines
  MaxAnnounced = 2
  NumFds = 3
INVARIANTS
  AnswersFit
PROPERTIES
  ResolvesEnd
