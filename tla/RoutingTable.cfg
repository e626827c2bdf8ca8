SPECIFICATION Spec
CONSTANTS
  i1 = i1
  i2 = i2
  i3 = i3
  NullId = NullId
  StdIn = StdIn
  MaxRequests = 2
  Ids <- ThreeIds
  NumComponents = 2
  MaxChannels = 1
  Socks = {s1}
  AutoUpdate = TRUE
  WritesIdOnError = FALSE
  Commands <- AllLines
SYMMETRY IdSymmetry
INVARIANTS
  TypeOK
  CompletionNamesItsRequest
  HandlesSound
PROPERTIES
  ImplementsOutstanding
