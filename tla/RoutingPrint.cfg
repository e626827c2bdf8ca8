SPECIFICATION Spec
CONSTANTS
  i1 = i1
  i2 = i2
  i3 = i3
  NullId = NullId
  StdIn = StdIn
  MaxRequests = 2
  Ids <- TwoIds
  NumComponents = 1
  MaxChannels = 0
  Socks = {s1}
  AutoUpdate = FALSE
  WritesIdOnError = FALSE
  Commands <- AllLines
PROPERTIES
  PrintingSendsNothing
