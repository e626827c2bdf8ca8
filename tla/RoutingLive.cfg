SPECIFICATION FairSpec
CONSTANTS
  i1 = i1
  i2 = i2
  i3 = i3
  NullId = NullId
  StdIn = StdIn
  MaxRequests = 2
  Ids <- TwoIds
  NumComponents = 0
  MaxChannels = 1
  Socks = {s1, s2}
  AutoUpdate = FALSE
  WritesIdOnError = TRUE
  Commands <- LoopLines
INVARIANTS
  SocketsTracked
  ChannelsCurrent
  EveryRequestIsHeld
PROPERTIES
  OnlyConfigLeaks
  RequestsComplete
