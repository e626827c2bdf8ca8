SPECIFICATION FairSpec
CONSTANTS
  Files <- SmallFiles
  MaxTyped = 2
  Socks = {s1, s2}
  Stdin = stdin
  Ids = {r1, r2}
  NoId = NoId
INVARIANTS
  TypeOK
  AwaitsWhatIsInFlight
  SocketsTracked
PROPERTIES
  WaitsEnd
  InputEnds
