SPECIFICATION FairSpecAny
CONSTANTS
  Socks = {s1, s2}
  Stdin = stdin
  MaxTyped = 2
INVARIANTS
  SaidWhenSettled
  SocketsSelected
PROPERTIES
  ResolvesServed
  Ends
