SPECIFICATION Spec
CONSTANTS
  CommandLines <- LocalMeters
  WaitTicks = 1
  Socks = {s1, s2}
INVARIANTS
  SocketsUpdated
