SPECIFICATION FairControllerSpec
CONSTANTS
  CommandLines <- AllLines
  WaitTicks = 1
  Socks = {s1, s2}
  IdLen = 2
  atoi <- MCatoi
  hex <- MChex
  quad <- MCquad
  Begins <- MCBegins
  Behind <- MCBehind
  Width32 <- MCWidth32
  Scans <- MCScans
  Numerals <- MCNumerals
  Addresses <- MCAddresses
  Hexes <- MCHexes
  Ids <- Written
  Names <- MCNames
  Argvs <- MCArgvs
  Devices <- MCDevices
INVARIANTS
  TypeOK
  OwnResponse
  ExitSound
  MessageDone
  UsageHeeded
  NothingInvented
PROPERTIES
  SetUpEnds
