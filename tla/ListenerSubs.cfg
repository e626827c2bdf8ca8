SPECIFICATION Spec
CONSTANTS
  Names <- ThreeNames
  Devices <- CommandLine
  Statuses <- SomeStatuses
  Ids = {r1, r2, r3, r4}
  NoId = NoId
INVARIANTS
  TypeOK
  NeverIdle
  ResponsesMatched
  StatusNoticed
SYMMETRY SomeIds
