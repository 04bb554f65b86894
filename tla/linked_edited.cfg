SPECIFICATION CustodySpec
CONSTANTS
  Parts = {"evidence"}
  Backends = {"postgres"}
  Collectors = {k1, k2}
  Operators = {o1, o2}
  Processors = {p1}
  Contents = {c1, c2}
  MaxItems = 2
  MaxOps = 2
  Requests = {k1, k2}
  Keys = {key1}
  MaxPackages = 2
  MaxChanges = 1
  Entities = {"port", "supplier"}
  Types = {"closure", "delay"}
  Closing = {"closure"}
  Delaying = {"delay"}
  Kind <- MCKind
  TargetKinds <- MCTargetKinds
  Effect <- MCEffect
  MaxMoves = 2
PROPERTY LinkedEvidenceUnedited
CHECK_DEADLOCK FALSE
