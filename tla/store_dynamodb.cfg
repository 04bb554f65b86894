SPECIFICATION Spec
CONSTANTS
  Writers = {w1, w2, w3, w4}
  Creators = {w4}
  Backend = "dynamodb"
SYMMETRY WriterSymmetry
CHECK_DEADLOCK FALSE
INVARIANT NoLostUpdate
INVARIANT VersionNamesSnapshot
PROPERTY SavesAreAtomic
