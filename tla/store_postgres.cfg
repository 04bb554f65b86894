SPECIFICATION Spec
CONSTANTS
  Writers = {w1, w2, w3, w4}
  Creators = {}
  Backend = "postgres"
SYMMETRY WriterSymmetry
CHECK_DEADLOCK FALSE
INVARIANT NoLostUpdate
