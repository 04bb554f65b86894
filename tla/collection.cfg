SPECIFICATION Spec
CONSTANTS
  Sources = {s1}
  Schedulers = {a1, a2}
  Users = {u1}
  None = None
  Backends = {"dynamodb", "postgres"}
  MaxFaults = 1
SYMMETRY ProcessSymmetry
INVARIANT TypeOK
INVARIANT DynamoLeaseExcludes
INVARIANT PostgresEvidenceHasSource
PROPERTY RunsKeepSettings
CHECK_DEADLOCK FALSE
