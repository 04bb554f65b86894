SPECIFICATION Spec
CONSTANTS
  Requests = {r1, r2}
  Scenarios = {s1, s2}
  MaxPlans = 1
  Cost <- MCCost
  Violating = {}
  NoRun = NoRun
  Ops <- EveryOp
  MaxFaults = 0
  ContextMay = FALSE
SYMMETRY RequestSymmetry
INVARIANT ResultsAreAuthoritative
PROPERTY ApprovalFollowsRecommendation
PROPERTY OnlyCreationReplaces
