SPECIFICATION Spec
CONSTANTS
  Requests = {r1}
  Scenarios = {s1}
  MaxPlans = 2
  Cost <- MCCost
  Violating = {2}
  NoRun = NoRun
  Ops <- CycleOps
  MaxFaults = 1
  ContextMay = TRUE
INVARIANT TypeOK
INVARIANT PlansFollowBaseline
INVARIANT RecommendationIsEarned
