SPECIFICATION FairSpec
CONSTANTS
  Requests = {r1, r2}
  Scenarios = {s1}
  MaxPlans = 2
  Cost <- MCCost
  Violating = {}
  NoRun = NoRun
  Ops <- BrowserOps
  MaxFaults = 1
  ContextMay = FALSE
INVARIANT BestPlanSelected
PROPERTY KeepsPromise
PROPERTY BaselineAnswered
PROPERTY PlansRanked
