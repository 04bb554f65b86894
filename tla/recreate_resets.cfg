SPECIFICATION Spec
CONSTANTS
  Requests = {r1}
  Scenarios = {s1}
  MaxPlans = 1
  Cost <- MCCost
  Violating = {}
  NoRun = NoRun
  Ops <- EveryOp
  MaxFaults = 0
  ContextMay = FALSE
PROPERTY ScenarioFrozen
