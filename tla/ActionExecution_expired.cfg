SPECIFICATION Spec
CONSTANTS
  a1 = a1
  a2 = a2
  s1 = s1
  w1 = w1
  w2 = w2
  NoAction = NoAction
  Action = {a1}
  Scenario = {s1}
  ScenarioOf <- MCScenarioOf
  Worker = {w1, w2}
  NumOps = 2
  MaxAttempts = 2
  MaxVersion = 1
INVARIANTS
  ExpiredHasNoEffect
CHECK_DEADLOCK FALSE
