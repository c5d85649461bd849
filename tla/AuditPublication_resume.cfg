\* The publication command dies between the two files of its published revision.
SPECIFICATION LiveSpec
CONSTANTS
  c1 = c1
  c2 = c2
  c3 = c3
  c4 = c4
  e1 = e1
  s1 = s1
  evalA = evalA
  evalB = evalB
  object = object
  demo = demo
  other = other
  NoParent = NoParent
  Owner = Owner
  Publisher = Publisher
  Experiments = {e1}
  Scenarios = {s1}
  Calls <- MCOneCall
  BatchRequests <- MCNoRequests
  DemoExperiment = e1
  DemoBatchId = demo
  r1 = r1
  r2 = r2
  Runs = {r1}
  Workloads <- MCOneWorkload
  MaxBlocks = 2
  MaxForks = 0
  MaxBroadcasts = 1
PROPERTY
  RetainedIsRecovered
CHECK_DEADLOCK FALSE
