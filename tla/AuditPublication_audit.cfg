\* Evaluations, a correction and an object audited concurrently, committed in
\* batches and anchored by a command that dies and runs again across a reorg.
SPECIFICATION Spec
CONSTANTS
  c1 = c1
  c2 = c2
  c3 = c3
  c4 = c4
  e1 = e1
  s1 = s1
  evalA = evalA
  evalB = evalB
  object = object
  demo = demo
  other = other
  NoParent = NoParent
  Owner = Owner
  Publisher = Publisher
  Experiments = {e1}
  Scenarios = {s1}
  Calls <- MCCalls
  BatchRequests <- MCBatchRequests
  DemoExperiment = e1
  DemoBatchId = demo
  r1 = r1
  r2 = r2
  Runs = {r1, r2}
  Workloads <- MCWorkloads
  MaxBlocks = 2
  MaxForks = 1
  MaxBroadcasts = 2
SYMMETRY MCSymmetry
INVARIANTS
  TypeOK
  ChainVerifies
  CorrectionsAreOrdered
  BatchesRebuild
  ProofsBindLeaves
  AnchoredOnce
  RecordedIsCanonical
  ExportsAreComplete
CHECK_DEADLOCK FALSE
