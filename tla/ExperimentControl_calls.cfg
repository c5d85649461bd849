\* Calls on experiments made at once, each of them a transaction that may be
\* rolled back and made again, with one workload of calls at a time.
SPECIFICATION Spec
CONSTANTS
  e1 = e1
  e2 = e2
  e3 = e3
  agentA = agentA
  agentB = agentB
  vA = vA
  vB = vB
  forward = forward
  s1 = s1
  keyA = keyA
  keyB = keyB
  i1 = i1
  i2 = i2
  i3 = i3
  i4 = i4
  i5 = i5
  i6 = i6
  i7 = i7
  i8 = i8
  Experiments = {e1, e2, e3}
  Scenarios = {s1}
  Agent <- MCAgent
  Version <- MCVersion
  Profile <- MCProfile
  Calls <- MCCalls
  Workloads <- MCWorkloads
  PoolSize = 3
  MaxActiveAgents = 1
  MaxAccepted = 1
INVARIANTS
  TypeOK
  JournalIsSequence
  QuotasHold
  AcceptedBeforeRevoked
  NothingLost
  OnlyKnownStalls
PROPERTY
  RepeatsAreStored
CHECK_DEADLOCK FALSE
