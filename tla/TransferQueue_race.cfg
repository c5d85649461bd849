SPECIFICATION Spec
CONSTANTS
  t1 = t1
  t2 = t2
  w1 = w1
  w2 = w2
  m1 = m1
  m2 = m2
  eth = eth
  arc = arc
  NoMessage = NoMessage
  NoTransfer = NoTransfer
  NoEvent = NoEvent
  Transfer = {t1}
  Worker = {w1, w2}
  Message = {m1}
  Family = {eth, arc}
  Source <- MCSource
  Dest <- MCDest
  Amount <- MCAmount
  Net <- MCNet
  Opening <- MCOpening
  Charges <- Withheld
  MaxAttempts = 2
  PortfolioAttempts = 2
  MaxEvents = 6
SYMMETRY WorkerSymmetry
INVARIANTS
  LedgerFollowsLifecycle
  EventsContiguous
  CompletedOnlyWhenFinal
PROPERTIES
  OutcomeFrozen
CHECK_DEADLOCK FALSE
