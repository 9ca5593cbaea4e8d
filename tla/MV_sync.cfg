CONSTANTS
  Node = {h1, h2, h3}
  NoGroup = NoGroup
  Program <- Alternating
  LockId = {0}
  NoLock = NoLock
SPECIFICATION SyncFairSpec
INVARIANTS
  SyncTypeOK
  NobodyAhead
  CounterNotNegative
  LockAccounted
PROPERTIES
  BarrierPassed
  ImplementsService
CHECK_DEADLOCK FALSE
