CONSTANTS
  Node = {0, 1, 2}
  LockId = {0, 1}
  Manager = 0
  NoNode = NoNode
  NoLock = NoLock
  MaxInterval = 0
SPECIFICATION FairSpec
INVARIANTS
  MutualExclusion
  OneToken
  OneClaim
  NoDoubleLock
PROPERTIES
  ServiceSteps
  ImplementsService
