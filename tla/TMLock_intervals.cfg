CONSTANTS
  Node = {0, 1, 2}
  LockId = {0}
  Manager = 0
  NoNode = NoNode
  NoLock = NoLock
  MaxInterval = 1
SPECIFICATION Spec
INVARIANTS
  TypeOK
  IInv
  ReleaseVisible
