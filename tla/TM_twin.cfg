SPECIFICATION Spec
CONSTANTS
  NrProcs = 2
  PageSize = 4
  Page = {0, 1}
  Byte = {1}
  NoDiff = NoDiff
  NoTwin = NoTwin
  LockId = {0}
  LockedPages = {0}
  LockOf <- MCLockOf
  NoLock = NoLock
  NoNode = NoNode
  FalseSharing = FALSE
  Address = {1, 5}
  ReadSpan <- NoSpan
  WriteSpan <- NoSpan
  Value = {0, 1}
  Over <- SameValues
  MaxWrites = 1
  MaxAcquires = 2
  MaxBarriers = 2
INVARIANTS ReadsLatest
CHECK_DEADLOCK FALSE
