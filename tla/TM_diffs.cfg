SPECIFICATION Spec
CONSTANTS
  NrProcs = 3
  PageSize = 2
  Page = {0, 1}
  Byte = {0}
  NoDiff = NoDiff
  NoTwin = NoTwin
  LockId = {0}
  LockedPages = {0, 1}
  LockOf <- MCLockOf
  NoLock = NoLock
  NoNode = NoNode
  FalseSharing = FALSE
  Address = {0}
  ReadSpan <- AcrossPages
  WriteSpan <- FirstPage
  Value = {0, 1}
  Over <- FirstOnly
  MaxWrites = 2
  MaxAcquires = 4
  MaxBarriers = 0
INVARIANTS ReadsLatest TwinNoticed WritableHasTwin IntervalsKnown MissingComplete
PROPERTIES ServiceSteps
CHECK_DEADLOCK FALSE
