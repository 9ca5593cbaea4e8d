CONSTANTS
  Host = {h1, h2}
  Page = {p1, p2}
  NoHost = NoHost
  NoPage = NoPage
  MaxStores = 0
  MaxMallocs = 3
  MayFree = TRUE
SPECIFICATION Spec
INVARIANTS
  TypeOK
  CopysetNotEmpty
  AckFindsLock
CHECK_DEADLOCK FALSE
