CONSTANTS
  Host = {h1, h2}
  Page = {p1, p2}
  NoHost = NoHost
  NoPage = NoPage
  MaxStores = 0
  MaxMallocs = 2
  MayFree = FALSE
SPECIFICATION FairSpec
PROPERTIES
  MallocAnswered
CHECK_DEADLOCK FALSE
