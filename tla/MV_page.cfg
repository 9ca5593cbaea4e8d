CONSTANTS
  Host = {h1, h2, h3}
  Page = {p1}
  NoHost = NoHost
  NoPage = NoPage
  MaxStores = 1
  MaxMallocs = 1
  MayFree = FALSE
SPECIFICATION FairSpec
INVARIANTS
  SingleWriter
  CopysetCurrent
PROPERTIES
  FaultAnswered
