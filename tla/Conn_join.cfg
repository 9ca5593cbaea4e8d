CONSTANTS
  Host = {h0, h1, h2}
  First = h0
  Nil = Nil
  MaxSends = 2
  Overlap = FALSE
  Eager = FALSE
SPECIFICATION FairSpec
INVARIANTS
  PeersComplete
PROPERTIES
  EndsOnlyInAddPeer
  ImplementsChannels
  Delivered
CHECK_DEADLOCK FALSE
