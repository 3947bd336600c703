SPECIFICATION FairSpec
CONSTANTS
  Chunks = 2
  HighWater = 1
INVARIANTS
  TunnelIsWhole
  OriginNotLeaked
PROPERTIES
  HandlerEnds
CHECK_DEADLOCK FALSE
