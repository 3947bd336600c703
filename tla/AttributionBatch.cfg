SPECIFICATION BatchSpec
CONSTANTS
  Body = 3
  Concurrency = 2
  Rounds = 1
  Minimum = 2
  MaxStreams = 4
  BinsCap = 2
  SharedBins = 3
  ReplayBytes = 6
  ReplayChunks = 3
  MaxSegments = 3
  MaxClock = 2
  MaxFaults = 1
INVARIANTS
  CompleteIsWhole
  FaithfulIsComplete
  SizesAreCounted
CHECK_DEADLOCK FALSE
