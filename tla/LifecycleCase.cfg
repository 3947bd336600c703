SPECIFICATION FairSpec
CONSTANTS
  Batches = 1
  PostGc = TRUE
  Async = TRUE
  WithProfiler = TRUE
  MayRefuse <- ProfilerRefuses
  Forking <- ClientForks
  MaxCancels = 1
INVARIANTS
  MarkersInOrder
  OkReceiptIsWhole
  OkReceiptIsProfiled
  NoSurvivors
  CancellationSurvivesCleanup
PROPERTIES
  ImplementsPhaseBarrier
  CaseEnds
