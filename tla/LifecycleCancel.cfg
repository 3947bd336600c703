SPECIFICATION Spec
CONSTANTS
  Batches = 1
  PostGc = FALSE
  Async = FALSE
  WithProfiler = FALSE
  MayRefuse <- EveryoneRefuses
  Forking <- NobodyForks
  MaxCancels = 1
INVARIANTS
  CancellationPropagates
