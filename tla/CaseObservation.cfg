SPECIFICATION Spec
CONSTANTS
  Profiler = "perf"
  Phases = 3
  MaxSamples = 7
  AttachDelay = 1
  MaxTime = 4
INVARIANTS
  OkSeriesIsMeasured
  ExitIsNotFailure
  ProfileClaimsHold
CHECK_DEADLOCK FALSE
