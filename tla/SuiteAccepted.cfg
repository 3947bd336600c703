SPECIFICATION Spec
CONSTANTS
  Suites = {"proxy"}
  Length = 2
  Requests = 2
  Warmup = 1
  Concurrency = 2
  Size = 4
  LineStarts = {{0}, {0, 2}}
  MaxLate = 2
  MaxRaises = 2
INVARIANT EveryResultIsAccepted
CHECK_DEADLOCK FALSE
