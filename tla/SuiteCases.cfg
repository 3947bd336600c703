SPECIFICATION Spec
CONSTANTS
  Suites = {"streaming", "one-upstream", "proxy", "resource", "builder", "creation"}
  Length = 2
  Requests = 2
  Warmup = 1
  Concurrency = 2
  Size = 4
  LineStarts = {{0}, {0, 2}}
  MaxLate = 2
  MaxRaises = 2
INVARIANTS
  UsageIsFair
  VerifiedAsRead
  EnvironmentIsTheCases
  NoUncountedLeak
  ResultIsAccepted
CHECK_DEADLOCK FALSE
