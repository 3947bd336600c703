SPECIFICATION Spec
CONSTANTS
  Suites = {"requests", "resource", "proxy", "streaming", "lifecycle", "attribution"}
  Clients <- ClientNames
  Selected <- SelectedClients
  Focus = "foghttp"
  Repeats <- RepeatsOfSuites
  Requests = 2
  Fast = 4
  Slow = 1
  Absent = Absent
  Refused = Refused
  MaxDepartures = 2
INVARIANTS
  ConclusionsAreWhole
  ConclusionsAreEarned
  FaithfulIsCompared
  ComparedAlike
CHECK_DEADLOCK FALSE
