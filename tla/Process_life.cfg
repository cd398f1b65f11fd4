SPECIFICATION Spec
CONSTANTS
  p1 = p1
  p2 = p2
  Procs = {p1, p2}
  Visited = {p1}
  Fleets <- MCFleets
  Budget = 6
  InitialDelay = 1
  MaxDelay = 2
  PingTimeout = 1
  MaxBoots = 2
  MaxFaults = 1
INVARIANTS LedgerIsSchema ReadyMeansMigrated PatienceIsBudget EndsAreClean
PROPERTIES NothingWaitsForEver
CHECK_DEADLOCK FALSE
