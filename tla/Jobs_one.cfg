SPECIFICATION FairSpec
CONSTANTS
  Libraries = {l1}
  Jobs = {j1, j2}
  Processes = {p1}
  Overlap = FALSE
  MaxItems = 2
  MaxFaults = 2
  MaxCrashes = 2
INVARIANTS
  OneRunnerPerSlot
  CompletedScanIsComplete
PROPERTIES
  ImplementsBoard
  JobsSettle
CHECK_DEADLOCK FALSE
