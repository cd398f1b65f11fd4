SPECIFICATION Spec
CONSTANTS
  Playbacks = {p1, p2}
  Handlers = {h1, h2}
  Positions <- MCPositions
  Runtimes = {0, 200, 1000}
  MaxTicks = 1
  MaxRetries = 1
  MaxProbes = 1
  MaxAborts = 1
SYMMETRY Symmetry
INVARIANTS
  SuppressionCostsOnlyDates
  ResumeWithinThresholds
  CountAccounted
  StopDecides
CHECK_DEADLOCK FALSE
