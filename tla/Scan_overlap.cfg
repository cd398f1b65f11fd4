SPECIFICATION Spec
CONSTANTS
  A = A
  B = B
  m = m
  s = s
  Top = top
  Libraries = {A, B}
  Dirs = {m, s}
  Files = {1}
  Parent <- MCParent
  Skipped = {}
  Roots <- MCRoots
  Versions <- MCVersions
  Size <- MCSize
  Unlistable = {m}
  MaxScans = 3
  MaxReplaces = 2
  MaxDecisions = 1
  MaxFaults = 1
INVARIANTS
  TypeOK
  ScanTruthful
  BareItemWasRobbed
PROPERTIES
  ImplementsCatalogue
CHECK_DEADLOCK FALSE
