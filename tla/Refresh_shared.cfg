SPECIFICATION Spec
CONSTANTS
  films = films
  shorts = shorts
  Items = {1, 3}
  Libraries = {films, shorts}
  Home <- TwoLibraries
  HasId = {1, 3}
  Known = {1}
  Types = {1}
  Versions = {1, 2, 3}
  Ext <- Formats
  Batch = 2
  Full = {TRUE, FALSE}
  MaxPasses = 2
  MaxFaults = 1
  MaxLocks = 1
  MaxOffers = 1
INVARIANTS
  RowHasFile
  TagTruthful
  PassHeals
CHECK_DEADLOCK FALSE
