SPECIFICATION Spec
CONSTANTS
  films = films
  shorts = shorts
  Items = {1}
  Libraries = {films}
  Home <- TwoLibraries
  HasId = {1}
  Known = {1}
  Types = {1}
  Versions = {1, 2}
  Ext <- Formats
  Batch = 1
  Full = {TRUE, FALSE}
  MaxPasses = 2
  MaxFaults = 0
  MaxLocks = 1
  MaxOffers = 1
PROPERTIES
  LockedImageKept
CHECK_DEADLOCK FALSE
