SPECIFICATION Spec
CONSTANTS
  Items = {1, 2}
  Providers = {tmdb, imdb}
  Own = tmdb
  Users = {u1, u2}
  Pass = pass
  Batch = 1
  MaxRequests = 2
  MaxPasses = 2
  MaxAborts = 1
SYMMETRY Symmetry
INVARIANTS
  Coherent
  DecidedOnce
PROPERTIES
  ManualOutranksPass
CHECK_DEADLOCK FALSE
