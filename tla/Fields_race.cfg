SPECIFICATION Spec
CONSTANTS
  overview = overview
  genres = genres
  u1 = u1
  u2 = u2
  refresh = refresh
  drama = drama
  crime = crime
  epic = epic
  Scalars = {overview}
  Genres = genres
  Visit <- MCVisit
  Users = {u1, u2}
  Refresh = refresh
  Entries <- MCEntries
  Value <- MCValue
  MaxPasses = 1
  MaxRequests = 2
  MaxAborts = 1
SYMMETRY Symmetry
INVARIANTS
  EditSurvives
  LockHolds
  SourceTellsTruth
CHECK_DEADLOCK FALSE
