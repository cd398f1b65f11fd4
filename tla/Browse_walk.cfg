SPECIFICATION BrowseSpec
CONSTANTS
  Films <- MCFilms
  Libraries = {11, 12}
  LibraryOf <- MCLibraryOf
  Title <- MCTitle
  Year <- MCYear
  CreatedAt <- MCCreatedAt
  Scanned <- MCScanned
  Takers = {1, 3}
  Histories <- MCHistories
  Requests <- MCRequests
  Profiles <- MCProfiles
  Probed <- MCProbed
  MaxBrowseLimit = 2
  MaxWrites = 2
  MaxFaults = 1
INVARIANTS BrowseTypeOK WalkComplete AnswerStaleOrTrue
CHECK_DEADLOCK FALSE
