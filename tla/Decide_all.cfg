SPECIFICATION DecideSpec
CONSTANTS
  same = same
  other = other
  none = none
  Titles <- MCTitles
  Untitled = none
  Years <- MCYears
  AltLimit = 2
  MaxCandidates = 3
  OwnIds = {"imdb"}
  ImagePaths = {0, 1, 2}
  Languages = {"", "en", "ja"}
  Widths = {500, 780}
  Scores = {3, 7}
  Votes = {1, 3}
  MinImageVotes = 3
  MaxImages = 2
  Regions = {"GB", "US"}
  Region = "GB"
  Certs <- MCCerts
INVARIANTS
  DecideTypeOK
  NeverOneOfSeveral
  DeclinesAreJudged
  RankingIrrelevant
  BestInAnyOrder
CHECK_DEADLOCK FALSE
