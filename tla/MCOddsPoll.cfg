\* The poller's job and the refresh handler poll at the same time, failing and
\* interrupted anywhere; or two workers work the import jobs of one feed.
SPECIFICATION MCSpec
CONSTANTS
  p1 = p1
  p2 = p2
  g1 = g1
  g2 = g2
  c1 = c1
  c2 = c2
  c3 = c3
  w1 = w1
  w2 = w2
  Pollers = {p1, p2}
  Sports <- OneSport
  Offers <- MCOffers
  MaxPolls = 3
  Workers = {w1, w2}
  FirstDay = 179
  LastDay = 180
  MaxTries <- MCTries
  MaxAsked = 2
  Requests <- MCRequests
  Answers <- MCAnswers
  Fixtures <- MCFixtures
  Calls = {c1, c2, c3}
  MinInterval = 2
  MaxClock = 7
  BoardGames = {g1, g2}
  MatchupOf <- MCMatchups
  Leads = {"level", "home"}
  BoardBets <- MCBets
  LiveEvery = 1
  IdleEvery = 2
  NoGamesEvery = 3
  MaxTime = 5
  CsvFiles <- MCFiles
  Abbreviation <- MCAbbreviation
  Filters = {0, 1}
  MaxImports = 3
SYMMETRY MCSymmetry
INVARIANTS
  IngestionTypeOK
  ArchiveIsExact
  RowsWereSeen
  
  
  CallsSpaced
  GivenUpCosts
  BoardIsFresh
  BetsShownRight
  FilesPrevail
PROPERTIES
  ImportsWhole
