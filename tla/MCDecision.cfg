\* Up to four candidates in every order under eight ledgers; reports of up to
\* five rows; two overlapping monitoring requests.
SPECIFICATION Spec
CONSTANTS
  MinEdge = 2
  KellyFraction = 25
  MaxBetFraction = 30
  MaxPicksPerGame = 2
  MaxStakePerGame = 45
  MaxPicksPerDay = 2
  DailyLossStop = 5
  WeeklyLossStop = 10
  DrawdownBreaker = 15
  MaxCandidates = 4
  Configs <- MCConfigs
  Universe <- MCUniverse
  MaxRows = 5
  RowUniverse <- MCRowUniverse
  r1 = r1
  r2 = r2
  Readers = {r1, r2}
  Requests <- MCRequests
  Advice <- MCAdvice
  FinalScore <- MCFinal
  Defaults <- MCDefaults
  Quotes <- MCQuotes
  MaxLines <- MCLines
  MaxReports = 1
  ReplayGames <- MCGames
  TeamGames <- MCTeamGames
  GoalieGames <- MCGoalies
  HomeQuotes <- MCHomeQuotes
  FinalScores <- MCFinals
  Policy <- MCPolicy
  Guess <- MCGuess
  RollingWindow = 2
  TrainWindow = 2
  ValidationWindow = 1
  FoldStep = 1
  StartingBankroll = 10000
  MinimumStake = 100
  Guardrails <- MCGuardrails
  TotalsLine = 5
  ReplayAsks <- MCReplayAsks
  MaxReplays = 2
INVARIANTS
  DecisionTypeOK
  NeverOverbets
  BestPriceTaken
  OrderFree
  GreedyWithinLimits
  HaltedAtStop
  ReportsAddUp
  LogIsTrue
  AnswersRestOnLog
  
  ReplaysNeedNews
PROPERTIES
  OnlyStaleReadersUnsettle
SYMMETRY MCSymmetry
CHECK_DEADLOCK FALSE
