------------------------------- MODULE Replay -------------------------------
(***************************************************************************)
(* cmd/backtest and internal/backtest: a replay of stored odds, or of the  *)
(* seasons of MoneyPuck, through the models.                               *)
(*                                                                         *)
(* A replay in mode "odds" lists its rows in one query, then takes them    *)
(* one at a time: features, prediction, an upsert of the prediction in a   *)
(* transaction of its own, and a bet of a virtual bankroll.  It may be cut *)
(* short anywhere and be run again, while odds and results come in.  In    *)
(* mode "outcome" it writes nothing.                                       *)
(*                                                                         *)
(* Hours and days are counted in UTC; a year has 365 days, of which        *)
(* October begins with the 274th.  Probabilities are in percent.  One      *)
(* market is replayed; a game has the same id in every table.  The models  *)
(* are stood for by differences of averages.                               *)
(***************************************************************************)
EXTENDS Integers, Listings

CONSTANTS ReplayGames,     \* [id -> [sport, home, away, at]]
          TeamGames,       \* moneypuck_team_games by day and game: [game, team, home, day, season, playoff, xg, goals]
          GoalieGames,     \* moneypuck_goalie_games: seq of [game, team, goalie, ice, day, season, gsax]
          HomeQuotes,      \* odds of a home side that may be stored, by id: seq of [game, book, at, chance]
          FinalScores,     \* [id -> <<home, away>>]
          Policy,          \* [sport -> [kelly, cap]]: percent, ten-thousandths
          Guess,           \* [book -> chance]: what the hash of a row's names says
          RollingWindow, TrainWindow, ValidationWindow, FoldStep,
          StartingBankroll, MinimumStake,
          Guardrails,      \* [samples, positive, mae, brier]
          TotalsLine,
          ReplayAsks,      \* [mode, sport, season, market, limit, version]; 0 and "" for any
          MaxReplays       \* bound: replays begun

(* What a row of each table holds. *)
AllTeamGames == [game : Int, team : STRING, home : BOOLEAN, day : Nat, season : Int, playoff : BOOLEAN,
                 xg : Int, goals : Int]
AllGoalieGames == [game : Int, team : STRING, goalie : Int, ice : Int, day : Int, season : Int, gsax : Int]
AllHomeQuotes == [game : DOMAIN ReplayGames, book : DOMAIN Guess, at : Int, chance : 0..100]
AllAsks == [mode : {"odds", "outcome"}, sport : STRING, season : Int, market : STRING, limit : Nat, version : Int]

(* The command line asks for fifty samples; a window of one would take a   *)
(* team that has not played for one with real figures.                     *)
ASSUME ReplayAssumption ==
  /\ ReplayGames \in [DOMAIN ReplayGames -> [sport : DOMAIN Policy, home : STRING, away : STRING, at : Int]]
  /\ DOMAIN ReplayGames \subseteq Int /\ DOMAIN Guess \subseteq Int
  /\ HomeQuotes \in Seq(AllHomeQuotes)
  /\ TeamGames \in Seq(AllTeamGames) /\ GoalieGames \in Seq(AllGoalieGames)
  /\ Policy \in [DOMAIN Policy -> [kelly : Nat, cap : Nat]]
  /\ Guess \in [DOMAIN Guess -> 0..100]
  /\ FinalScores \in [DOMAIN FinalScores -> Int \X Int]
  /\ RollingWindow \in Nat /\ RollingWindow >= 2
  /\ StartingBankroll \in Nat /\ MinimumStake \in Nat /\ TotalsLine \in Int
  /\ Guardrails \in [samples : Nat \ {0}, positive : Nat, mae : Nat, brier : Nat]
  /\ ReplayAsks \subseteq AllAsks

VARIABLES stored,          \* odds_history: the ids of its home rows
          finals,          \* the games game_results has
          predictions,     \* model_predictions: key -> row
          replay,          \* the last replay
          replays

replayVars == <<stored, finals, predictions, replay, replays>>

NoReplay == [at |-> "none", mode |-> "odds", version |-> 0, rows |-> <<>>, balance |-> StartingBankroll,
             before |-> <<>>, outcomes |-> <<>>, folds |-> {}, pass |-> FALSE]

ReplayInit == /\ stored = {} /\ finals = {} /\ predictions = <<>>
              /\ replay = NoReplay
              /\ replays = 0

DateAt(hour) == hour \div 24
NhlSeasonFromDate(day) == IF day % 365 >= 273 THEN day \div 365 ELSE day \div 365 - 1
Clamp(v, low, high) == IF v < low THEN low ELSE IF v > high THEN high ELSE v
Total(f(_), s) == SumFunctionOnSet([i \in DOMAIN s |-> f(s[i])], DOMAIN s)
Distance(x, y) == IF x < y THEN y - x ELSE x - y

-----------------------------------------------------------------------------
(* What a replay lists: of every game and book the first price and the     *)
(* last, by the time of capture; the oldest games where they are too many. *)
SeriesOf(game, book) == {i \in stored : HomeQuotes[i].game = game /\ HomeQuotes[i].book = book}
CapturedBefore(i, j) ==
  HomeQuotes[i].at < HomeQuotes[j].at \/ (HomeQuotes[i].at = HomeQuotes[j].at /\ i < j)
OpeningIn(series) == HomeQuotes[CHOOSE i \in series : \A j \in series \ {i} : CapturedBefore(i, j)]
ClosingIn(series) == HomeQuotes[CHOOSE i \in series : \A j \in series \ {i} : CapturedBefore(j, i)]

RowFor(game, book) ==
  LET opening == OpeningIn(SeriesOf(game, book))
      closing == ClosingIn(SeriesOf(game, book))
  IN  [game |-> game, book |-> book, open |-> opening.chance, openAt |-> opening.at,
       close |-> closing.chance, closeAt |-> closing.at,
       final |-> IF game \in finals THEN FinalScores[game] ELSE <<>>]

InFilter(ask, game) ==
  /\ ask.sport \in {"", ReplayGames[game].sport}
  /\ ask.season \in {0, DateAt(ReplayGames[game].at) \div 365}

RowBefore(r, s) ==
  LET key(x) == <<ReplayGames[x.game].at, x.game, x.book>>
  IN  \E n \in 1..3 : key(r)[n] < key(s)[n] /\ \A k \in 1..n - 1 : key(r)[k] = key(s)[k]

ListBacktestReplayRows(ask) ==
  LET pairs == {<<HomeQuotes[i].game, HomeQuotes[i].book>> : i \in {i \in stored : InFilter(ask, HomeQuotes[i].game)}}
      all == Arranged({RowFor(p[1], p[2]) : p \in pairs}, RowBefore)
  IN  IF Len(all) > ask.limit THEN SubSeq(all, 1, ask.limit) ELSE all

-----------------------------------------------------------------------------
(* Features of an NHL game.                                                *)
LastOf(s) == SubSeq(s, Clamp(Len(s) - RollingWindow, 0, Len(s)) + 1, Len(s))

PlayedBy(team, season) ==
  {i \in DOMAIN TeamGames : TeamGames[i].team = team /\ TeamGames[i].season = season /\ ~TeamGames[i].playoff}

\* Faulty variant: the game of the day itself is in the past.
RollingToDate(team, date, season) ==
  LastOf(Where(TeamGames, {i \in PlayedBy(team, season) : TeamGames[i].day <= date}))

RollingStats(team, date, season) ==
  LastOf(Where(TeamGames, {i \in PlayedBy(team, season) : TeamGames[i].day < date}))

\* Faulty variant: any game of the team.
FindAnyGame(team, date) ==
  LET found == {i \in DOMAIN TeamGames : TeamGames[i].team = team /\ TeamGames[i].day = date}
  IN  IF found = {} THEN 0 ELSE TeamGames[CHOOSE i \in found : TRUE].game

FindMoneypuckGameID(team, date) ==
  LET found == {i \in DOMAIN TeamGames : /\ TeamGames[i].team = team /\ TeamGames[i].day = date
                                         /\ TeamGames[i].home}
  IN  IF found = {} THEN 0 ELSE TeamGames[CHOOSE i \in found : TRUE].game

(* The goalie with most ice time in the game itself, by what they had      *)
(* saved in the season before it.                                          *)
GoalieGSAx(game, team, season, date) ==
  LET played == {i \in DOMAIN GoalieGames : GoalieGames[i].game = game /\ GoalieGames[i].team = team}
      most == CHOOSE i \in played : \A j \in played : GoalieGames[j].ice <= GoalieGames[i].ice
      starter == GoalieGames[most].goalie
      earlier == Where(GoalieGames, {i \in DOMAIN GoalieGames : LET g == GoalieGames[i] IN
                                       g.goalie = starter /\ g.season = season /\ g.day < date})
  IN  IF played = {} THEN 0 ELSE Clamp(Total(LAMBDA g : g.gsax, earlier), -40, 40)

DefaultFeatures == [real |-> FALSE, xg |-> 0, goals |-> 0, goalies |-> 0, used |-> {}]

(* computeRollingAverages and mergeAllSituationGoals, of the figures used. *)
RollingAverages(games) == [xg |-> Total(LAMBDA t : t.xg, games) \div Len(games),
                           goals |-> Total(LAMBDA t : t.goals, games) \div Len(games)]

(* "used" is not part of the vector: the games it is made from.            *)
BuildNHLFeatures(home, away, date, season) ==
  LET h == RollingStats(home, date, season)
      a == RollingStats(away, date, season)
      game == FindMoneypuckGameID(home, date)
  IN  IF Len(h) < RollingWindow \div 2 \/ Len(a) < RollingWindow \div 2 THEN DefaultFeatures
      ELSE [real |-> TRUE,
            xg |-> RollingAverages(h).xg - RollingAverages(a).xg,
            goals |-> RollingAverages(h).goals + RollingAverages(a).goals,
            goalies |-> GoalieGSAx(game, home, season, date) - GoalieGSAx(game, away, season, date),
            used |-> {t.game : t \in ToSet(h) \cup ToSet(a)}]

HomeWinChance(f) == Clamp(52 + f.xg + f.goalies, 1, 99)
OverChance(f) == Clamp(50 + 10 * (f.goals - TotalsLine), 1, 99)

IsNHL(row) == ReplayGames[row.game].sport = "NHL"
FeaturesOfGame ==
  [game \in DOMAIN ReplayGames |->
     LET g == ReplayGames[game]
     IN  IF g.sport = "NHL"
           THEN BuildNHLFeatures(g.home, g.away, DateAt(g.at), NhlSeasonFromDate(DateAt(g.at)))
           ELSE DefaultFeatures]
FeaturesOf(row) == FeaturesOfGame[row.game]
PredictedHome(row) == IF IsNHL(row) THEN HomeWinChance(FeaturesOf(row)) ELSE Guess[row.book]

-----------------------------------------------------------------------------
(* What the replay makes of a row.                                         *)
LookupGameOutcome(game) ==
  LET sides == {i \in DOMAIN TeamGames : TeamGames[i].game = game}
      goalsOf(home) == TeamGames[CHOOSE i \in sides : TeamGames[i].home = home].goals
  IN  IF Cardinality(sides) < 2 THEN <<>> ELSE <<goalsOf(TRUE), goalsOf(FALSE)>>

ActualOf(row) ==
  IF row.final # <<>> THEN row.final
  ELSE IF ~IsNHL(row) THEN <<>>
  ELSE LookupGameOutcome(FindMoneypuckGameID(ReplayGames[row.game].home, DateAt(ReplayGames[row.game].at)))

(* Without a result the closing line is taken for one.                     *)
HomeWon(actual, close) == IF actual = <<>> THEN close >= 50 ELSE actual[1] > actual[2]

RecommendStake(sport, edge, balance) ==
  LET fraction == Clamp(edge * Policy[sport].kelly, 0, Policy[sport].cap)
      stake == (balance * fraction) \div 10000
  IN  IF stake < MinimumStake THEN 0 ELSE stake

ApplyCLV(balance, stake, clv) == Clamp(balance + (stake * clv) \div 100, 0, balance + stake)

\* Faulty variant: the bet is always on the home side.
AlwaysHome(predicted, market) == 1

(* The side that is bet on: 1 for home, -1 for away.                       *)
BetSide(predicted, market) == IF predicted < market THEN -1 ELSE 1

OutcomeOf(row) ==
  LET predicted == PredictedHome(row)
      side == BetSide(predicted, row.open)
      f == FeaturesOf(row)
  IN  [game |-> row.game, book |-> row.book, market |-> "h2h", closeAt |-> row.closeAt, close |-> row.close,
       predicted |-> predicted, edge |-> side * (predicted - row.open), clv |-> side * (row.close - row.open),
       real |-> f.real, used |-> f.used, actual |-> ActualOf(row), won |-> HomeWon(ActualOf(row), row.close)]

KeyOfRow(row) == [game |-> row.game, book |-> row.book, version |-> replay.version, at |-> row.openAt]
PredictionOf(row) ==
  [features |-> [FeaturesOf(row) EXCEPT !.used = {}], predicted |-> PredictedHome(row),
   market |-> row.open, closing |-> row.close]

Upserted(table, key, row) == [k \in DOMAIN table \cup {key} |-> IF k = key THEN row ELSE table[k]]
IsNews(table, key, row) == key \in DOMAIN table => table[key] # row

\* Faulty variant: an upsert that changes nothing answers all the same.
AlwaysAnswers(key, row) == TRUE

(* An upsert that changes nothing returns no row, which is an error here.  *)
Answers(key, row) == IsNews(predictions, key, row)

-----------------------------------------------------------------------------
(* Walk-forward folds and reports. *)
ClosesBefore(o, p) ==
  LET key(x) == <<x.closeAt, x.game, x.book>>
  IN  \E n \in 1..3 : key(o)[n] < key(p)[n] /\ \A k \in 1..n - 1 : key(o)[k] = key(p)[k]

\* Faulty variant: as they were listed.
AsListed(outcomes) == outcomes

ByClosing(outcomes) == Arranged(ToSet(outcomes), ClosesBefore)

FoldsOf(outcomes) ==
  LET window == TrainWindow + ValidationWindow
      starts == {s \in 0..Len(outcomes) : s % FoldStep = 0 /\ s + window <= Len(outcomes)}
  IN  {[train |-> SubSeq(outcomes, s + 1, s + TrainWindow),
        validation |-> SubSeq(outcomes, s + TrainWindow + 1, s + window)] : s \in starts}

\* Faulty variant: a line that has not moved counts for one that has.
NotNegative(outcomes) == {i \in DOMAIN outcomes : outcomes[i].clv >= 0}

Positive(outcomes) == {i \in DOMAIN outcomes : outcomes[i].clv > 0}

(* The closing line value has no samples where there are no odds.          *)
EvaluateGuardrails(mode, outcomes) ==
  LET n == Len(outcomes)
      target(o) == IF mode = "odds" THEN o.close ELSE IF o.won THEN 100 ELSE 0
      samples == IF mode = "odds" THEN n ELSE 0
  IN  /\ samples >= Guardrails.samples
      /\ 100 * Cardinality(Positive(outcomes)) >= Guardrails.positive * samples
      /\ Total(LAMBDA o : Distance(o.predicted, target(o)), outcomes) <= Guardrails.mae * n
      /\ Total(LAMBDA o : Distance(o.predicted, target(o)) ^ 2, outcomes) <= 100 * Guardrails.brier * n

Done(work, outcomes) ==
  [work EXCEPT !.at = "done", !.outcomes = outcomes, !.folds = FoldsOf(outcomes),
               !.pass = EvaluateGuardrails(work.mode, outcomes)]

-----------------------------------------------------------------------------
(* Mode "outcome": every regular home game of the seasons asked for.       *)
OutcomeGames(season) ==
  Where(TeamGames, {i \in DOMAIN TeamGames : LET t == TeamGames[i] IN
                     t.home /\ ~t.playoff /\ season \in {0, t.season}})

OutcomesOfGame(t, market) ==
  LET away == TeamGames[CHOOSE i \in DOMAIN TeamGames : TeamGames[i].game = t.game /\ ~TeamGames[i].home]
      f == BuildNHLFeatures(t.team, away.team, t.day, t.season)
      Graded(name, chance, won) ==
        [game |-> t.game, book |-> 0, market |-> name, closeAt |-> 24 * t.day, close |-> 0,
         predicted |-> chance, edge |-> 0, clv |-> 0, real |-> f.real, used |-> f.used,
         actual |-> <<t.goals, away.goals>>, won |-> won]
      h2h == Graded("outcome", HomeWinChance(f), t.goals > away.goals)
      totals == Graded("totals", OverChance(f), t.goals + away.goals > TotalsLine)
  IN  (IF market \in {"outcome", "all"} THEN <<h2h>> ELSE <<>>)
        \o (IF market \in {"totals", "all"} THEN <<totals>> ELSE <<>>)

OutcomesOfSeason(season, market) ==
  FoldLeft(LAMBDA outcomes, t : outcomes \o OutcomesOfGame(t, market), <<>>, OutcomeGames(season))

-----------------------------------------------------------------------------
(* MoneyPuck has the games as they were played: a team plays once a day, a *)
(* game has one home side and one away, and game_results does not dispute  *)
(* its score.  What is replayed of the NHL is among them, and begins on    *)
(* the day MoneyPuck has for it or, by UTC, on the day after.              *)
ASSUME ScheduleAssumption ==
  /\ TrainWindow \in Nat /\ ValidationWindow \in Nat /\ FoldStep \in Nat \ {0}
  /\ \A i, j \in DOMAIN TeamGames :
       LET t == TeamGames[i]
           u == TeamGames[j]
       IN  /\ i < j => t.day <= u.day
           /\ t.team = u.team /\ t.day = u.day => i = j
           /\ t.game = u.game => t.day = u.day /\ t.playoff = u.playoff /\ (t.home = u.home => i = j)
  /\ \A i \in DOMAIN TeamGames :
       TeamGames[i].game # 0 /\ \E j \in DOMAIN TeamGames : i # j /\ TeamGames[i].game = TeamGames[j].game
  /\ \A game \in DOMAIN ReplayGames : ReplayGames[game].sport = "NHL" =>
       LET night == DateAt(ReplayGames[game].at)
       IN  \E t \in ToSet(TeamGames) : /\ t.game = game /\ t.home /\ t.team = ReplayGames[game].home
                                       /\ t.season = NhlSeasonFromDate(night) /\ night \in {t.day, t.day + 1}
  /\ \A game \in DOMAIN FinalScores : LookupGameOutcome(game) \in {<<>>, FinalScores[game]}

-----------------------------------------------------------------------------
IsReplaying == replay.at = "rows"

StoreQuote(i) ==
  /\ stored' = stored \cup {i}
  /\ stored' # stored
  /\ UNCHANGED <<finals, predictions, replay, replays>>

StoreResult(game) ==
  /\ finals' = finals \cup {game}
  /\ finals' # finals
  /\ UNCHANGED <<stored, predictions, replay, replays>>

BeginReplay(ask) ==
  LET work == [NoReplay EXCEPT !.mode = ask.mode, !.version = ask.version, !.before = predictions]
      rows == ListBacktestReplayRows(ask)
  IN  /\ ~IsReplaying /\ replays < MaxReplays
      /\ replays' = replays + 1
      /\ replay' = IF (IF ask.mode = "outcome" THEN OutcomeGames(ask.season) ELSE rows) = <<>>
                     THEN [work EXCEPT !.at = "empty"]
                   ELSE IF ask.mode = "outcome" THEN Done(work, OutcomesOfSeason(ask.season, ask.market))
                   ELSE [work EXCEPT !.at = "rows", !.rows = rows]
      /\ UNCHANGED <<stored, finals, predictions>>

NextRow == replay.rows[Len(replay.outcomes) + 1]
HasNextRow == IsReplaying /\ Len(replay.outcomes) < Len(replay.rows)

PersistPrediction ==
  /\ HasNextRow /\ Answers(KeyOfRow(NextRow), PredictionOf(NextRow))
  /\ predictions' = Upserted(predictions, KeyOfRow(NextRow), PredictionOf(NextRow))
  /\ LET outcome == OutcomeOf(NextRow)
         stake == RecommendStake(ReplayGames[NextRow.game].sport, outcome.edge, replay.balance)
     IN  replay' = [replay EXCEPT !.outcomes = Append(@, outcome),
                                  !.balance = ApplyCLV(@, stake, outcome.clv)]
  /\ UNCHANGED <<stored, finals, replays>>

NothingReturned ==
  /\ HasNextRow /\ ~Answers(KeyOfRow(NextRow), PredictionOf(NextRow))
  /\ replay' = [replay EXCEPT !.at = "stopped"]
  /\ UNCHANGED <<stored, finals, predictions, replays>>

FinishReplay ==
  /\ IsReplaying /\ ~HasNextRow
  /\ replay' = Done(replay, ByClosing(replay.outcomes))
  /\ UNCHANGED <<stored, finals, predictions, replays>>

CutShort ==
  /\ IsReplaying
  /\ replay' = [replay EXCEPT !.at = "cut"]
  /\ UNCHANGED <<stored, finals, predictions, replays>>

ReplayNext ==
  \/ \E i \in DOMAIN HomeQuotes : StoreQuote(i)
  \/ \E game \in DOMAIN FinalScores : StoreResult(game)
  \/ \E ask \in ReplayAsks : BeginReplay(ask)
  \/ PersistPrediction \/ NothingReturned \/ FinishReplay \/ CutShort

-----------------------------------------------------------------------------
Seen == ToSet(replay.outcomes)
EntryOf(game) == TeamGames[CHOOSE i \in DOMAIN TeamGames : TeamGames[i].game = game]
NightOf(game) == EntryOf(game).day
StartsOvernight(o) ==
  replay.mode = "odds" /\ IsNHL(o) /\ DateAt(ReplayGames[o.game].at) > NightOf(o.game)

(* The bet is on the side the model favours, so its edge is never          *)
(* negative; the virtual bankroll is never spent; and what has been        *)
(* persisted is what was replayed.                                         *)
ReplayTypeOK ==
  /\ replay.balance >= 0
  /\ \A o \in Seen : o.edge \in 0..100 /\ (o.real => o.used # {})
  /\ replay.mode = "odds" =>
       \A o \in Seen : \E key \in DOMAIN predictions :
         key.game = o.game /\ key.book = o.book /\ predictions[key].predicted = o.predicted

(* A fold validates on what closed after everything it was trained on; a   *)
(* game is on both sides of it only in two markets or at two books.        *)
FoldsTrainOnThePast ==
  \A fold \in replay.folds : \A t \in ToSet(fold.train), v \in ToSet(fold.validation) :
    t.closeAt <= v.closeAt /\ <<t.game, t.market, t.book>> # <<v.game, v.market, v.book>>

(* No feature of a game is made from a later one; and of the game itself   *)
(* only where, a game of the regular season, it starts on the day after    *)
(* its own by UTC, as an evening game in North America does.               *)
LeakOnlyOvernight ==
  \A o \in Seen : o.real =>
    /\ \A g \in o.used : NightOf(g) <= NightOf(o.game)
    /\ o.game \in o.used <=> StartsOvernight(o) /\ ~EntryOf(o.game).playoff

(* A game is graded by its own score, unless it starts overnight by UTC    *)
(* and has no result in game_results: then by that of a home game which    *)
(* its home team plays on the day after, or not at all.                    *)
GradedByItself ==
  \A o \in Seen : o.actual # <<>> =>
    \/ o.actual = IF o.game \in finals THEN FinalScores[o.game] ELSE LookupGameOutcome(o.game)
    \/ /\ StartsOvernight(o)
       /\ \E t \in ToSet(TeamGames) : /\ t.home /\ t.team = ReplayGames[o.game].home
                                      /\ t.day = NightOf(o.game) + 1
                                      /\ o.actual = LookupGameOutcome(t.game)

(* A replay comes to its end only if every row had news for                *)
(* model_predictions: repeated on the same odds it stops at the first row, *)
(* and after one that was cut short it stops at the first row that one     *)
(* had written and nothing has changed since.                              *)
RunsNeedNews ==
  LET news(i) == IsNews(replay.before, KeyOfRow(replay.rows[i]), PredictionOf(replay.rows[i]))
  IN  /\ replay.at = "done" => \A i \in DOMAIN replay.rows : news(i)
      /\ replay.at = "stopped" => ~news(Len(replay.outcomes) + 1)
      /\ replay.at = "stopped" => \A i \in DOMAIN replay.outcomes : news(i)

(* A replay passes the guardrails only on odds of which enough moved: it   *)
(* is the share of lines that moved the model's way that is asked for, so  *)
(* prices that were captured once, as every imported file has them, fail   *)
(* however well the games were told.                                       *)
NoVerdictWithoutMovement ==
  LET moved == {o \in Seen : \E i, j \in SeriesOf(o.game, o.book) : HomeQuotes[i].chance # HomeQuotes[j].chance}
  IN  replay.pass => /\ replay.mode = "odds"
                     /\ 100 * Cardinality(moved) >= Guardrails.positive * Len(replay.outcomes)

(* What a replay knows in advance is bounded: folds are trained on the     *)
(* past, a game sees at most its own night, and is graded by its own score *)
(* or, overnight, by that of the day after.                                *)
HindsightIsBounded == FoldsTrainOnThePast /\ LeakOnlyOvernight /\ GradedByItself

(* A replay comes to an end on news alone, and to a verdict only on odds   *)
(* that moved.                                                             *)
ReplaysNeedNews == RunsNeedNews /\ NoVerdictWithoutMovement

=============================================================================
