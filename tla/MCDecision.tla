----------------------------- MODULE MCDecision -----------------------------
(***************************************************************************)
(* internal/decision on small inputs.  Four subjects, each the whole of a  *)
(* behaviour: "picks" builds recommendations, one candidate at a time;     *)
(* "windows" evaluates calibration, one row of a report at a time; "pages" *)
(* runs the monitoring pages of Outcomes; and "replays" the backtest.      *)
(* What the pure functions return is compared with reference definitions.  *)
(***************************************************************************)
EXTENDS Decisions

CONSTANTS r1, r2

VARIABLE subject

vars == <<subject, pickVars, calibrationRows, outVars, replayVars>>

C(game, market, model, price, quotes) ==
  [game |-> game, day |-> 1, market |-> market, model |-> model, price |-> price, quotes |-> quotes]
Q(book, home, away) == [book |-> book, home |-> home, away |-> away]

\* Two games with both markets; edges on either side, at the threshold and
\* below it; a price on both sides of even money; a longshot; equal edges; an
\* away pick that is less likely than not.
MCUniverse ==
  {C(1, "h2h", 60, 50, <<Q(1, -105, -115), Q(2, 102, -122)>>),
   C(1, "h2h", 52, 50, <<Q(1, 110, -130)>>),
   C(1, "totals", 44, 50, <<Q(1, -110, -110), Q(2, -120, 100), Q(3, -125, 100)>>),
   C(1, "totals", 51, 50, <<Q(1, 100, -120)>>),
   C(2, "h2h", 55, 60, <<Q(1, -150, 130)>>),
   C(2, "h2h", 35, 30, <<Q(1, 220, -260), Q(2, 230, -280)>>),
   C(2, "totals", 60, 50, <<Q(1, -150, 130)>>),
   C(2, "totals", 60, 50, <<Q(2, 102, -122)>>)}

Balances(current, day, week, peak) ==
  [current |-> current, dayStart |-> day, weekStart |-> week, peak |-> peak]
Config(sizing, available, metrics) == [sizing |-> sizing, available |-> available, metrics |-> metrics]

\* A calm ledger; each breaker just at and just below its stop; an empty one;
\* a sizing bankroll above what is available.
MCConfigs ==
  {Config(0, 1000, Balances(1000, 1000, 1000, 1000)),
   Config(0, 1010, Balances(1010, 1000, 1020, 1100)),
   Config(0, 950, Balances(950, 1000, 1000, 1000)),
   Config(0, 951, Balances(951, 1000, 1000, 1000)),
   Config(0, 900, Balances(900, 900, 1000, 1000)),
   Config(0, 850, Balances(850, 850, 850, 1000)),
   Config(0, 0, Balances(0, 0, 0, 0)),
   Config(1000, 20, Balances(20, 20, 20, 20))}

\* Ties in rank, a push and an ungraded row between wins and losses on both
\* sides of even, with and without a closing line.
Row(id, rank, expected, outcome, clv) ==
  [id |-> id, rank |-> rank, expected |-> expected, outcome |-> outcome, clv |-> clv]
MCRowUniverse ==
  {Row(1, 3, 60, "win", <<2>>), Row(2, 3, 60, "loss", <<-4>>), Row(3, 2, 30, "win", <<>>),
   Row(4, 1, 50, "push", <<0>>), Row(5, 1, 70, "win", <<1>>), Row(6, 1, 50, "unknown", <<>>)}

MCDefaults == [thresholds |-> [warnECE |-> 200, criticalECE |-> 400, warnBrier |-> 100, criticalBrier |-> 200],
               guardrails |-> [overall |-> 1, perBucket |-> 1]]

\* Opposite sides of one game, advised by two models, and a total a day later.
A(game, day, market, side, rank, model) ==
  [sport |-> "NHL", game |-> game, day |-> day, market |-> market, side |-> side, home |-> 45,
   rank |-> rank, minute |-> day, model |-> model]
MCAdvice == <<A(1, 1, "h2h", "home", 2, 1), A(1, 1, "h2h", "away", 1, 2), A(1, 2, "totals", "over", 3, 1)>>
MCFinal == <<<<3, 1>>, <<3, 1>>, <<3, 1>>>>
\* A line with a score that does not parse, or with none, settles as little.
MCQuotes == <<{[close |-> 45, scores |-> "broken"], [close |-> 45, scores |-> "final"]},
              {[close |-> 55, scores |-> "final"]}, {}>>
MCLines == <<2, 1, 0>>

Ask(kind, from, to, limit) ==
  [kind |-> kind, sport |-> "all", limit |-> limit, current |-> <<from, to>>, baseline |-> <<from, to>>,
   buckets |-> 1, guardrails |-> [overall |-> 0, perBucket |-> 0], thresholds |-> MCDefaults.thresholds,
   anchor |-> to, days |-> 1, steps |-> 2]
MCRequests == {Ask("models", 1, 1, 1), Ask("point", 1, 1, 1), Ask("rolling", 1, 1, 1), Ask("performance", 1, 2, 4)}

\* A hosts on two days running and then plays at B, who travels on; the evening
\* games 1 and 3 start on the day after by UTC.  A game of baseball, a price captured late, one
\* captured after the game has begun, two books.
T(game, team, home, day, xg, goals) ==
  [game |-> game, team |-> team, home |-> home, day |-> day, season |-> 2, playoff |-> FALSE, xg |-> xg, goals |-> goals]
MCTeamGames == <<T(4, "C", TRUE, 1104, 4, 1), T(4, "B", FALSE, 1104, -4, 0),
                 T(1, "A", TRUE, 1105, 9, 4), T(1, "B", FALSE, 1105, -9, 1),
                 T(2, "A", TRUE, 1106, -2, 2), T(2, "C", FALSE, 1106, 2, 3),
                 T(3, "B", TRUE, 1107, 1, 5), T(3, "A", FALSE, 1107, -1, 4),
                 T(6, "C", TRUE, 1108, 3, 2), T(6, "B", FALSE, 1108, -3, 3)>>
MCGoalies == <<[game |-> 1, team |-> "A", goalie |-> 1, ice |-> 60, day |-> 1105, season |-> 2, gsax |-> 2],
               [game |-> 2, team |-> "A", goalie |-> 1, ice |-> 40, day |-> 1106, season |-> 2, gsax |-> -3],
               [game |-> 2, team |-> "A", goalie |-> 2, ice |-> 20, day |-> 1106, season |-> 2, gsax |-> 0]>>
MCGames == [g \in 1..5 |->
  CASE g = 1 -> [sport |-> "NHL", home |-> "A", away |-> "B", at |-> 1106 * 24]
    [] g = 2 -> [sport |-> "NHL", home |-> "A", away |-> "C", at |-> 1106 * 24 + 19]
    [] g = 3 -> [sport |-> "NHL", home |-> "B", away |-> "A", at |-> 1108 * 24]
    [] g = 4 -> [sport |-> "NHL", home |-> "C", away |-> "B", at |-> 1105 * 24]
    [] OTHER -> [sport |-> "MLB", home |-> "D", away |-> "E", at |-> 1106 * 24]]
Priced(game, book, at, chance) == [game |-> game, book |-> book, at |-> 1106 * 24 + at, chance |-> chance]
MCHomeQuotes == <<Priced(1, 1, -9, 40), Priced(1, 1, 3, 55), Priced(2, 1, 1, 60), Priced(3, 1, 9, 50), Priced(5, 2, -9, 50)>>
MCPolicy == [sport \in {"NHL", "MLB"} |-> IF sport = "NHL" THEN [kelly |-> 14, cap |-> 200] ELSE [kelly |-> 25, cap |-> 300]]
MCGuess == <<45, 60>>
MCFinals == 1 :> <<4, 1>>
MCGuardrails == [samples |-> 2, positive |-> 50, mae |-> 30, brier |-> 9]
RA(mode, sport, season, market, limit) ==
  [mode |-> mode, sport |-> sport, season |-> season, market |-> market, limit |-> limit, version |-> 1]
MCReplayAsks == {RA("odds", "", 0, "h2h", 9), RA("odds", "NHL", 3, "h2h", 2), RA("outcome", "", 2, "all", 0),
                  RA("outcome", "", 9, "h2h", 0)}

-----------------------------------------------------------------------------
Init == /\ subject \in {"picks", "windows", "pages", "replays"}
        /\ IF subject = "picks" THEN PickInit ELSE candidates = <<>> /\ cfg = CHOOSE c \in Configs : TRUE
        /\ ReportInit /\ OutInit /\ ReplayInit

Next == /\ UNCHANGED subject
        /\ \/ subject = "picks" /\ PickNext /\ UNCHANGED <<calibrationRows, outVars, replayVars>>
           \/ subject = "windows" /\ ReportNext /\ UNCHANGED <<pickVars, outVars, replayVars>>
           \/ subject = "pages" /\ OutNext /\ UNCHANGED <<pickVars, calibrationRows, replayVars>>
           \/ subject = "replays" /\ ReplayNext /\ UNCHANGED <<pickVars, calibrationRows, outVars>>

Spec == Init /\ [][Next]_vars

MCSymmetry == Permutations(Readers)

=============================================================================
