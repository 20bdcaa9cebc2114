----------------------------- MODULE MCOddsPoll -----------------------------
(***************************************************************************)
(* Small instances of the ingestion side for TLC.  A behaviour has one     *)
(* subject: the odds poller, the import jobs, a rate limiter, the live     *)
(* scores or the import of files, which share nothing.                     *)
(***************************************************************************)
EXTENDS Ingestion, RateLimit, Scoreboard, TLC

CONSTANTS p1, p2, g1, g2, w1, w2, c1, c2, c3

VARIABLE subject

O(point, over, under) == [point |-> point, over |-> over, under |-> under]

\* A price moves and moves back; a line moves and the old one comes back.
MCOffers == {O(11, -110, -110), O(11, 100, -120), O(13, 120, -140)}
OneSport == <<g1>>

Ask(season, kind, date) == [season |-> season, kind |-> kind, date |-> date]

\* The same season told in two ways, a season type that not every provider
\* serves, and a date of its own.  Days 179 and 180 are the last of June and
\* the first of July.
MCRequests ==
  [mlb |-> {Ask(0, "", 0), Ask(2, "regular", 0)},
   nba |-> {Ask(0, "", 0), Ask(2, "", 179)},
   nhl |-> {Ask(0, "", 0), Ask(2, "playoffs", 0), Ask(2, "", 179)},
   nfl |-> {Ask(0, "", 0), Ask(1, "regular", 0)},
   injuries |-> {Ask(0, "", 0), Ask(0, "nba", 0)},
   weather |-> {Ask(0, "", 179), Ask(0, "", 180), Ask(0, "mlb", 180), Ask(0, "nba", 180)}]

Split(id, group, val) == [id |-> id, group |-> group, val |-> val]
Pitcher(id, starts, val) == [id |-> id, starts |-> starts, val |-> val]
Team(id, counted, val) == [id |-> id, counted |-> counted, val |-> val]

\* Groups in either order, a team without an id, two spellings of one team, a
\* blank one, a season's standings that linger, a team without a standing.
MCAnswers ==
  [mlb |-> <<[teams |-> <<Split(1, "hitting", 5), Split(2, "hitting", 6), Split(1, "pitching", 7)>>,
              pitchers |-> <<Pitcher(1, 3, 4), Pitcher(2, 0, 4)>>],
             [teams |-> <<Split(2, "pitching", 8), Split(0, "hitting", 1), Split(1, "hitting", 9)>>,
              pitchers |-> <<>>]>>,
   nba |-> <<[columns |-> TRUE, rows |-> <<Team(10, TRUE, 1), Team(11, TRUE, 2)>>],
             [columns |-> TRUE, rows |-> <<Team(20, TRUE, 1), Team(10, TRUE, 3)>>],
             [columns |-> FALSE, rows |-> <<>>]>>,
   nhl |-> <<<<[type |-> 2, season |-> 2, id |-> 10, val |-> 1], [type |-> 3, season |-> 2, id |-> 20, val |-> 1]>>,
             <<[type |-> 2, season |-> 2, id |-> 20, val |-> 2], [type |-> 2, season |-> 3, id |-> 10, val |-> 1]>>>>,
   nfl |-> <<[stats |-> <<[type |-> "REG", id |-> 10, counted |-> TRUE, val |-> 1],
                          [type |-> "POST", id |-> 20, counted |-> TRUE, val |-> 1]>>,
              standings |-> <<[id |-> 11, val |-> 1], [id |-> 10, val |-> 2]>>],
             [stats |-> <<[type |-> "REG", id |-> 20, counted |-> TRUE, val |-> 3]>>,
              standings |-> <<[id |-> 10, val |-> 3], [id |-> 20, val |-> 1]>>]>>,
   injuries |-> <<<<[id |-> 10, whole |-> TRUE, val |-> 1], [id |-> 20, whole |-> TRUE, val |-> 1]>>,
                  <<[id |-> 20, whole |-> TRUE, val |-> 2]>>,
                  <<[id |-> 10, whole |-> TRUE, val |-> 3], [id |-> 5, whole |-> TRUE, val |-> 3]>>>>,
   weather |-> <<[hours |-> 0..23, val |-> <<70>>], [hours |-> {}, val |-> <<>>]>>]

MCTries == [f \in Feeds |-> 2]

\* Two games at a quarter to midnight, one under a roof; one nobody knows; one
\* soon after noon.
MCFixtures ==
  {[id |-> 1, sport |-> "mlb", home |-> "outdoor", at |-> 180 * 96 + 95],
   [id |-> 2, sport |-> "mlb", home |-> "roofed", at |-> 180 * 96 + 95],
   [id |-> 3, sport |-> "nfl", home |-> "outdoor", at |-> 180 * 96 + 50],
   [id |-> 4, sport |-> "nfl", home |-> "unknown", at |-> 180 * 96 + 90]}

-----------------------------------------------------------------------------
\* A bet on a team and one on a total.
Bet(sport, matchup, market, side) == [sport |-> sport, matchup |-> matchup, market |-> market, side |-> side]
MCBets == {Bet("NHL", "A-B", "h2h", "home"), Bet("NHL", "A-B", "totals", "over")}
MCMatchups == [g \in {g1, g2} |-> IF g = g1 THEN "A-B" ELSE "C-D"]

\* Two spellings of one team, a team nobody knows in a season of its own, a
\* figure corrected in the second version, a line on a player.
Stat(position, situation, season, team, side, game, val) ==
  [position |-> position, situation |-> situation, season |-> season, team |-> team, opponent |-> "BOS",
   day |-> 1, side |-> side, game |-> game, who |-> "P1", val |-> val]
MCStats(position) ==
  <<[columns |-> TRUE, lines |-> <<Stat(position, "all", 1, "T.B", "HOME", 7, 1), Stat(position, "4on5", 1, "TBL", "HOME", 7, 9),
                                   Stat(position, "all", 1, "TBL", "HOME", 7, 2), Stat(position, "all", 2, "XXX", "HOME", 8, 3)>>],
    [columns |-> TRUE, lines |-> <<Stat(position, "all", 1, "TBL", "AWAY", 7, 5), Stat("C", "all", 1, "XXX", "HOME", 7, 6),
                                   Stat(position, "all", 2, "TBL", "", 8, 4)>>]>>

Odds(home, price, spread, scheduled, start, scored) ==
  [day |-> 1, home |-> home, away |-> IF home = "BOS" THEN "TBL" ELSE "BOS", whole |-> TRUE, scored |-> scored, scheduled |-> scheduled,
   start |-> start, spread |-> spread, awaySpread |-> -spread, total |-> 65,
   prices |-> [side \in {"home", "away", "over", "under"} |-> IF side = "home" THEN price ELSE -110]]

\* A price that moves and moves back, a score that is not there yet, a start
\* moved to an earlier hour.
MCFiles ==
  [teams |-> MCStats("Team Level"),
   goalies |-> MCStats("G"),
   lines |-> Append(MCStats("line"), [columns |-> FALSE, lines |-> <<>>]),
   odds |-> <<[columns |-> TRUE, priced |-> TRUE, lines |-> <<Odds("TBL", -120, 15, FALSE, 0, TRUE), Odds("BOS", 100, -1, FALSE, 0, FALSE)>>],
              [columns |-> TRUE, priced |-> TRUE, lines |-> <<Odds("TBL", 105, 15, FALSE, 0, TRUE), Odds("BOS", 100, -1, FALSE, 0, TRUE)>>]>>,
   asplayed |-> <<[columns |-> TRUE, priced |-> TRUE, lines |-> <<Odds("BOS", 100, 15, TRUE, 19, FALSE), Odds("TBL", -120, 15, FALSE, 20, TRUE)>>],
                  [columns |-> TRUE, priced |-> TRUE, lines |-> <<Odds("TBL", 105, 15, FALSE, 18, TRUE)>>],
                  [columns |-> TRUE, priced |-> FALSE, lines |-> <<Odds("TBL", 0, 15, FALSE, -1, TRUE)>>]>>]
MCAbbreviation == [name \in {"T.B", "TBL", "BOS", "XXX"} |-> IF name = "T.B" THEN "TBL" ELSE IF name = "XXX" THEN "" ELSE name]

PollRests == Init /\ \A g \in Games : offered[g] = O(11, -110, -110)
IngestRests == IngestInit /\ feed = "mlb"
LimitRests == LimitInit /\ limiter = "held"
BoardRests == BoardInit /\ snapshot = NoSnapshot /\ \A g \in BoardGames : board[g].state = "FUT"
ImportRests == ImportInit /\ fileKind = "teams"

MCInit ==
  \/ subject = "polls" /\ Init /\ IngestRests /\ LimitRests /\ BoardRests /\ ImportRests
  \/ subject = "jobs" /\ IngestInit /\ PollRests /\ LimitRests /\ BoardRests /\ ImportRests
  \/ subject = "limits" /\ LimitInit /\ PollRests /\ IngestRests /\ BoardRests /\ ImportRests
  \/ subject = "scores" /\ BoardInit /\ PollRests /\ IngestRests /\ LimitRests /\ ImportRests
  \/ subject = "files" /\ ImportInit /\ PollRests /\ IngestRests /\ LimitRests /\ BoardRests

MCNext ==
  /\ UNCHANGED subject
  /\ \/ subject = "polls" /\ Next /\ UNCHANGED <<ingestVars, limitVars, boardVars, importVars>>
     \/ subject = "jobs" /\ IngestNext /\ UNCHANGED <<vars, limitVars, boardVars, importVars>>
     \/ subject = "limits" /\ LimitNext /\ UNCHANGED <<vars, ingestVars, boardVars, importVars>>
     \/ subject = "scores" /\ BoardNext /\ UNCHANGED <<vars, ingestVars, limitVars, importVars>>
     \/ subject = "files" /\ ImportNext /\ UNCHANGED <<vars, ingestVars, limitVars, boardVars>>

MCSpec == MCInit /\ [][MCNext]_<<subject, vars, ingestVars, limitVars, boardVars, importVars>>

MCSymmetry == Permutations({p1, p2}) \cup Permutations({w1, w2})

=============================================================================
