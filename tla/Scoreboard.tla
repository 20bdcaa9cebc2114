----------------------------- MODULE Scoreboard -----------------------------
(***************************************************************************)
(* The live scores of the home page: ScoreCache, which polls the NHL's     *)
(* scoreboard more often the more there is to see, and the handler that    *)
(* lays the open bets over what the cache holds.                           *)
(*                                                                         *)
(* A game on the board is known by the names of its teams, which are what  *)
(* bets are matched by; one whose abbreviations the team map does not know *)
(* keeps them.  Of a score only who leads matters.  Polling takes no time. *)
(***************************************************************************)
EXTENDS Integers, Sequences, FiniteSets

CONSTANTS BoardGames,      \* hockey games of the day
          MatchupOf,       \* [BoardGames -> a matchup, or "" for an unknown one]
          Leads,           \* who may lead: "level", "home", "away"
          BoardBets,       \* bets: [sport, matchup, market, side]
          LiveEvery, IdleEvery, NoGamesEvery,   \* poll intervals, in ticks
          MaxTime          \* bound: the end of time

ASSUME IntervalsAssumption ==
  /\ LiveEvery \in Nat /\ IdleEvery \in Nat /\ NoGamesEvery \in Nat
  /\ LiveEvery <= IdleEvery /\ IdleEvery <= NoGamesEvery

(* Two teams meet once on a day; a bet on the winner is on one of the two. *)
ASSUME BoardAssumption ==
  /\ \A g, h \in BoardGames : MatchupOf[g] = MatchupOf[h] => g = h \/ MatchupOf[g] = ""
  /\ IsFiniteSet(BoardBets)
  /\ \A b \in BoardBets : /\ b.matchup # ""
                          /\ b.market = "h2h" => b.side \in {"home", "away"}

VARIABLES time,
          board,           \* [BoardGames -> [state, lead, listed]]: the NHL's answer
          liveSince,       \* [BoardGames -> when the game went live]
          snapshot,        \* the cache: none, or [games, at]
          pollAt,          \* when the timer fires
          failures,        \* polls that failed since the snapshot
          open,            \* the open bets
          page             \* the answer to a request: [shown, games]

boardVars == <<time, board, liveSince, snapshot, pollAt, failures, open, page>>

NoSnapshot == [games |-> {}, at |-> -1]
NoPage == [shown |-> FALSE, games |-> {}]

(* NormalizeNHLGame, of the games that are neither cancelled nor put off.  *)
Normalized ==
  {[id |-> g, matchup |-> MatchupOf[g], state |-> board[g].state, lead |-> board[g].lead, bets |-> <<>>] :
     g \in {h \in BoardGames : board[h].listed}}

IsLive(game) == game.state = "LIVE"
IsComplete(game) == game.state = "FINAL"

(* New refreshes the cache and starts the poller, whose first interval is  *)
(* the idle one whatever the refresh brought: games may be on by then.     *)
BoardInit ==
  /\ time = 0
  /\ board \in [BoardGames -> [state : {"FUT", "LIVE"}, lead : {"level"}, listed : {TRUE}]]
  /\ liveSince = [g \in BoardGames |-> 0]
  /\ snapshot \in {NoSnapshot, [games |-> Normalized, at |-> 0]}
  /\ pollAt = IdleEvery
  /\ failures = IF snapshot = NoSnapshot THEN 1 ELSE 0
  /\ open = BoardBets
  /\ page = NoPage

-----------------------------------------------------------------------------
(* The games. *)
GameStarts(g) ==
  /\ board[g].state = "FUT" /\ board[g].listed
  /\ board' = [board EXCEPT ![g].state = "LIVE"]
  /\ liveSince' = [liveSince EXCEPT ![g] = time]
  /\ UNCHANGED <<time, snapshot, pollAt, failures, open, page>>

Scores(g, lead) ==
  /\ board[g].state = "LIVE" /\ board[g].lead # lead
  /\ board' = [board EXCEPT ![g].lead = lead]
  /\ UNCHANGED <<time, liveSince, snapshot, pollAt, failures, open, page>>

GameEnds(g) ==
  /\ board[g].state = "LIVE"
  /\ board' = [board EXCEPT ![g].state = "FINAL"]
  /\ UNCHANGED <<time, liveSince, snapshot, pollAt, failures, open, page>>

PutOff(g) ==
  /\ board[g].state = "FUT" /\ board[g].listed
  /\ board' = [board EXCEPT ![g].listed = FALSE]
  /\ UNCHANGED <<time, liveSince, snapshot, pollAt, failures, open, page>>

BetCloses(b) ==
  /\ open' = open \ {b}
  /\ UNCHANGED <<time, board, liveSince, snapshot, pollAt, failures, page>>

-----------------------------------------------------------------------------
(* The poller: fetch, and the interval that what it now holds calls for.   *)
NextInterval(games) ==
  CASE games = {} -> NoGamesEvery
    [] \E game \in games : IsLive(game) -> LiveEvery
    [] OTHER -> IdleEvery

\* Faulty variant: the interval is chosen before the fetch.
FetchAfterInterval ==
  /\ pollAt = time
  /\ snapshot' = [games |-> Normalized, at |-> time]
  /\ failures' = 0
  /\ pollAt' = time + NextInterval(snapshot.games)
  /\ UNCHANGED <<time, board, liveSince, open, page>>

Fetch ==
  /\ pollAt = time
  /\ snapshot' = [games |-> Normalized, at |-> time]
  /\ failures' = 0
  /\ pollAt' = time + NextInterval(Normalized)
  /\ UNCHANGED <<time, board, liveSince, open, page>>

\* Faulty variant: the timer is not set again.
ScoresFailForGood ==
  /\ pollAt = time
  /\ failures' = failures + 1
  /\ pollAt' = MaxTime + 1
  /\ UNCHANGED <<time, board, liveSince, snapshot, open, page>>

(* The old snapshot is kept, and says when to try again. *)
ScoresFail ==
  /\ pollAt = time
  /\ failures' = failures + 1
  /\ pollAt' = time + NextInterval(snapshot.games)
  /\ UNCHANGED <<time, board, liveSince, snapshot, open, page>>

TimePasses ==
  /\ time < pollAt /\ time < MaxTime
  /\ time' = time + 1
  /\ UNCHANGED <<board, liveSince, snapshot, pollAt, failures, open, page>>

-----------------------------------------------------------------------------
(* The page: the snapshot is read, then the open bets, and the games that  *)
(* are shown are a copy.  A snapshot does not change once it is published, *)
(* so the handler is one action; its answer is looked at as it is given.   *)
\* Faulty variant: who is not behind is winning.
WinningIfLevel(bet, game) ==
  /\ IsLive(game) \/ IsComplete(game)
  /\ bet.market = "h2h"
  /\ IF bet.side = "home" THEN game.lead # "away" ELSE game.lead # "home"

EvaluateBetStatus(bet, game) ==
  /\ IsLive(game) \/ IsComplete(game)
  /\ bet.market = "h2h"
  /\ game.lead = IF bet.side = "home" THEN "home" ELSE "away"

MatchingBets(game) == {b \in open : b.sport = "NHL" /\ b.matchup = game.matchup}

WithBets(game) ==
  LET bets == MatchingBets(game)
      order == CHOOSE o \in [1..Cardinality(bets) -> bets] : \A b \in bets : \E i \in DOMAIN o : o[i] = b
  IN  [game EXCEPT !.bets = @ \o [i \in DOMAIN order |-> [bet |-> order[i], winning |-> EvaluateBetStatus(order[i], game)]]]

\* Faulty variant: the bets are laid over the cached games themselves.
ShowInPlace ==
  /\ ~page.shown
  /\ page' = [shown |-> TRUE, games |-> {WithBets(game) : game \in snapshot.games}]
  /\ snapshot' = [snapshot EXCEPT !.games = page'.games]
  /\ UNCHANGED <<time, board, liveSince, pollAt, failures, open>>

Show ==
  /\ ~page.shown
  /\ page' = [shown |-> TRUE, games |-> {WithBets(game) : game \in snapshot.games}]
  /\ UNCHANGED <<time, board, liveSince, snapshot, pollAt, failures, open>>

Answered ==
  /\ page.shown
  /\ page' = NoPage
  /\ UNCHANGED <<time, board, liveSince, snapshot, pollAt, failures, open>>

BoardMoves(g) == GameStarts(g) \/ GameEnds(g) \/ PutOff(g) \/ \E lead \in Leads : Scores(g, lead)

BoardNext ==
  \/ /\ ~page.shown
     /\ \/ \E g \in BoardGames : BoardMoves(g)
        \/ \E b \in open : BetCloses(b)
        \/ Fetch \/ ScoresFail \/ TimePasses
  \/ Show \/ Answered

-----------------------------------------------------------------------------
(* What the intervals promise: the one that the cache calls for, and as    *)
(* much again for every poll that failed; when the server starts with a    *)
(* game on, the idle one comes first.                                      *)
LiveShown == \E game \in snapshot.games : IsLive(game)
FirstPoll == IF LiveShown /\ snapshot.at = 0 THEN IdleEvery - LiveEvery ELSE 0
Promised == NextInterval(snapshot.games) * (1 + failures) + FirstPoll

(* A live game in the cache is no older than that.                         *)
LiveIsFresh == LiveShown => time - snapshot.at <= Promised

(* A game that went live is found out by then: the poller never stops.     *)
Unnoticed(g) == /\ board[g].state = "LIVE"
                /\ ~\E game \in snapshot.games : game.id = g /\ game.state # "FUT"
StartIsNoticed == \A g \in BoardGames : Unnoticed(g) => time - liveSince[g] <= Promised

(* However polls, pages and closing bets interleave, a page shows a bet    *)
(* once, on a game of its teams.                                           *)
ShownOnce ==
  /\ \A game \in page.games : \A i, j \in DOMAIN game.bets :
       /\ game.bets[i].bet.matchup = game.matchup
       /\ i # j => game.bets[i].bet # game.bets[j].bet
  /\ \A a, b \in page.games : \A i \in DOMAIN a.bets, j \in DOMAIN b.bets : a.bets[i].bet = b.bets[j].bet => a = b

(* Of a game that is over, the page calls winning the bets that            *)
(* auto_settlement will settle as won: none of a game that ended level,    *)
(* and none on a total or a spread, which neither of them decides.         *)
AutoWins(bet, game) ==
  bet.market = "h2h" /\ bet.side \in {"home", "away"} /\ game.lead # "level" /\ game.lead = bet.side
WinningIsWon ==
  \A game \in page.games : IsComplete(game) =>
    \A i \in DOMAIN game.bets : game.bets[i].winning <=> AutoWins(game.bets[i].bet, game)

(* The board is as fresh as the intervals promise, at the start of a game  *)
(* and while it is played.                                                 *)
BoardIsFresh == LiveIsFresh /\ StartIsNoticed

(* Bets are shown on the games of their teams, once, and end there as they *)
(* will be settled.                                                        *)
BetsShownRight == ShownOnce /\ WinningIsWon

=============================================================================
