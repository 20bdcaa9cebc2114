------------------------------ MODULE Prediction ------------------------------
(***************************************************************************)
(* NHLPredictionService.PredictUpcomingGames, run by the worker's periodic *)
(* job and by two handlers of the server (handlePredictionsRun and the     *)
(* refresh handler) at the same time, and the choice that                  *)
(* recommendationCandidates makes among the rows it leaves behind.         *)
(*                                                                         *)
(* Every database call of a run is an action.  The model itself is a       *)
(* function of its features, so a row is told by what it was computed      *)
(* from: the moneyline by the features and the latest home probability     *)
(* (one value of Moneylines), the totals row by the features, the latest   *)
(* line and its over probability (one value of Lines).                     *)
(***************************************************************************)
EXTENDS Integers, FiniteSets

CONSTANTS Runners,      \* concurrent calls of PredictUpcomingGames
          Games,        \* upcoming games, within the 48 hours that are listed
          Times,        \* the times a game may be scheduled for
          Moneylines, Lines,
          None,         \* no odds, or no row
          MovesEarlier  \* whether a game can be moved to an earlier time

ASSUME PredictionAssumption ==
  /\ Times \subseteq Nat /\ Times # {}
  /\ None \notin Moneylines \cup Lines
  /\ MovesEarlier \in BOOLEAN

Markets == {"h2h", "totals"}
Basis(m) == IF m = "h2h" THEN Moneylines ELSE Lines

VARIABLES commence,     \* [Games -> Times], games.commence_time
          odds,         \* [Games -> [Markets -> the latest odds, or None]]
          predictions,  \* [Games -> [Markets -> [Times -> a row of model_predictions]]]
          run           \* [Runners -> the local state of a run]

vars == <<commence, odds, predictions, run>>

\* recent: created_at, which only an insertion sets, is within staleThreshold.
NoRow == [basis |-> None, recent |-> FALSE]
Idle == [at |-> "idle", todo |-> {}, game |-> None, time |-> 0, basis |-> None]

Init == /\ commence \in [Games -> Times]
        /\ odds = [g \in Games |-> [m \in Markets |-> None]]
        /\ predictions = [g \in Games |-> [m \in Markets |-> [t \in Times |-> NoRow]]]
        /\ run = [r \in Runners |-> Idle]

-----------------------------------------------------------------------------
(* What the odds poller changes, and time. *)
OddsMove(g, m, basis) ==
  /\ basis # odds[g][m]
  /\ odds' = [odds EXCEPT ![g][m] = basis]
  /\ UNCHANGED <<commence, predictions, run>>

(* UpsertGame with another commence_time. *)
Reschedule(g, t) ==
  /\ t # commence[g]
  /\ MovesEarlier \/ t > commence[g]
  /\ commence' = [commence EXCEPT ![g] = t]
  /\ UNCHANGED <<odds, predictions, run>>

RowAges(g, m, t) ==
  /\ predictions[g][m][t].recent
  /\ predictions' = [predictions EXCEPT ![g][m][t].recent = FALSE]
  /\ UNCHANGED <<commence, odds, run>>

-----------------------------------------------------------------------------
(* ListUpcomingGamesForSport. *)
ListGames(r) ==
  /\ run[r].at = "idle"
  /\ run' = [run EXCEPT ![r] = [Idle EXCEPT !.at = "listed", !.todo = {<<g, commence[g]>> : g \in Games}]]
  /\ UNCHANGED <<commence, odds, predictions>>

\* Faulty variant: the age of a row is not looked at.
HasRow(g) == \E m \in Markets, t \in Times : predictions[g][m][t] # NoRow

HasRecent(g) == \E m \in Markets, t \in Times : predictions[g][m][t].recent

(* ListModelPredictionsForSportSeason: a game with any recent row is left  *)
(* out, whatever its market or time.                                       *)
FilterRecent(r) ==
  /\ run[r].at = "listed"
  /\ run' = [run EXCEPT ![r].at = "next", ![r].todo = {e \in @ : ~HasRecent(e[1])}]
  /\ UNCHANGED <<commence, odds, predictions>>

\* The run goes on with the next game, or ends.
GoOn(r) == run' = [run EXCEPT ![r] = [Idle EXCEPT !.at = "next", !.todo = run[r].todo]]

(* GetLatestMarketProbabilityForGame; without odds the game is skipped.    *)
ReadMoneyline(r, e) ==
  /\ run[r].at = "next"
  /\ e \in run[r].todo
  /\ run' = [run EXCEPT ![r] =
       IF odds[e[1]]["h2h"] = None THEN [run[r] EXCEPT !.todo = run[r].todo \ {e}]
       ELSE [at |-> "moneyline", todo |-> run[r].todo \ {e},
             game |-> e[1], time |-> e[2], basis |-> odds[e[1]]["h2h"]]]
  /\ UNCHANGED <<commence, odds, predictions>>

(* UpsertModelPrediction.  An unchanged row is not returned, and pgx makes *)
(* an error of it.                                                         *)
RowOf(r, m) == predictions[run[r].game][m][run[r].time]
Changes(r, m) == RowOf(r, m).basis # run[r].basis

WriteRow(r, m) ==
  predictions' = [predictions EXCEPT ![run[r].game][m][run[r].time] =
                    [basis |-> run[r].basis, recent |-> IF @ = NoRow THEN TRUE ELSE @.recent]]

UpsertMoneyline(r) ==
  /\ run[r].at = "moneyline"
  /\ Changes(r, "h2h")
  /\ WriteRow(r, "h2h")
  /\ run' = [run EXCEPT ![r].at = "line", ![r].basis = None]
  /\ UNCHANGED <<commence, odds>>

\* Faulty variant: PredictGameFull goes on after the error.
ReturnNothing(r) ==
  /\ run[r].at = "moneyline"
  /\ run' = [run EXCEPT ![r].at = "line", ![r].basis = None]
  /\ UNCHANGED <<commence, odds, predictions>>

(* The features cannot be built, the upsert fails, or it returns no row:   *)
(* PredictGameFull returns, and the run goes on with the next game.        *)
MoneylineFails(r) ==
  /\ run[r].at = "moneyline"
  /\ GoOn(r)
  /\ UNCHANGED <<commence, odds, predictions>>

\* Faulty variant: the line is not tested.
ReadAnyLine(r) ==
  /\ run[r].at = "line"
  /\ run' = [run EXCEPT ![r].at = "totals", ![r].basis = odds[run[r].game]["totals"]]
  /\ UNCHANGED <<commence, odds, predictions>>

(* GetLatestTotalsLineForGame, with GetLatestTotalsOverProbForGame; without *)
(* a line, or on an error, the game is done.                                *)
ReadLine(r) ==
  /\ run[r].at = "line"
  /\ odds[run[r].game]["totals"] # None
  /\ run' = [run EXCEPT ![r].at = "totals", ![r].basis = odds[run[r].game]["totals"]]
  /\ UNCHANGED <<commence, odds, predictions>>

NoLine(r) ==
  /\ run[r].at = "line"
  /\ GoOn(r)
  /\ UNCHANGED <<commence, odds, predictions>>

UpsertTotals(r) ==
  /\ run[r].at = "totals"
  /\ Changes(r, "totals")
  /\ WriteRow(r, "totals")
  /\ GoOn(r)
  /\ UNCHANGED <<commence, odds>>

TotalsFails(r) ==
  /\ run[r].at = "totals"
  /\ GoOn(r)
  /\ UNCHANGED <<commence, odds, predictions>>

FinishRun(r) ==
  /\ run[r].at = "next"
  /\ run[r].todo = {}
  /\ run' = [run EXCEPT ![r] = Idle]
  /\ UNCHANGED <<commence, odds, predictions>>

(* A query outside PredictGame fails, the request is cancelled, or the     *)
(* process stops.                                                          *)
EndRun(r) ==
  /\ run[r].at # "idle"
  /\ run' = [run EXCEPT ![r] = Idle]
  /\ UNCHANGED <<commence, odds, predictions>>

RunStep(r) ==
  \/ ListGames(r) \/ FilterRecent(r)
  \/ \E e \in run[r].todo : ReadMoneyline(r, e)
  \/ UpsertMoneyline(r) \/ MoneylineFails(r)
  \/ ReadLine(r) \/ NoLine(r) \/ UpsertTotals(r) \/ TotalsFails(r)
  \/ FinishRun(r) \/ EndRun(r)

Next == \/ \E g \in Games, m \in Markets : \E basis \in Basis(m) : OddsMove(g, m, basis)
        \/ \E g \in Games, t \in Times : Reschedule(g, t)
        \/ \E g \in Games, m \in Markets, t \in Times : RowAges(g, m, t)
        \/ \E r \in Runners : RunStep(r)

Spec == Init /\ [][Next]_vars

(* Time passes, runs are started again and again, every call returns, and  *)
(* none on the way to the moneyline fails each time it is made.            *)
FairSpec ==
  /\ Spec
  /\ \A g \in Games, m \in Markets, t \in Times : WF_vars(RowAges(g, m, t))
  /\ \A r \in Runners :
       /\ WF_vars(ListGames(r)) /\ SF_vars(FilterRecent(r)) /\ WF_vars(FinishRun(r))
       /\ \A g \in Games, t \in Times : SF_vars(ReadMoneyline(r, <<g, t>>))
       /\ SF_vars(UpsertMoneyline(r)) /\ WF_vars(UpsertMoneyline(r) \/ MoneylineFails(r))
       /\ WF_vars(ReadLine(r) \/ NoLine(r)) /\ WF_vars(UpsertTotals(r) \/ TotalsFails(r))

-----------------------------------------------------------------------------
(* recommendationCandidates: of the rows of a game and market, read in the *)
(* order of event_time and id, the last one.                               *)
Written(g, m) == {t \in Times : predictions[g][m][t] # NoRow}
CandidateTime(g, m) == CHOOSE t \in Written(g, m) : \A other \in Written(g, m) : other <= t

Odds == Moneylines \cup Lines \cup {None}
Rows == [basis : Moneylines \cup Lines, recent : BOOLEAN] \cup {NoRow}
Runs == [at : {"idle", "listed", "next", "moneyline", "line", "totals"},
         todo : SUBSET (Games \X Times), game : Games \cup {None},
         time : Times \cup {0}, basis : Odds]

(* A run has the game, the time and the odds that its next call needs.     *)
PredictionTypeOK ==
  /\ commence \in [Games -> Times]
  /\ odds \in [Games -> [Markets -> Odds]]
  /\ \A g \in Games, m \in Markets : odds[g][m] \in Basis(m) \cup {None}
  /\ predictions \in [Games -> [Markets -> [Times -> Rows]]]
  /\ run \in [Runners -> Runs]
  /\ \A r \in Runners :
       /\ run[r].at \in {"moneyline", "line", "totals"} => run[r].game \in Games /\ run[r].time \in Times
       /\ run[r].at = "moneyline" => run[r].basis \in Moneylines
       /\ run[r].at = "totals" => run[r].basis \in Lines

(* However runs overlap, fail and find their games moved, a totals row is  *)
(* never there without the moneyline row of its game and event time.       *)
TotalsBesideMoneyline ==
  \A g \in Games : Written(g, "totals") \subseteq Written(g, "h2h")

(* When the odds and the schedule come to rest, the moneyline that         *)
(* recommendations use comes to be the one of the scheduled time and the   *)
(* latest odds: no stale write of an overlapping run, and no row of an     *)
(* earlier date, outlives it.  (Games are moved later only: an earlier     *)
(* date never becomes the latest event_time.)                              *)
Settled == <>[][UNCHANGED <<commence, odds>>]_vars

MoneylineCatchesUp ==
  Settled => \A g \in Games :
    <>[](odds[g]["h2h"] # None =>
           /\ Written(g, "h2h") # {}
           /\ CandidateTime(g, "h2h") = commence[g]
           /\ predictions[g]["h2h"][commence[g]].basis = odds[g]["h2h"])

=============================================================================
