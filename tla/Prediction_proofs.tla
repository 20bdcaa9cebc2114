-------------------------- MODULE Prediction_proofs --------------------------
(***************************************************************************)
(* Theorems about Prediction, for every set of runs, games, times and odds *)
(* (games moved earlier included).                                         *)
(***************************************************************************)
EXTENDS Prediction, TLAPS

\* A run that is past the moneyline of its game has written it, or found it
\* written; rows are never deleted.
PastMoneyline ==
  \A r \in Runners : run[r].at \in {"line", "totals"} =>
    predictions[run[r].game]["h2h"][run[r].time] # NoRow

IInv == PredictionTypeOK /\ PastMoneyline /\ TotalsBesideMoneyline

-----------------------------------------------------------------------------
(* The initial state satisfies the invariant.                              *)
LEMMA InitInv == Init => IInv
<1> SUFFICES ASSUME Init PROVE IInv
  OBVIOUS
<1>1. Idle \in Runs /\ NoRow \in Rows
  BY DEF Idle, Runs, Odds, Rows
<1>2. PredictionTypeOK
  BY <1>1 DEF Init, PredictionTypeOK, Odds, Idle
<1>3. PastMoneyline
  BY DEF Init, PastMoneyline, Idle
<1>4. TotalsBesideMoneyline
  BY DEF Init, TotalsBesideMoneyline, Written, Markets
<1> QED
  BY <1>2, <1>3, <1>4 DEF IInv

(* A write puts a row where it writes and leaves every other row alone.    *)
LEMMA WriteAddsRow ==
  ASSUME NEW r \in Runners, NEW m \in Markets, PredictionTypeOK, WriteRow(r, m),
         run[r].game \in Games, run[r].time \in Times, run[r].basis \in Moneylines \cup Lines
  PROVE  /\ predictions' \in [Games -> [Markets -> [Times -> Rows]]]
         /\ predictions'[run[r].game][m][run[r].time] # NoRow
         /\ \A g \in Games, n \in Markets, t \in Times :
              <<g, n, t>> # <<run[r].game, m, run[r].time>> =>
                predictions'[g][n][t] = predictions[g][n][t]
<1> DEFINE row == [basis |-> run[r].basis,
                   recent |-> IF RowOf(r, m) = NoRow THEN TRUE ELSE RowOf(r, m).recent]
<1>1. RowOf(r, m) \in Rows
  BY DEF RowOf, PredictionTypeOK
<1>2. row \in Rows /\ row # NoRow
  BY <1>1, PredictionAssumption DEF Rows, NoRow
<1>3. predictions' = [predictions EXCEPT ![run[r].game][m][run[r].time] = row]
  BY DEF WriteRow, RowOf
<1> HIDE DEF row
<1> QED
  BY <1>2, <1>3 DEF PredictionTypeOK

(* Whatever only adds rows keeps what was written written.                 *)
LEMMA RowsStay ==
  ASSUME IInv, UNCHANGED run,
         predictions' \in [Games -> [Markets -> [Times -> Rows]]],
         \A g \in Games, m \in Markets, t \in Times :
           (predictions[g][m][t] = NoRow) = (predictions'[g][m][t] = NoRow)
  PROVE  PastMoneyline' /\ TotalsBesideMoneyline'
<1>1. PastMoneyline'
  BY DEF IInv, PredictionTypeOK, PastMoneyline, Markets
<1>2. TotalsBesideMoneyline'
  BY DEF IInv, TotalsBesideMoneyline, Written, Markets
<1> QED
  BY <1>1, <1>2

\* What PredictionTypeOK and PastMoneyline say of one run.
WellFormed(s) ==
  /\ s \in Runs
  /\ s.at \in {"moneyline", "line", "totals"} => s.game \in Games /\ s.time \in Times
  /\ s.at = "moneyline" => s.basis \in Moneylines
  /\ s.at = "totals" => s.basis \in Lines

(* A step of one run that touches no table keeps the invariant, when the   *)
(* run it leaves is well formed and has its moneyline.                     *)
LEMMA RunUpdate ==
  ASSUME IInv, NEW r \in Runners, NEW s, WellFormed(s),
         s.at \in {"line", "totals"} => predictions[s.game]["h2h"][s.time] # NoRow,
         run' = [run EXCEPT ![r] = s], UNCHANGED <<commence, odds, predictions>>
  PROVE  IInv'
<1>1. PredictionTypeOK'
  BY DEF IInv, PredictionTypeOK, WellFormed
<1>2. PastMoneyline'
  BY DEF IInv, PredictionTypeOK, PastMoneyline
<1>3. TotalsBesideMoneyline'
  BY DEF IInv, TotalsBesideMoneyline, Written
<1> QED
  BY <1>1, <1>2, <1>3 DEF IInv

(* A run that writes a row and goes on keeps the invariant, when the row   *)
(* is a moneyline or stands beside one.                                    *)
LEMMA WriteUpdate ==
  ASSUME IInv, NEW r \in Runners, NEW m \in Markets, WriteRow(r, m),
         run[r].game \in Games, run[r].time \in Times, run[r].basis \in Moneylines \cup Lines,
         m = "h2h" \/ predictions[run[r].game]["h2h"][run[r].time] # NoRow,
         NEW s, WellFormed(s), s.at \in {"line", "totals"} =>
           m = "h2h" /\ s.game = run[r].game /\ s.time = run[r].time,
         run' = [run EXCEPT ![r] = s], UNCHANGED <<commence, odds>>
  PROVE  IInv'
<1>0. /\ predictions' \in [Games -> [Markets -> [Times -> Rows]]]
      /\ predictions'[run[r].game][m][run[r].time] # NoRow
      /\ \A g \in Games, n \in Markets, t \in Times :
           <<g, n, t>> # <<run[r].game, m, run[r].time>> =>
             predictions'[g][n][t] = predictions[g][n][t]
  BY WriteAddsRow DEF IInv
<1>1. PredictionTypeOK'
  BY <1>0 DEF IInv, PredictionTypeOK, WellFormed
<1>2. \A g \in Games, n \in Markets, t \in Times :
        predictions[g][n][t] # NoRow => predictions'[g][n][t] # NoRow
  BY <1>0
<1>3. PastMoneyline'
  <2> SUFFICES ASSUME NEW q \in Runners, run'[q].at \in {"line", "totals"}
               PROVE  predictions'[run'[q].game]["h2h"][run'[q].time] # NoRow
    BY DEF PastMoneyline
  <2>1. CASE q = r
    BY <1>0, <2>1 DEF IInv, PredictionTypeOK
  <2>2. CASE q # r
    BY <1>2, <2>2 DEF IInv, PredictionTypeOK, PastMoneyline, Markets
  <2> QED
    BY <2>1, <2>2
<1>4. TotalsBesideMoneyline'
  <2> SUFFICES ASSUME NEW g \in Games, NEW t \in Times, predictions'[g]["totals"][t] # NoRow
               PROVE  predictions'[g]["h2h"][t] # NoRow
    BY DEF TotalsBesideMoneyline, Written
  <2>1. CASE <<g, t>> = <<run[r].game, run[r].time>>
    BY <1>0, <1>2, <2>1 DEF Markets
  <2>2. CASE <<g, t>> # <<run[r].game, run[r].time>>
    <3>1. predictions[g]["totals"][t] # NoRow
      BY <1>0, <2>2 DEF Markets
    <3>2. predictions[g]["h2h"][t] # NoRow
      BY <3>1 DEF IInv, TotalsBesideMoneyline, Written
    <3> QED
      BY <1>2, <3>2 DEF Markets
  <2> QED
    BY <2>1, <2>2
<1> QED
  BY <1>1, <1>3, <1>4 DEF IInv

-----------------------------------------------------------------------------
(* Odds, schedule and time take no row away. *)
LEMMA EnvironmentInv ==
  ASSUME IInv, NEW g \in Games, NEW m \in Markets, NEW t \in Times,
         \/ \E basis \in Basis(m) : OddsMove(g, m, basis)
         \/ Reschedule(g, t)
         \/ RowAges(g, m, t)
  PROVE  IInv'
<1>1. ASSUME NEW basis \in Basis(m), OddsMove(g, m, basis)
      PROVE  IInv'
  <2>1. PredictionTypeOK'
    BY <1>1 DEF OddsMove, IInv, PredictionTypeOK, Basis, Odds
  <2> QED
    BY <1>1, <2>1, RowsStay DEF OddsMove, IInv, PredictionTypeOK
<1>2. ASSUME Reschedule(g, t)
      PROVE  IInv'
  <2>1. PredictionTypeOK'
    BY <1>2 DEF Reschedule, IInv, PredictionTypeOK
  <2> QED
    BY <1>2, <2>1, RowsStay DEF Reschedule, IInv, PredictionTypeOK
<1>3. ASSUME RowAges(g, m, t)
      PROVE  IInv'
  <2> DEFINE row == [predictions[g][m][t] EXCEPT !.recent = FALSE]
  <2>1. /\ predictions[g][m][t] \in [basis : Moneylines \cup Lines, recent : BOOLEAN]
        /\ predictions[g][m][t] # NoRow
    BY <1>3 DEF RowAges, IInv, PredictionTypeOK, Rows, NoRow
  <2>2. row \in Rows /\ row # NoRow
    BY <2>1, PredictionAssumption DEF Rows, NoRow
  <2>3. predictions' = [predictions EXCEPT ![g][m][t] = row]
    BY <1>3 DEF RowAges
  <2> HIDE DEF row
  <2>4. /\ predictions' \in [Games -> [Markets -> [Times -> Rows]]]
        /\ \A h \in Games, n \in Markets, u \in Times :
             (predictions[h][n][u] = NoRow) = (predictions'[h][n][u] = NoRow)
    BY <2>1, <2>2, <2>3 DEF IInv, PredictionTypeOK
  <2>5. PredictionTypeOK'
    BY <1>3, <2>4 DEF RowAges, IInv, PredictionTypeOK
  <2> QED
    BY <1>3, <2>4, <2>5, RowsStay DEF RowAges, IInv
<1> QED
  BY <1>1, <1>2, <1>3

(* The steps of a run before it has a moneyline to write, and its ends.    *)
LEMMA ReadingInv ==
  ASSUME IInv, NEW r \in Runners,
         \/ ListGames(r) \/ FilterRecent(r) \/ MoneylineFails(r) \/ NoLine(r)
         \/ TotalsFails(r) \/ FinishRun(r) \/ EndRun(r)
  PROVE  IInv'
<1>0. run[r] \in Runs
  BY DEF IInv, PredictionTypeOK
<1>1. CASE ListGames(r)
  <2> DEFINE s == [Idle EXCEPT !.at = "listed", !.todo = {<<g, commence[g]>> : g \in Games}]
  <2>a. {<<g, commence[g]>> : g \in Games} \subseteq Games \X Times
    BY DEF IInv, PredictionTypeOK
  <2>1. WellFormed(s) /\ s.at = "listed"
    BY <2>a DEF WellFormed, Idle, Runs, Odds
  <2> QED
    BY <1>1, <2>1, RunUpdate DEF ListGames
<1>2. CASE FilterRecent(r)
  <2> DEFINE s == [run[r] EXCEPT !.at = "next", !.todo = {e \in run[r].todo : ~HasRecent(e[1])}]
  <2>1. WellFormed(s) /\ s.at = "next"
    BY <1>0 DEF WellFormed, Runs
  <2>2. run' = [run EXCEPT ![r] = s]
    BY <1>2 DEF FilterRecent
  <2> HIDE DEF s
  <2> QED
    BY <1>2, <2>1, <2>2, RunUpdate DEF FilterRecent
<1>3. CASE GoOn(r) /\ UNCHANGED <<commence, odds, predictions>>
  <2> DEFINE s == [Idle EXCEPT !.at = "next", !.todo = run[r].todo]
  <2>1. WellFormed(s) /\ s.at = "next"
    BY <1>0 DEF WellFormed, Idle, Runs, Odds
  <2> QED
    BY <1>3, <2>1, RunUpdate DEF GoOn
<1>4. CASE FinishRun(r) \/ EndRun(r)
  <2>1. WellFormed(Idle) /\ Idle.at = "idle"
    BY DEF WellFormed, Idle, Runs, Odds
  <2> QED
    BY <1>4, <2>1, RunUpdate DEF FinishRun, EndRun
<1> QED
  BY <1>1, <1>2, <1>3, <1>4 DEF MoneylineFails, NoLine, TotalsFails

(* The steps of a run on one game. *)
LEMMA PredictingInv ==
  ASSUME IInv, NEW r \in Runners,
         \/ \E e \in run[r].todo : ReadMoneyline(r, e)
         \/ UpsertMoneyline(r) \/ ReadLine(r) \/ UpsertTotals(r)
  PROVE  IInv'
<1>0. run[r] \in Runs
  BY DEF IInv, PredictionTypeOK
<1>1. ASSUME NEW e \in run[r].todo, ReadMoneyline(r, e)
      PROVE  IInv'
  <2>0. e[1] \in Games /\ e[2] \in Times /\ run[r].todo \ {e} \in SUBSET (Games \X Times)
    BY <1>0 DEF Runs
  <2>1. CASE odds[e[1]]["h2h"] = None
    <3> DEFINE s == [run[r] EXCEPT !.todo = run[r].todo \ {e}]
    <3>1. WellFormed(s) /\ s.at = "next"
      BY <1>0, <1>1, <2>0 DEF WellFormed, Runs, ReadMoneyline
    <3>2. run' = [run EXCEPT ![r] = s]
      BY <1>1, <2>1 DEF ReadMoneyline
    <3> HIDE DEF s
    <3> QED
      BY <1>1, <3>1, <3>2, RunUpdate DEF ReadMoneyline
  <2>2. CASE odds[e[1]]["h2h"] # None
    <3> DEFINE s == [at |-> "moneyline", todo |-> run[r].todo \ {e}, game |-> e[1],
                     time |-> e[2], basis |-> odds[e[1]]["h2h"]]
    <3>1. odds[e[1]]["h2h"] \in Moneylines
      BY <2>0, <2>2 DEF IInv, PredictionTypeOK, Basis, Markets
    <3>2. WellFormed(s) /\ s.at = "moneyline"
      BY <2>0, <3>1 DEF WellFormed, Runs, Odds
    <3>3. run' = [run EXCEPT ![r] = s]
      BY <1>1, <2>2 DEF ReadMoneyline
    <3> HIDE DEF s
    <3> QED
      BY <1>1, <3>2, <3>3, RunUpdate DEF ReadMoneyline
  <2> QED
    BY <2>1, <2>2
<1>2. CASE UpsertMoneyline(r)
  <2> DEFINE s == [run[r] EXCEPT !.at = "line", !.basis = None]
  <2>1. run[r].game \in Games /\ run[r].time \in Times /\ run[r].basis \in Moneylines
    BY <1>2 DEF UpsertMoneyline, IInv, PredictionTypeOK
  <2>2. /\ WellFormed(s)
        /\ s.game = run[r].game /\ s.time = run[r].time
    BY <1>0, <2>1 DEF WellFormed, Runs, Odds
  <2>3. run' = [run EXCEPT ![r] = s]
    BY <1>2 DEF UpsertMoneyline
  <2>4. "h2h" \in Markets
    BY DEF Markets
  <2> HIDE DEF s
  <2> QED
    BY <1>2, <2>1, <2>2, <2>3, <2>4, WriteUpdate DEF UpsertMoneyline
<1>3. CASE ReadLine(r)
  <2> DEFINE s == [run[r] EXCEPT !.at = "totals", !.basis = odds[run[r].game]["totals"]]
  <2>1. run[r].game \in Games /\ run[r].time \in Times
    BY <1>3 DEF ReadLine, IInv, PredictionTypeOK
  <2>2. odds[run[r].game]["totals"] \in Lines
    BY <1>3, <2>1 DEF ReadLine, IInv, PredictionTypeOK, Basis, Markets
  <2>3. WellFormed(s) /\ s.game = run[r].game /\ s.time = run[r].time
    BY <1>0, <2>1, <2>2 DEF WellFormed, Runs, Odds
  <2>4. predictions[run[r].game]["h2h"][run[r].time] # NoRow
    BY <1>3 DEF ReadLine, IInv, PastMoneyline
  <2>5. run' = [run EXCEPT ![r] = s]
    BY <1>3 DEF ReadLine
  <2> HIDE DEF s
  <2> QED
    BY <1>3, <2>3, <2>4, <2>5, RunUpdate DEF ReadLine
<1>4. CASE UpsertTotals(r)
  <2> DEFINE s == [Idle EXCEPT !.at = "next", !.todo = run[r].todo]
  <2>1. run[r].game \in Games /\ run[r].time \in Times /\ run[r].basis \in Lines
    BY <1>4 DEF UpsertTotals, IInv, PredictionTypeOK
  <2>2. WellFormed(s) /\ s.at = "next"
    BY <1>0 DEF WellFormed, Idle, Runs, Odds
  <2>3. predictions[run[r].game]["h2h"][run[r].time] # NoRow
    BY <1>4 DEF UpsertTotals, IInv, PastMoneyline
  <2>4. "totals" \in Markets /\ run' = [run EXCEPT ![r] = s]
    BY <1>4 DEF UpsertTotals, GoOn, Markets
  <2> HIDE DEF s
  <2> QED
    BY <1>4, <2>1, <2>2, <2>3, <2>4, WriteUpdate DEF UpsertTotals
<1> QED
  BY <1>1, <1>2, <1>3, <1>4

(* A step that changes nothing keeps the invariant.                        *)
LEMMA StutterInv == IInv /\ UNCHANGED vars => IInv'
<1> SUFFICES ASSUME IInv, UNCHANGED vars PROVE IInv'
  OBVIOUS
<1>1. PredictionTypeOK'
  BY DEF vars, IInv, PredictionTypeOK
<1>2. PastMoneyline' /\ TotalsBesideMoneyline'
  BY DEF vars, IInv, PastMoneyline, TotalsBesideMoneyline, Written
<1> QED
  BY <1>1, <1>2 DEF IInv

(* The invariant is inductive. *)
LEMMA StepInv == IInv /\ [Next]_vars => IInv'
<1> SUFFICES ASSUME IInv, [Next]_vars PROVE IInv'
  OBVIOUS
<1>0. Times # {} /\ "h2h" \in Markets
  BY PredictionAssumption DEF Markets
<1>1. ASSUME NEW g \in Games, NEW m \in Markets, NEW basis \in Basis(m), OddsMove(g, m, basis)
      PROVE  IInv'
  BY <1>0, <1>1, EnvironmentInv
<1>2. ASSUME NEW g \in Games, NEW t \in Times, Reschedule(g, t)
      PROVE  IInv'
  BY <1>0, <1>2, EnvironmentInv
<1>3. ASSUME NEW g \in Games, NEW m \in Markets, NEW t \in Times, RowAges(g, m, t)
      PROVE  IInv'
  BY <1>3, EnvironmentInv
<1>4. ASSUME NEW r \in Runners, RunStep(r)
      PROVE  IInv'
  BY <1>4, ReadingInv, PredictingInv DEF RunStep
<1>5. CASE UNCHANGED vars
  BY <1>5, StutterInv
<1> QED
  BY <1>1, <1>2, <1>3, <1>4, <1>5 DEF Next

-----------------------------------------------------------------------------
(* PredictUpcomingGames never goes on with a game, a time or odds that it  *)
(* does not have.                                                          *)
THEOREM TypeCorrect == Spec => []PredictionTypeOK
<1>1. IInv => PredictionTypeOK
  BY DEF IInv
<1> QED
  BY <1>1, InitInv, StepInv, PTL DEF Spec

(* PredictGameFull: a totals row always has the moneyline row of its game  *)
(* and event time beside it, however many runs overlap and fail.           *)
THEOREM MoneylineFirst == Spec => []TotalsBesideMoneyline
<1>1. IInv => TotalsBesideMoneyline
  BY DEF IInv
<1> QED
  BY <1>1, InitInv, StepInv, PTL DEF Spec

=============================================================================
