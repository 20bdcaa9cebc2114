----------------------------- MODULE Calibration -----------------------------
(***************************************************************************)
(* The monitoring half of internal/decision, as operators: grading of a    *)
(* recommendation, its closing line value, the calibration report, the     *)
(* drift between two reports and the rolling windows.                      *)
(*                                                                         *)
(* Probabilities and CLV are whole percents, thresholds are thousandths,   *)
(* days are integers, and a sum or a rate of the code is kept as its       *)
(* integer numerator, so that rates are compared by cross-multiplication.  *)
(* A value that may be nil is a sequence of at most one element.           *)
(*                                                                         *)
(* A row of a report is [id, rank, expected, outcome, clv].                *)
(***************************************************************************)
EXTENDS Integers, Listings

CONSTANT Defaults    \* what an omitted guardrail or threshold stands for

-----------------------------------------------------------------------------
\* Faulty variant: the home probability, whatever the side.
HomeChance(side, home) == home

(* sideProbability: the code has no side but these two, an error else.     *)
Sides == {"home", "away"}
SideChance(side, home) == IF side = "home" THEN home ELSE 100 - home

(* compareScores and GradeRecommendationOutcome; scores is <<home, away>>. *)
CompareScores(for, against) == IF for > against THEN "win" ELSE IF for < against THEN "loss" ELSE "push"

GradeOutcome(market, side, scores) ==
  IF scores = <<>> \/ market # "h2h" THEN "unknown"
  ELSE IF side = "home" THEN CompareScores(scores[1], scores[2]) ELSE CompareScores(scores[2], scores[1])

IsSettledResult(result) == result \in {"win", "loss", "push"}

(* ComputeRecommendationPerformance for a side it accepts.                 *)
ComputePerformance(market, side, home, closing, scores) ==
  LET outcome == GradeOutcome(market, side, scores) IN
  IF closing = <<>> THEN [status |-> "close_unavailable", clv |-> <<>>, result |-> "unknown"]
  ELSE [status |-> IF IsSettledResult(outcome) THEN "settled" ELSE "pending_outcome",
        clv |-> <<closing[1] - SideChance(side, home)>>,
        result |-> outcome]

-----------------------------------------------------------------------------
SumAt(f(_), rows, places) == SumFunctionOnSet([i \in places |-> f(rows[i])], places)
Sum(f(_), rows) == SumAt(f, rows, DOMAIN rows)
Magnitude(x) == IF x < 0 THEN -x ELSE x

\* Faulty variant: no tie-break behind the rank.
ReportOrderByRank(r, s) == r.rank > s.rank

(* Rows in the order of the report: rank first, then the row's id.         *)
ReportOrder(r, s) == r.rank > s.rank \/ (r.rank = s.rank /\ r.id < s.id)
Ordered(rows) == StableSort(rows, ReportOrder)

\* Faulty variant: buckets of the rounded-down size, the rest in the last one.
BucketOfFixedSize(i, n, bucketCount) ==
  LET size == IF n \div bucketCount = 0 THEN 1 ELSE n \div bucketCount
      b == (i - 1) \div size
  IN  IF b >= bucketCount THEN bucketCount - 1 ELSE b

(* The bucket, from 0, of the i-th of n ordered rows.                      *)
BucketOf(i, n, bucketCount) == ((i - 1) * bucketCount) \div n

\* Faulty variant: pushes and ungraded rows count as well.
EveryRow(rows, places) == places

SettledRows(rows, places) == {i \in places : rows[i].outcome \in {"win", "loss"}}

(* What the accumulators hold for the rows at some places: settled are the *)
(* wins and losses, and expected chances, Brier terms and CLV are summed   *)
(* over them.                                                              *)
Won(r) == IF r.outcome = "win" THEN 100 ELSE 0
Tally(rows, places) ==
  LET settled == SettledRows(rows, places)
      withCLV == {i \in settled : rows[i].clv # <<>>}
  IN  [count |-> Cardinality(places), settled |-> Cardinality(settled),
       observed |-> SumAt(Won, rows, settled),
       expected |-> SumAt(LAMBDA r : r.expected, rows, settled),
       brier |-> SumAt(LAMBDA r : (r.expected - Won(r)) * (r.expected - Won(r)), rows, settled),
       clvCount |-> Cardinality(withCLV), clv |-> SumAt(LAMBDA r : r.clv[1], rows, withCLV),
       ranks |-> {rows[i].rank : i \in places}]

(* ComputeCalibrationReport: the rows in order, cut into buckets.  The ECE *)
(* is ece / (100 * settled), a bucket's weight and its rate having the     *)
(* same denominator.                                                       *)
ReportOf(ordered, bucketCount) ==
  LET n == Len(ordered)
      buckets == [b \in 1..bucketCount |-> Tally(ordered, {i \in 1..n : BucketOf(i, n, bucketCount) = b - 1})]
  IN  [overall |-> Tally(ordered, 1..n),
       ece |-> Sum(LAMBDA t : Magnitude(t.observed - t.expected), buckets),
       buckets |-> buckets]

CalibrationReport(rows, bucketCount) == ReportOf(Ordered(rows), bucketCount)

-----------------------------------------------------------------------------
(* resolveCalibrationDriftGuardrails and -Thresholds: zero is the default. *)
OrDefault(given, default) == [f \in DOMAIN default |-> IF given[f] = 0 THEN default[f] ELSE given[f]]
ValidThresholds(t) ==
  /\ \A f \in DOMAIN t : t[f] \in 0..1000
  /\ t.warnECE <= t.criticalECE /\ t.warnBrier <= t.criticalBrier

\* Faulty variant: only a rise of the error counts.
ReachesUpwards(a, n, b, m, scale, t) == 1000 * (a * m - b * n) >= t * scale * n * m

(* |a/n - b/m| >= t/1000, the quotients being in units of 1/scale.         *)
Reaches(a, n, b, m, scale, t) == 1000 * Magnitude(a * m - b * n) >= t * scale * n * m

TooFew(report, guardrails) ==
  \/ report.overall.settled < guardrails.overall
  \/ \E b \in DOMAIN report.buckets : report.buckets[b].settled < guardrails.perBucket

(* EvaluateCalibrationDrift.                                               *)
DriftLevel(current, baseline, guardrails, thresholds) ==
  LET t == OrDefault(thresholds, Defaults.thresholds)
      g == OrDefault(guardrails, Defaults.guardrails)
      n == current.overall.settled
      m == baseline.overall.settled
      ECE(limit) == Reaches(current.ece, n, baseline.ece, m, 100, limit)
      Brier(limit) == Reaches(current.overall.brier, n, baseline.overall.brier, m, 10000, limit)
  IN  CASE ~ValidThresholds(t) -> "error"
        [] ValidThresholds(t) /\ (TooFew(current, g) \/ TooFew(baseline, g)) -> "insufficient_sample"
        [] OTHER -> IF ECE(t.criticalECE) \/ Brier(t.criticalBrier) THEN "critical"
                    ELSE IF ECE(t.warnECE) \/ Brier(t.warnBrier) THEN "warn" ELSE "ok"

(* BuildRollingCalibrationDriftWindows: the last step ends at the anchor.  *)
RollingWindows(anchor, days, steps) ==
  [i \in 1..steps |->
     LET currentTo == anchor - (steps - i)
         currentFrom == currentTo - (days - 1)
     IN  [current |-> <<currentFrom, currentTo>>,
          baseline |-> <<currentFrom - days, currentFrom - 1>>]]

=============================================================================
