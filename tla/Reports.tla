------------------------------- MODULE Reports -------------------------------
(***************************************************************************)
(* Calibration reports of internal/server: the rows of a request are       *)
(* loaded one after another, and what internal/decision makes of them is   *)
(* compared with what a report and the drift between two should be.        *)
(***************************************************************************)
EXTENDS Calibration

CONSTANTS MaxRows,       \* bound: rows of one request
          RowUniverse    \* the rows there may be

AllRows == [id : Int, rank : Int, expected : 0..100, outcome : {"win", "loss", "push", "unknown"}, clv : Seq(Int)]

(* An id names one row: it is the snapshot's primary key.  By default a    *)
(* verdict asks for settled rows, and a critical drift is at least twice   *)
(* the one that warns.                                                     *)
ASSUME ReportsAssumption ==
  /\ MaxRows \in Nat
  /\ RowUniverse \subseteq AllRows
  /\ \A r, s \in RowUniverse : r.id = s.id => r = s
  /\ Defaults.thresholds \in [{"warnECE", "criticalECE", "warnBrier", "criticalBrier"} -> 0..1000]
  /\ 2 * Defaults.thresholds.warnECE <= Defaults.thresholds.criticalECE
  /\ 2 * Defaults.thresholds.warnBrier <= Defaults.thresholds.criticalBrier
  /\ Defaults.guardrails \in [{"overall", "perBucket"} -> Nat \ {0}]

VARIABLE calibrationRows   \* the rows of a calibration request

ReportInit == calibrationRows = <<>>

(* One more row of the report; a snapshot is listed once. *)
AddRow(r) == /\ Len(calibrationRows) < MaxRows
             /\ r \notin ToSet(calibrationRows)
             /\ calibrationRows' = Append(calibrationRows, r)

ReportNext == \E r \in RowUniverse : AddRow(r)

ReportSpec == ReportInit /\ [][ReportNext]_calibrationRows

-----------------------------------------------------------------------------
(* The report does not depend on the order in which rows are listed: ties  *)
(* in rank, which decide the bucket of a row, are broken by its id.  (Any  *)
(* two neighbours may be exchanged, and so any two rows.)                  *)
Swapped(i) == [calibrationRows EXCEPT ![i] = calibrationRows[i + 1], ![i + 1] = calibrationRows[i]]
ReportOrderFree ==
  \A i \in 1..(Len(calibrationRows) - 1), n \in 1..3 : CalibrationReport(Swapped(i), n) = CalibrationReport(calibrationRows, n)

(* The buckets split the ranking: in rank order, no row in two or in none, *)
(* their sizes at most one apart; and what they miss by on their own is at *)
(* least what the whole report misses by, so no error cancels out.         *)
BucketsSplitTheRanking ==
  \A n \in 1..3 : calibrationRows # <<>> =>
    LET report == CalibrationReport(calibrationRows, n)
        whole == report.overall
        bucket == report.buckets
    IN  /\ \A field \in {"count", "settled", "observed", "expected", "brier", "clv"} :
             Sum(LAMBDA t : t[field], bucket) = whole[field]
        /\ \A a, b \in 1..n : bucket[a].count - bucket[b].count <= 1
        /\ \A a, b \in 1..n : a < b => \A x \in bucket[a].ranks, y \in bucket[b].ranks : x >= y
        /\ report.ece >= Magnitude(whole.observed - whole.expected)

(* Drift is a distance: it does not matter which window is the baseline,   *)
(* so a model that got better alerts like one that got worse; and where a  *)
(* critical threshold is twice the warning, two calm steps do not make a   *)
(* critical one.                                                           *)
Level(a, b) == DriftLevel(CalibrationReport(a, 1), CalibrationReport(b, 1),
                          Defaults.guardrails, Defaults.thresholds)
DriftIsADistance ==
  calibrationRows # <<>> => \A i, j \in 0..Len(calibrationRows) : i <= j =>
    LET first == SubSeq(calibrationRows, 1, i)
        middle == SubSeq(calibrationRows, i + 1, j)
        last == SubSeq(calibrationRows, j + 1, Len(calibrationRows))
    IN  /\ Level(first, last) = Level(last, first)
        /\ Level(first, middle) = "ok" /\ Level(middle, last) = "ok" => Level(first, last) # "critical"

(* The parts of a report add up to the whole, and reports compare as       *)
(* distances do.                                                           *)
ReportsAddUp == BucketsSplitTheRanking /\ DriftIsADistance

=============================================================================
