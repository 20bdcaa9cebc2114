------------------------------ MODULE Outcomes ------------------------------
(***************************************************************************)
(* The monitoring pages of internal/server over recommendation_outcomes:   *)
(* every page evaluates the snapshots it lists against the closing line,   *)
(* appends what it found to the outcome log row by row, and answers from   *)
(* it; the alert pages then append their verdicts to the alert runs.       *)
(* Several requests run at once and any statement may fail.                *)
(*                                                                         *)
(* Snapshots are there from the start; odds keep arriving until the event. *)
(* A line's time is its position among the lines of its snapshot.          *)
(***************************************************************************)
EXTENDS Calibration

CONSTANTS Readers,        \* requests in flight
          Requests,       \* what they may ask for
          Advice,         \* Advice[id]: [sport, game, day, market, side, home, rank, minute, model]
          FinalScore,     \* FinalScore[id] = <<home, away>>
          Quotes,         \* Quotes[id]: what polls may bring for it, as [close, scores]
          MaxLines,       \* bound: MaxLines[id] lines of its book, side and market
          MaxReports      \* bound: requests of one reader

Snapshots == DOMAIN Advice

AllAdvice == [sport : STRING, game : Int, day : Int, market : {"h2h", "totals"},
              side : {"home", "away", "over", "under"}, home : 0..100, rank : Int, minute : Int, model : Int]
AllLines == [close : Int, scores : {"none", "final", "broken"}]

(* The handlers' checks of the parameters leave only positive counts. *)
Counts == Nat \ {0}
AllRequests == [kind : {"performance", "models", "point", "rolling"}, sport : STRING, limit : Counts,
                current : Int \X Int, baseline : Int \X Int, buckets : Counts,
                guardrails : [overall : Nat, perBucket : Nat],
                thresholds : [warnECE : Int, criticalECE : Int, warnBrier : Int, criticalBrier : Int],
                anchor : Int, days : Counts, steps : Counts]

(* A game is played once, whatever has been recommended on it. *)
ASSUME OutcomesAssumption ==
  /\ IsFiniteSet(Readers)
  /\ Advice \in Seq(AllAdvice)
  /\ FinalScore \in [Snapshots -> Int \X Int]
  /\ \A s, t \in Snapshots : Advice[s].game = Advice[t].game => FinalScore[s] = FinalScore[t]
  /\ \A s \in Snapshots : Quotes[s] \subseteq AllLines
  /\ Requests \subseteq AllRequests
  /\ MaxLines \in [Snapshots -> Nat] /\ MaxReports \in Nat

VARIABLES lines,      \* lines[id]: its odds_history rows before the event, oldest first
          outcomes,   \* recommendation_outcomes, oldest first
          alertRuns,  \* recommendation_calibration_alert_runs, oldest first
          reader      \* reader[r]: the request r works on

outVars == <<lines, outcomes, alertRuns, reader>>

NoRequest == [at |-> "idle", served |-> 0, req |-> <<>>, todo |-> <<>>, write |-> FALSE,
         loads |-> <<>>, steps |-> 0]

OutInit == /\ lines = [s \in Snapshots |-> <<>>]
           /\ outcomes = <<>> /\ alertRuns = <<>>
           /\ reader = [r \in Readers |-> NoRequest]

-----------------------------------------------------------------------------
(* The poller appends a price of the recommended side; what the provider   *)
(* sent with it may hold the final score, or one that does not parse.      *)
CaptureLine(s, quote) ==
  /\ Len(lines[s]) < MaxLines[s]
  /\ lines' = [lines EXCEPT ![s] = Append(@, quote)]
  /\ UNCHANGED <<outcomes, alertRuns, reader>>

-----------------------------------------------------------------------------
(* ListRecommendationPerformanceSnapshots: the snapshots of a sport and of *)
(* event days from..to, newest advice first, each with its closing line    *)
(* and its latest outcome.                                                 *)
Newest(s) == IF s = <<>> THEN <<>> ELSE <<Last(s)>>
OutcomesOf(s) == Where(outcomes, {i \in DOMAIN outcomes : outcomes[i].snapshot = s})

ListedBefore(s, t) ==
  LET a == Advice[s]
      b == Advice[t]
  IN  \/ a.minute > b.minute
      \/ a.minute = b.minute /\ (a.rank > b.rank \/ (a.rank = b.rank /\ s < t))

Wanted(req, window) ==
  {s \in Snapshots : req.sport \in {"all", Advice[s].sport} /\ Advice[s].day \in window[1]..window[2]}

Page(req, window) ==
  LET all == Arranged(Wanted(req, window), ListedBefore)
  IN  IF req.kind = "models" \/ Len(all) < req.limit THEN all ELSE SubSeq(all, 1, req.limit)

Listing(req, window) ==
  [i \in DOMAIN Page(req, window) |->
     LET s == Page(req, window)[i]
     IN  [snapshot |-> s, at |-> Len(lines[s]), line |-> Newest(lines[s]), latest |-> Newest(OutcomesOf(s))]]

-----------------------------------------------------------------------------
(* buildRecommendationPerformanceRow.  extractFinalScores first ...        *)
ScoresOf(row) == IF row.line # <<>> /\ row.line[1].scores = "final" THEN FinalScore[row.snapshot] ELSE <<>>

\* Faulty variant: what was persisted is not looked at.
RecallNothing(perf, row) == perf

(* ... then what the latest outcome still knows ...                        *)
Recall(perf, row) ==
  IF row.latest = <<>> THEN perf
  ELSE LET kept == row.latest[1]
           result == IF perf.result = "unknown" THEN kept.result ELSE perf.result
           status == IF perf.result = "unknown" /\ IsSettledResult(result) THEN "settled" ELSE perf.status
       IN  [clv |-> IF perf.clv = <<>> THEN kept.clv ELSE perf.clv,
            result |-> result,
            status |-> IF status = "close_unavailable" THEN kept.status ELSE status]

\* Faulty variant: the result is not looked at.
StatusByClose(perf) == IF perf.clv = <<>> THEN "close_unavailable" ELSE "pending_outcome"

(* ... and normalizePerformanceStatus.                                     *)
NormalStatus(perf) ==
  IF perf.status = "settled" /\ IsSettledResult(perf.result) THEN "settled"
  ELSE IF perf.clv = <<>> THEN "close_unavailable"
  ELSE IF IsSettledResult(perf.result) THEN "settled" ELSE "pending_outcome"

\* Faulty variant: any side but home is away.
AnySide(row) == row # <<>>

Gradable(row) == Advice[row.snapshot].side \in Sides

Evaluate(row) ==
  LET a == Advice[row.snapshot]
      kept == row.line = <<>> /\ row.latest # <<>> /\ row.latest[1].close # <<>>
      close == IF row.line # <<>> THEN <<row.line[1].close>> ELSE IF kept THEN row.latest[1].close ELSE <<>>
      perf == Recall(ComputePerformance(a.market, a.side, a.home, close, ScoresOf(row)), row)
      status == NormalStatus(perf)
  IN  [snapshot |-> row.snapshot, status |-> status, close |-> close, clv |-> perf.clv,
       result |-> perf.result,
       settledAt |-> IF status # "settled" THEN <<>>
                     ELSE IF row.line # <<>> THEN <<row.at>>
                     ELSE IF row.latest # <<>> THEN row.latest[1].settledAt ELSE <<>>,
       sources |-> <<IF row.line # <<>> THEN "odds_history" ELSE IF kept THEN "persisted" ELSE "unavailable",
                     IF ScoresOf(row) # <<>> THEN "scores"
                     ELSE IF IsSettledResult(perf.result) THEN "persisted" ELSE "unavailable",
                     row.line # <<>> /\ row.line[1].scores = "broken">>]

-----------------------------------------------------------------------------
(* The windows a request loads, one listing each: one for the performance  *)
(* and calibration pages, the current and the baseline one for an alert,   *)
(* and for rolling mode both of them for every step.                       *)
Steps(req) == CASE req.kind = "point" -> <<[current |-> req.current, baseline |-> req.baseline]>>
                [] req.kind = "rolling" -> RollingWindows(req.anchor, req.days, req.steps)
                [] OTHER -> <<>>
Loads(req) == IF Steps(req) = <<>> THEN <<req.current>>
              ELSE [i \in 1..(2 * Len(Steps(req))) |->
                      IF i % 2 = 1 THEN Steps(req)[(i + 1) \div 2].current ELSE Steps(req)[i \div 2].baseline]

(* A request that passes the handlers' checks of its parameters.           *)
StartReport(r, req) ==
  /\ reader[r].at = "idle" /\ reader[r].served < MaxReports
  /\ ValidThresholds(req.thresholds)
  /\ reader' = [reader EXCEPT ![r] = [NoRequest EXCEPT !.at = "list", !.served = reader[r].served, !.req = req]]
  /\ UNCHANGED <<lines, outcomes, alertRuns>>

(* What follows a row: the next one, the next listing, or the answer.      *)
After(work) == IF work.todo # <<>> THEN "row"
               ELSE IF Len(work.loads) < Len(Loads(work.req)) THEN "list" ELSE "answer"
Resume(work) == [work EXCEPT !.at = After(work)]

ListSnapshots(r) ==
  /\ reader[r].at = "list"
  /\ LET work == reader[r] IN
     reader' = [reader EXCEPT ![r] = Resume([work EXCEPT
                  !.todo = Listing(work.req, Loads(work.req)[Len(work.loads) + 1]),
                  !.loads = Append(work.loads, <<>>)])]
  /\ UNCHANGED <<lines, outcomes, alertRuns>>

\* Faulty variant: only the latest outcome is compared.
IsNewestRow(o) == Newest(OutcomesOf(o.snapshot)) # <<o>>

\* Faulty variant: only the status is compared.
IsNewStatus(o) == \A i \in DOMAIN outcomes : <<outcomes[i].snapshot, outcomes[i].status>> # <<o.snapshot, o.status>>

(* InsertRecommendationOutcomeIfChanged looks for an equal row of the      *)
(* snapshot in what is committed when it starts ...                        *)
IsNewRow(o) == \A i \in DOMAIN outcomes : outcomes[i] # o

CheckRow(r) ==
  /\ reader[r].at = "row" /\ Gradable(Head(reader[r].todo))
  /\ reader' = [reader EXCEPT ![r].at = "insert", ![r].write = IsNewRow(Evaluate(Head(reader[r].todo)))]
  /\ UNCHANGED <<lines, outcomes, alertRuns>>

(* ... and inserts: no unique index stands behind it.                      *)
InsertRow(r) ==
  /\ reader[r].at = "insert"
  /\ LET work == reader[r]
         o == Evaluate(Head(work.todo))
     IN  /\ outcomes' = IF work.write THEN Append(outcomes, o) ELSE outcomes
         /\ reader' = [reader EXCEPT ![r] = Resume([work EXCEPT
                         !.todo = Tail(work.todo), !.write = FALSE,
                         !.loads = Append(Front(work.loads), Append(Last(work.loads), o))])]
  /\ UNCHANGED <<lines, alertRuns>>

RowsOf(load) == [i \in DOMAIN load |->
  LET o == load[i]
      a == Advice[o.snapshot]
  IN  [id |-> o.snapshot, rank |-> a.rank, expected |-> SideChance(a.side, a.home), outcome |-> o.result, clv |-> o.clv]]

(* The request ends in an error: a side it cannot evaluate, thresholds     *)
(* that the evaluation refuses, or a statement that fails.                 *)
Verdicts(work) ==
  LET Report(load) == CalibrationReport(RowsOf(load), work.req.buckets)
  IN  [i \in DOMAIN Steps(work.req) |->
         LET current == Report(work.loads[2 * i - 1])
             baseline == Report(work.loads[2 * i])
         IN  [level |-> DriftLevel(current, baseline, work.req.guardrails, work.req.thresholds),
              settled |-> <<current.overall.settled, baseline.overall.settled>>]]

Refused(work) == \E i \in DOMAIN Verdicts(work) : Verdicts(work)[i].level = "error"

FailReport(r) ==
  /\ \/ reader[r].at \in {"list", "row", "insert", "persist"}
     \/ reader[r].at = "answer" /\ Refused(reader[r])
  /\ reader' = [reader EXCEPT ![r] = [NoRequest EXCEPT !.at = "failed", !.served = reader[r].served + 1, !.req = reader[r].req]]
  /\ UNCHANGED <<lines, outcomes, alertRuns>>

\* Faulty variant: the verdicts are answered and not kept.
AnswerOnly(r) ==
  /\ reader[r].at = "answer" /\ ~Refused(reader[r])
  /\ reader' = [reader EXCEPT ![r].at = "served", ![r].served = @ + 1]
  /\ UNCHANGED <<lines, outcomes, alertRuns>>

(* The performance and calibration pages answer; an alert is evaluated and *)
(* its steps are persisted first, a row each ...                           *)
AnswerReport(r) ==
  /\ reader[r].at = "answer" /\ ~Refused(reader[r])
  /\ reader' = [reader EXCEPT ![r].at = IF Steps(reader[r].req) = <<>> THEN "served" ELSE "persist",
                              ![r].served = IF Steps(reader[r].req) = <<>> THEN @ + 1 ELSE @]
  /\ UNCHANGED <<lines, outcomes, alertRuns>>

(* ... with the thresholds the request named.  RunGroup stands for the hash *)
(* that ties the rows of one answer, and of its repetitions, together.      *)
RunGroup(req) == [request |-> req, first |-> Head(Steps(req)).current, last |-> Last(Steps(req)).current]

PersistStep(r) ==
  /\ reader[r].at = "persist"
  /\ LET work == reader[r]
         step == work.steps + 1
         last == step = Len(Steps(work.req))
     IN  /\ alertRuns' = Append(alertRuns,
              [group |-> RunGroup(work.req), step |-> step - 1, steps |-> Len(Steps(work.req)),
               window |-> Steps(work.req)[step], verdict |-> Verdicts(work)[step], by |-> <<r, work.served>>])
         /\ reader' = [reader EXCEPT ![r].steps = step, ![r].at = IF last THEN "served" ELSE "persist",
                                     ![r].served = IF last THEN @ + 1 ELSE @]
  /\ UNCHANGED <<lines, outcomes>>

(* What the models page answers: a row per model, the best settled first,  *)
(* cut at the request's limit.  (No limit applies to its listing.)         *)
ModelRecord(model, load) ==
  LET own == Where(load, {i \in DOMAIN load : Advice[load[i].snapshot].model = model})
      settled == Where(own, {i \in DOMAIN own : IsSettledResult(own[i].result)})
      withCLV == Where(own, {i \in DOMAIN own : own[i].clv # <<>>})
  IN  [model |-> model, count |-> Len(own), settled |-> Len(settled),
       clvCount |-> Len(withCLV), clv |-> Sum(LAMBDA o : o.clv[1], withCLV)]

\* An average CLV of no CLV at all is zero.
BetterCLV(a, b) == LET n(x) == IF x.clvCount = 0 THEN 1 ELSE x.clvCount
                   IN  a.clv * n(b) > b.clv * n(a)

\* Faulty variant: the groups with the most snapshots first.
MoreSnapshots(a, b) == a.count > b.count \/ (a.count = b.count /\ a.model < b.model)

RecordBefore(a, b) ==
  \/ a.settled > b.settled
  \/ a.settled = b.settled /\ a.count > b.count
  \/ a.settled = b.settled /\ a.count = b.count
     /\ (BetterCLV(a, b) \/ (~BetterCLV(b, a) /\ a.model < b.model))

ModelRows(work) ==
  LET load == work.loads[1]
      models == {Advice[o.snapshot].model : o \in ToSet(load)}
      all == Arranged({ModelRecord(model, load) : model \in models}, RecordBefore)
  IN  SubSeq(all, 1, IF Len(all) < work.req.limit THEN Len(all) ELSE work.req.limit)

(* The alert history: newest row first.                                    *)
AlertHistory(limit) ==
  LET newestFirst == Reverse(alertRuns)
  IN  SubSeq(newestFirst, 1, IF Len(alertRuns) < limit THEN Len(alertRuns) ELSE limit)

CloseReport(r) ==
  /\ reader[r].at \in {"served", "failed"}
  /\ reader' = [reader EXCEPT ![r] = [NoRequest EXCEPT !.served = reader[r].served]]
  /\ UNCHANGED <<lines, outcomes, alertRuns>>

OutNext ==
  \/ \E s \in Snapshots : \E quote \in Quotes[s] : CaptureLine(s, quote)
  \/ \E r \in Readers : \/ \E req \in Requests : StartReport(r, req)
                        \/ ListSnapshots(r) \/ CheckRow(r) \/ InsertRow(r) \/ FailReport(r)
                        \/ AnswerReport(r) \/ PersistStep(r) \/ CloseReport(r)

OutSpec == OutInit /\ [][OutNext]_outVars

-----------------------------------------------------------------------------
OutTypeOK ==
  /\ \A s \in Snapshots : Len(lines[s]) <= MaxLines[s]
  /\ \A i \in DOMAIN outcomes :
       /\ outcomes[i].snapshot \in Snapshots
       /\ outcomes[i].status \in {"close_unavailable", "pending_outcome", "settled"}
       /\ outcomes[i].status = "settled" <=> IsSettledResult(outcomes[i].result)
  /\ \A r \in Readers : reader[r].served \in 0..MaxReports

(* Every row a page shows is in the log, whatever other pages append in    *)
(* between the look at the log and the insert.                             *)
ShownIsLogged ==
  \A r \in Readers : \A o \in UNION {ToSet(load) : load \in ToSet(reader[r].loads)} : o \in ToSet(outcomes)

(* Without a unique index overlapping requests repeat a row, but never     *)
(* more often than there are requests in flight.                           *)
CopiesBounded ==
  \A i \in DOMAIN outcomes :
    Cardinality({j \in DOMAIN outcomes : outcomes[j] = outcomes[i]}) <= Cardinality(Readers)

(* Two recommendations on opposite sides of one game mirror each other in  *)
(* the log: when the closing chances of the sides add up to one their CLVs *)
(* cancel out, and when both are settled one has what the other has not.   *)
Mirrored(result) == CASE result = "win" -> "loss" [] result = "loss" -> "win" [] OTHER -> result
OppositeSidesMirror ==
  \A i, j \in DOMAIN outcomes :
    LET o == outcomes[i]
        p == outcomes[j]
        a == Advice[o.snapshot]
        b == Advice[p.snapshot]
    IN  (a.game = b.game /\ a.market = b.market /\ a.side # b.side /\ a.home = b.home) =>
          /\ (o.close # <<>> /\ p.close # <<>> /\ o.close[1] + p.close[1] = 100) => o.clv[1] + p.clv[1] = 0
          /\ (o.status = "settled" /\ p.status = "settled") => p.result = Mirrored(o.result)

(* Only a request that listed the snapshot before it was settled takes a   *)
(* settled result back; one that saw it passes it on, though the newest    *)
(* line has no score.                                                      *)
LatestSettled(s) == Newest(OutcomesOf(s)) # <<>> /\ Last(OutcomesOf(s)).status = "settled"
OnlyStaleReadersUnsettle ==
  [][\A s \in Snapshots : (LatestSettled(s) /\ ~LatestSettled(s)') =>
       \E r \in Readers : /\ reader[r].at = "insert" /\ Head(reader[r].todo).snapshot = s
                          /\ Head(reader[r].todo).latest # Newest(OutcomesOf(s))]_outcomes

SettledIn(window) == {s \in Snapshots : /\ Advice[s].day \in window[1]..window[2]
                                        /\ \E o \in ToSet(OutcomesOf(s)) : o.result \in {"win", "loss"}}

(* A verdict counts a snapshot as settled only if the log settles it.      *)
VerdictsRestOnLog ==
  \A run \in ToSet(alertRuns) :
    /\ run.verdict.settled[1] <= Cardinality(SettledIn(run.window.current))
    /\ run.verdict.settled[2] <= Cardinality(SettledIn(run.window.baseline))

(* An alert that was answered is in the history with every step, oldest    *)
(* window first, though other requests append theirs in between.           *)
AnsweredAlertsAreRecorded ==
  \A r \in Readers : (reader[r].at = "served" /\ Steps(reader[r].req) # <<>>) =>
    LET history == Reverse(AlertHistory(Len(alertRuns)))
        own == Where(history, {i \in DOMAIN history : history[i].by = <<r, reader[r].served - 1>>})
    IN  /\ Len(own) = Len(Steps(reader[r].req))
        /\ \A i \in DOMAIN own : own[i].step = i - 1 /\ own[i].group = own[1].group /\ own[i].verdict = Verdicts(reader[r])[i]
        /\ \A i \in DOMAIN own : i > 1 => own[i - 1].window.current[2] < own[i].window.current[2]

SettledBy(model, load) ==
  {s \in Snapshots : Advice[s].model = model /\ \E o \in ToSet(load) : o.snapshot = s /\ o.status = "settled"}

(* What its limit keeps off the models page is never better settled than   *)
(* what it shows, and the log settles at least what a row says is settled. *)
BestModelsShown ==
  \A r \in Readers : (reader[r].at = "served" /\ reader[r].req.kind = "models") =>
    LET shown == ModelRows(reader[r])
        SettledOf(model) == Cardinality(SettledBy(model, reader[r].loads[1]))
    IN  \A i \in DOMAIN shown :
          /\ shown[i].settled = SettledOf(shown[i].model)
          /\ \A s \in Snapshots : Advice[s].model \notin {shown[j].model : j \in DOMAIN shown} =>
               SettledOf(Advice[s].model) <= shown[i].settled

(* One total in its range and a page is never answered.                    *)
TotalsBlockThePage ==
  \A r \in Readers : reader[r].at = "served" =>
    \A s \in Snapshots : Advice[s].side \notin Sides =>
      \A i \in DOMAIN Loads(reader[r].req) :
        Len(reader[r].loads[i]) < reader[r].req.limit => s \notin Wanted(reader[r].req, Loads(reader[r].req)[i])

(* The log is true whoever writes it at once: pages show what it holds, no *)
(* row is in it more often than requests are in flight, and the two sides  *)
(* of a game do not contradict each other.                                 *)
LogIsTrue == ShownIsLogged /\ CopiesBounded /\ OppositeSidesMirror

(* What the pages answer rests on that log: verdicts on what it settles,   *)
(* alerts on steps that are all in the history, the models on their settled*)
(* counts; and a range with a total in it has no answer at all.            *)
AnswersRestOnLog ==
  VerdictsRestOnLog /\ AnsweredAlertsAreRecorded /\ BestModelsShown /\ TotalsBlockThePage

=============================================================================
