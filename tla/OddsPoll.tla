------------------------------ MODULE OddsPoll ------------------------------
(***************************************************************************)
(* Poller.Run: the odds_poll job of the worker and the refresh handler of  *)
(* the server, which poll The Odds API at the same time and append what    *)
(* changed to odds_history, and the readers that take "the latest odds"    *)
(* out of it again.                                                        *)
(*                                                                         *)
(* The sports of a run are fetched one after the other; the whole answer   *)
(* is stamped with one captured_at afterwards and stored in one            *)
(* transaction.  That transaction is one action: it updates the row of     *)
(* every game before it looks at any odds, so two of them with a game in   *)
(* common run one after the other.  The market is a totals market: a line  *)
(* (point) and an American price for either side.                          *)
(*                                                                         *)
(* Left out: team names, raw JSON, display names, and implied              *)
(* probabilities, all functions of what is kept.                           *)
(***************************************************************************)
EXTENDS Integers, Sequences, FiniteSets

CONSTANTS Pollers,     \* concurrent calls of Run
          Sports,      \* the sequence of sports of a run, one game each
          Offers,      \* what the book may show for a game
          MaxPolls     \* bound: captured_at stamps handed out

Games == {Sports[i] : i \in DOMAIN Sports}
OutcomeSides == {"over", "under"}

\* ActiveOddsAPISports names a sport once.
ASSUME OddsPollAssumption ==
  /\ Len(Sports) \in Nat /\ DOMAIN Sports = 1..Len(Sports)
  /\ \A i, j \in DOMAIN Sports : Sports[i] = Sports[j] => i = j
  /\ Offers \subseteq [point : Int, over : Int, under : Int]
  /\ MaxPolls \in Nat /\ Pollers # {}

VARIABLES offered,     \* [Games -> what the book shows now]
          history,     \* the rows of odds_history
          poll,        \* [Pollers -> the local state of Run]
          pollRuns,    \* [Pollers -> status of its latest row of poll_runs]
          now,         \* the last captured_at
          stored       \* the committed answers [at, seen] in commit order

vars == <<offered, history, poll, pollRuns, now, stored>>

Idle == [at |-> "idle", seen |-> <<>>, stamp |-> 0, outcome |-> "success"]

Init == /\ offered \in [Games -> Offers]
        /\ history = {}
        /\ poll = [p \in Pollers |-> Idle]
        /\ pollRuns = [p \in Pollers |-> "none"]
        /\ now = 0
        /\ stored = <<>>

-----------------------------------------------------------------------------
(* The rows of one answer: the normaliser makes one snapshot per outcome.  *)
SnapshotRows(seen, at) ==
  {[game |-> Sports[i], side |-> s, point |-> seen[i].point, price |-> seen[i][s], at |-> at] :
     i \in DOMAIN seen, s \in OutcomeSides}

\* The columns that identify an outcome; book, source and market are the same.
SameOutcome(r, q) == r.game = q.game /\ r.side = q.side /\ r.point = q.point
Rows(r, rows) == {q \in rows : SameOutcome(r, q)}
Newest(rows) == {q \in rows : \A other \in rows : other.at <= q.at}

(* GetLatestSnapshotHash and ShouldInsertSnapshot: the hash covers the     *)
(* outcome and its price.                                                  *)
Unchanged(r, rows) == \E q \in Newest(Rows(r, rows)) : q.price = r.price

\* Faulty variants: every snapshot is inserted; one whose hash was ever seen is not.
FreshAll(rows) == rows
FreshIfNeverSeen(rows) == {r \in rows : \A q \in Rows(r, history) : q.price # r.price}

Fresh(rows) == {r \in rows : ~Unchanged(r, history)}

-----------------------------------------------------------------------------
(* The book moves the line or the prices of a game. *)
BookMoves(g, offer) ==
  /\ offer # offered[g]
  /\ offered' = [offered EXCEPT ![g] = offer]
  /\ UNCHANGED <<history, poll, pollRuns, now, stored>>

(* InsertPollRun. *)
StartRun(p) ==
  /\ poll[p].at = "idle"
  /\ poll' = [poll EXCEPT ![p] = [Idle EXCEPT !.at = "fetching"]]
  /\ pollRuns' = [pollRuns EXCEPT ![p] = "running"]
  /\ UNCHANGED <<offered, history, now, stored>>

FetchSport(p) ==
  /\ poll[p].at = "fetching"
  /\ Len(poll[p].seen) < Len(Sports)
  /\ poll' = [poll EXCEPT ![p].seen = Append(@, offered[Sports[Len(@) + 1]])]
  /\ UNCHANGED <<offered, history, pollRuns, now, stored>>

FetchFails(p) ==
  /\ poll[p].at = "fetching"
  /\ Len(poll[p].seen) < Len(Sports)
  /\ poll' = [poll EXCEPT ![p].at = "finished", ![p].outcome = "failed"]
  /\ UNCHANGED <<offered, history, pollRuns, now, stored>>

\* Faulty variant: captured_at is left at its zero value.
NormalizeUnstamped(p) ==
  /\ poll[p].at = "fetching"
  /\ Len(poll[p].seen) = Len(Sports)
  /\ now < MaxPolls
  /\ now' = now + 1
  /\ poll' = [poll EXCEPT ![p].at = "normalized"]
  /\ UNCHANGED <<offered, history, pollRuns, stored>>

(* Normalize with the time after the last fetch. *)
Normalize(p) ==
  /\ poll[p].at = "fetching"
  /\ Len(poll[p].seen) = Len(Sports)
  /\ now < MaxPolls
  /\ now' = now + 1
  /\ poll' = [poll EXCEPT ![p].at = "normalized", ![p].stamp = now + 1]
  /\ UNCHANGED <<offered, history, pollRuns, stored>>

\* Faulty variant: the new rows are committed although a later insert failed.
StorePart(p) ==
  /\ poll[p].at = "normalized"
  /\ \E rows \in SUBSET Fresh(SnapshotRows(poll[p].seen, poll[p].stamp)) : history' = history \cup rows
  /\ poll' = [poll EXCEPT ![p].at = "finished", ![p].outcome = "success"]
  /\ stored' = Append(stored, [at |-> poll[p].stamp, seen |-> poll[p].seen])
  /\ UNCHANGED <<offered, pollRuns, now>>

(* The transaction of run: games upserted, unchanged snapshots skipped.    *)
(* The answer to a COMMIT that took effect may be lost.                    *)
Store(p) ==
  /\ poll[p].at = "normalized"
  /\ history' = history \cup Fresh(SnapshotRows(poll[p].seen, poll[p].stamp))
  /\ \E outcome \in {"success", "failed"} :
       poll' = [poll EXCEPT ![p].at = "finished", ![p].outcome = outcome]
  /\ stored' = Append(stored, [at |-> poll[p].stamp, seen |-> poll[p].seen])
  /\ UNCHANGED <<offered, pollRuns, now>>

StoreFails(p) ==
  /\ poll[p].at = "normalized"
  /\ poll' = [poll EXCEPT ![p].at = "finished", ![p].outcome = "failed"]
  /\ UNCHANGED <<offered, history, pollRuns, now, stored>>

\* Faulty variant: the outcome of the run is not looked at.
CompleteAsSuccess(p) ==
  /\ poll[p].at = "finished"
  /\ pollRuns' = [pollRuns EXCEPT ![p] = "success"]
  /\ poll' = [poll EXCEPT ![p].at = "idle"]
  /\ UNCHANGED <<offered, history, now, stored>>

CompletePollRun(p) ==
  /\ poll[p].at = "finished"
  /\ pollRuns' = [pollRuns EXCEPT ![p] = poll[p].outcome]
  /\ poll' = [poll EXCEPT ![p].at = "idle"]
  /\ UNCHANGED <<offered, history, now, stored>>

(* The process stops, or the context is cancelled, which CompletePollRun   *)
(* uses as well: the row of poll_runs keeps its default status.            *)
Interrupt(p) ==
  /\ poll[p].at # "idle"
  /\ poll' = [poll EXCEPT ![p].at = "idle"]
  /\ UNCHANGED <<offered, history, pollRuns, now, stored>>

PollStep(p) == \/ StartRun(p) \/ FetchSport(p) \/ FetchFails(p) \/ Normalize(p)
               \/ Store(p) \/ StoreFails(p) \/ CompletePollRun(p) \/ Interrupt(p)

Next == \/ \E g \in Games, offer \in Offers : BookMoves(g, offer)
        \/ \E p \in Pollers : PollStep(p)

Spec == Init /\ [][Next]_vars

-----------------------------------------------------------------------------
(* ListLatestOddsForUpcoming: the newest row of every outcome; the point   *)
(* is part of what makes an outcome.                                       *)
LatestOdds == {r \in history : r \in Newest(Rows(r, history))}

(* latestQuotesByGameAndMarketUpcoming: the rows of a book are folded into *)
(* one quote, a later row replacing an earlier one of the same side; rows  *)
(* that differ in the point alone come in no particular order.             *)
Quotes(g) ==
  LET Side(s) == {r.price : r \in {x \in LatestOdds : x.game = g /\ x.side = s}}
  IN  {[over |-> over, under |-> under] : over \in Side("over"), under \in Side("under")}

-----------------------------------------------------------------------------
OddsTypeOK ==
  /\ offered \in [Games -> Offers]
  /\ \A r \in history : /\ r.game \in Games /\ r.side \in OutcomeSides /\ r.at \in 1..now
                        /\ \E o \in Offers : o.point = r.point /\ o[r.side] = r.price
  /\ \A p \in Pollers :
       /\ poll[p].at \in {"idle", "fetching", "normalized", "finished"}
       /\ poll[p].seen \in UNION {[1..n -> Offers] : n \in 0..Len(Sports)}
       /\ poll[p].stamp \in 0..now
       /\ poll[p].outcome \in {"success", "failed"}
  /\ pollRuns \in [Pollers -> {"none", "running", "success", "failed"}]

Polls == {stored[i] : i \in DOMAIN stored}
LatestPolls == {s \in Polls : \A other \in Polls : other.at <= s.at}

(* captured_at is taken before the transaction, so two pollers may commit  *)
(* in the other order than they were stamped.  As long as they do not ...  *)
CommitsInOrder == \A i, j \in DOMAIN stored : i < j => stored[i].at < stored[j].at

(* ... the archive is lossless: for every committed poll, the newest row   *)
(* up to its time of every outcome it saw carries the price it saw;        *)
ReplaysEveryPoll ==
  CommitsInOrder =>
    \A s \in Polls : \A r \in SnapshotRows(s.seen, s.at) :
      Unchanged(r, {q \in history : q.at <= s.at})

(* ... it is condensed: no row repeats the price of the row before it of   *)
(* the same outcome;                                                       *)
NoRepeatedRow ==
  CommitsInOrder => \A r \in history : ~Unchanged(r, {q \in history : q.at < r.at})

(* ... and a reader of the latest odds sees what the latest poll saw, also *)
(* if two pollers overlap and see a price move between their fetches.      *)
LatestIsNewest ==
  CommitsInOrder =>
    \A s \in LatestPolls : \A r \in SnapshotRows(s.seen, s.at) : Unchanged(r, history)

(* The archive is exact: lossless, condensed and current.                  *)
ArchiveIsExact == ReplaysEveryPoll /\ NoRepeatedRow /\ LatestIsNewest

(* In any order, nothing is archived that no committed poll saw, and a run *)
(* that says success has committed its answer.                             *)
RowsWereSeen ==
  /\ \A r \in history : \E s \in Polls : r \in SnapshotRows(s.seen, s.at)
  /\ \A p \in Pollers : pollRuns[p] = "success" => \E s \in Polls : s.at = poll[p].stamp

(* Recommendations are priced at quotes of the latest poll                 *)
(* (docs/PLAN_LIVE_PREDICTION_BRIDGE.md: "latest odds per game/book").     *)
QuotesAreLatest ==
  \A s \in LatestPolls : \A i \in DOMAIN Sports :
    Quotes(Sports[i]) = {[over |-> s.seen[i].over, under |-> s.seen[i].under]}

=============================================================================
