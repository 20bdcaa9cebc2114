------------------------------ MODULE Settlement ------------------------------
(***************************************************************************)
(* How a placed bet is closed: by the settle and void buttons of the       *)
(* server (handleBetsSettle, handleBetsVoid) and by the worker's           *)
(* auto_settlement job; and how a bet is entered by hand                   *)
(* (handleBetsCreate).                                                     *)
(*                                                                         *)
(* Every one of them reads the bet first and writes later, in a            *)
(* transaction that updates the row (guarded by its status) and appends a  *)
(* ledger row (not guarded).  The read and the transaction are separate    *)
(* actions.  The scores endpoint is external: a game ends once, with a     *)
(* score that does not change, and drops out of the endpoint's three-day   *)
(* window some time after.                                                 *)
(*                                                                         *)
(* Abstractions.  The result of a game is the side that won; the job       *)
(* settles the bets of one sport in any order (the code: by created_at).   *)
(* The job does not overlap with itself: it has one queue worker, and a    *)
(* unique periodic insertion.                                              *)
(***************************************************************************)
EXTENDS BetTables

CONSTANTS ManualTickets,  \* bets entered by hand, each under a fresh UUID
          Closers,        \* concurrent requests of the settle and void buttons
          Games,          \* ids of games
          SportOf,        \* [Games -> Sports]
          Sports,         \* sports of the registry, "NHL" among them
          Unsourced,      \* games not ingested from the odds source
          WindowCloses    \* whether ended games leave the endpoint's window

ASSUME SettlementAssumption ==
  /\ ManualTickets \subseteq Tickets
  /\ \A t \in Tickets : t.game \in Games
  /\ SportOf \in [Games -> Sports]
  /\ Unsourced \subseteq Games
  /\ WindowCloses \in BOOLEAN

VARIABLES closer,     \* [Closers -> a request between its read and its COMMIT]
          job,        \* the auto_settlement job
          score,      \* [Games -> "open" or the final outcome]
          listed      \* ended games the scores endpoint still returns

settleVars == <<bets, ledger, closer, job, score, listed>>

Verdicts == {"win", "loss", "push"}
Outcomes == {"home", "away", "tie"}
IdleJob == [at |-> "idle", todo |-> {}, batch |-> {}]

SettleInit == /\ TablesInit
              /\ closer = [d \in Closers |-> [at |-> "idle"]]
              /\ job = IdleJob
              /\ score = [g \in Games |-> "open"]
              /\ listed = {}

-----------------------------------------------------------------------------
\* Faulty variant: a bet entered by hand reserves no stake.
CreateManualFree(t) ==
  /\ t.market = "h2h"
  /\ Insertable(t)
  /\ InsertRow(t, "placed")
  /\ UNCHANGED <<ledger, closer, job, score, listed>>

(* handleBetsCreate: one transaction, under a key nobody else can have.    *)
CreateManual(t) ==
  /\ t.market = "h2h"
  /\ Insertable(t)
  /\ InsertRow(t, "placed")
  /\ Post(t.key, "reserved")
  /\ UNCHANGED <<closer, job, score, listed>>

(* Both buttons look the bet up and answer 400 unless it is placed. *)
ReadBet(d, k, verdict) ==
  /\ closer[d].at = "idle"
  /\ bets[k].status = "placed"
  /\ closer' = [closer EXCEPT ![d] = [at |-> "read", key |-> k, verdict |-> verdict]]
  /\ UNCHANGED <<tables, job, score, listed>>

EndRequest(d) == closer' = [closer EXCEPT ![d] = [at |-> "idle"]]

CommitSettle(d) ==
  /\ closer[d].at = "read"
  /\ closer[d].verdict \in Verdicts
  /\ UpdateBetSettled(closer[d].key, closer[d].verdict)
  /\ Post(closer[d].key, closer[d].verdict)
  /\ EndRequest(d)
  /\ UNCHANGED <<job, score, listed>>

\* Faulty variant: voiding keeps the stake.
CommitVoidKeepsStake(d) ==
  /\ closer[d].at = "read"
  /\ closer[d].verdict = "void"
  /\ VoidBet(closer[d].key)
  /\ EndRequest(d)
  /\ UNCHANGED <<ledger, job, score, listed>>

CommitVoid(d) ==
  /\ closer[d].at = "read"
  /\ closer[d].verdict = "void"
  /\ VoidBet(closer[d].key)
  /\ Post(closer[d].key, "released")
  /\ EndRequest(d)
  /\ UNCHANGED <<job, score, listed>>

(* The transaction rolls back, or the server stops. *)
AbortRequest(d) ==
  /\ closer[d].at = "read"
  /\ EndRequest(d)
  /\ UNCHANGED <<tables, job, score, listed>>

-----------------------------------------------------------------------------
(* determineAutoSettlementResult. *)
AutoVerdict(t, outcome) ==
  CASE t.market # "h2h" \/ t.side \notin {"home", "away"} -> "none"
    [] OTHER ->
         CASE outcome = "tie"  -> IF SportOf[t.game] = "NHL" THEN "none" ELSE "push"
           [] outcome = t.side -> "win"
           [] OTHER            -> "loss"

OpenBets == {k \in Keys : bets[k].status = "placed"}
GameOf(k) == bets[k].ticket.game

\* Faulty variant: the test of the game's source is inverted.
ListUnsourcedBets ==
  /\ job.at = "idle"
  /\ job' = IF OpenBets = {} THEN IdleJob
            ELSE [at |-> "running", batch |-> {},
                  todo |-> {k \in OpenBets : GameOf(k) \in Unsourced}]
  /\ UNCHANGED <<tables, closer, score, listed>>

(* Work lists the open bets once, and keeps those of the odds source; with *)
(* none open it is done.                                                   *)
ListOpenBets ==
  /\ job.at = "idle"
  /\ job' = IF OpenBets = {} THEN IdleJob
            ELSE [at |-> "running", batch |-> {},
                  todo |-> {k \in OpenBets : GameOf(k) \notin Unsourced}]
  /\ UNCHANGED <<tables, closer, score, listed>>

(* What the scores endpoint returns for a sport: games reported as         *)
(* completed, within its window, with a score for both teams.              *)
Scores(s) == {g \in listed : SportOf[g] = s}

OfSport(s) == {k \in job.todo : SportOf[GameOf(k)] = s}

\* Faulty variant: a bet without a verdict is not skipped.
FetchSportNoSkip(s) ==
  /\ job.at = "running"
  /\ job.batch = {}
  /\ OfSport(s) # {}
  /\ job' = [job EXCEPT
       !.todo = @ \ OfSport(s),
       !.batch = {[key |-> k, verdict |-> AutoVerdict(bets[k].ticket, score[GameOf(k)])] :
                    k \in {j \in OfSport(s) : GameOf(j) \in Scores(s)}}]
  /\ UNCHANGED <<tables, closer, score, listed>>

(* One call of the scores endpoint for a sport; the verdicts are decided   *)
(* from what it returned, before any of them is written.                   *)
FetchSport(s) ==
  /\ job.at = "running"
  /\ job.batch = {}
  /\ OfSport(s) # {}
  /\ LET decided == {k \in OfSport(s) : GameOf(k) \in Scores(s)}
         verdicts == {[key |-> k, verdict |-> AutoVerdict(bets[k].ticket, score[GameOf(k)])] :
                        k \in decided}
     IN  job' = [job EXCEPT !.todo = @ \ OfSport(s),
                            !.batch = {v \in verdicts : v.verdict # "none"}]
  /\ UNCHANGED <<tables, closer, score, listed>>

FetchFails(s) ==
  /\ job.at = "running"
  /\ job.batch = {}
  /\ OfSport(s) # {}
  /\ job' = [job EXCEPT !.todo = @ \ OfSport(s)]
  /\ UNCHANGED <<tables, closer, score, listed>>

(* settleOneBet: nothing is read again before the transaction. *)
SettleOneBet(k) ==
  \E v \in job.batch :
    /\ v.key = k
    /\ UpdateBetSettled(k, v.verdict)
    /\ Post(k, v.verdict)
    /\ job' = [job EXCEPT !.batch = @ \ {v}]
    /\ UNCHANGED <<closer, score, listed>>

(* Its error is logged and the job goes on with the next bet. *)
SettleFails(k) ==
  \E v \in job.batch :
    /\ v.key = k
    /\ job' = [job EXCEPT !.batch = @ \ {v}]
    /\ UNCHANGED <<tables, closer, score, listed>>

FinishJob ==
  /\ job.at = "running"
  /\ job.todo = {} /\ job.batch = {}
  /\ job' = IdleJob
  /\ UNCHANGED <<tables, closer, score, listed>>

(* The worker stops, or the job's context ends; the next period starts over. *)
KillJob ==
  /\ job.at = "running"
  /\ job' = IdleJob
  /\ UNCHANGED <<tables, closer, score, listed>>

-----------------------------------------------------------------------------
GameEnds(g, outcome) ==
  /\ score[g] = "open"
  /\ score' = [score EXCEPT ![g] = outcome]
  /\ listed' = listed \cup {g}
  /\ UNCHANGED <<tables, closer, job>>

LeaveWindow(g) ==
  /\ WindowCloses
  /\ g \in listed
  /\ listed' = listed \ {g}
  /\ UNCHANGED <<tables, closer, job, score>>

CloserStep(d) == \/ \E k \in Keys, verdict \in Verdicts \cup {"void"} : ReadBet(d, k, verdict)
                 \/ CommitSettle(d) \/ CommitVoid(d) \/ AbortRequest(d)

JobStep == \/ ListOpenBets \/ FinishJob \/ KillJob
           \/ \E s \in Sports : FetchSport(s) \/ FetchFails(s)
           \/ \E k \in Keys : SettleOneBet(k) \/ SettleFails(k)

SettleNext == \/ \E t \in ManualTickets : CreateManual(t)
              \/ \E d \in Closers : CloserStep(d)
              \/ JobStep
              \/ \E g \in Games : \/ \E outcome \in Outcomes : GameEnds(g, outcome)
                                  \/ LeaveWindow(g)

SettleSpec == SettleInit /\ [][SettleNext]_settleVars

(* The job is started every 30 minutes, and neither the scores endpoint    *)
(* nor the database fails every time it is tried.                          *)
FairJob ==
  /\ WF_settleVars(ListOpenBets) /\ WF_settleVars(FinishJob)
  /\ \A s \in Sports : SF_settleVars(FetchSport(s))
  /\ \A k \in Keys : SF_settleVars(SettleOneBet(k))

-----------------------------------------------------------------------------
SettlementTypeOK ==
  /\ TablesTypeOK
  /\ closer \in [Closers -> {[at |-> "idle"]} \cup
                   [at : {"read"}, key : Keys, verdict : Verdicts \cup {"void"}]]
  /\ job \in [at : {"idle", "running"}, todo : SUBSET Keys,
              batch : SUBSET [key : Keys, verdict : Verdicts]]
  /\ score \in [Games -> {"open"} \cup Outcomes]
  /\ listed \subseteq Games

(* What the ledger has to show for a bet whose row is `row': nothing more  *)
(* than the reservation while it is open, the stake back when it is failed *)
(* or voided, the payout when it is settled.                               *)
Owed(row) == CASE row.status = "none" -> 0
               [] row.status = "settled" -> Payout(row.ticket, row.result) - row.ticket.stake
               [] row.status \in {"voided", "failed"} -> 0
               [] OTHER -> -row.ticket.stake

(* A race of closers can credit a bet twice but never too little: what the *)
(* ledger holds for a key is at least what its row says.  Nobody's stake   *)
(* or winnings get lost, whoever wins the guarded UPDATE.                  *)
NeverShort == \A k \in Keys : Net(k) >= Owed(bets[k])

(* The ledger and the row agree to the cent: every reserved stake has      *)
(* exactly one closing entry, the one the row speaks of (runbook           *)
(* paper-validation.md, Ledger integrity: "net to zero per bet             *)
(* lifecycle").                                                            *)
LedgerReconciles == \A k \in Keys : Net(k) = Owed(bets[k])

(* A bet is closed once: from placed, and its status and result never      *)
(* change afterwards, however many requests and job runs decided on it.    *)
ClosedOnce ==
  [][\A k \in Keys :
       /\ bets[k].status \in {"settled", "voided", "failed"} => bets'[k] = bets[k]
       /\ bets'[k].status \in {"settled", "voided"} /\ bets'[k] # bets[k]
            => bets[k].status = "placed"]_settleVars

(* A bet the job may settle: moneyline on a team, a game of the odds       *)
(* source that has ended, and not a hockey game reported as a tie.         *)
Settleable(k) ==
  /\ bets[k].status = "placed"
  /\ GameOf(k) \in listed \ Unsourced
  /\ AutoVerdict(bets[k].ticket, score[GameOf(k)]) # "none"

(* Such a bet is closed in the end, although job runs are killed half-way  *)
(* and single fetches and transactions fail.                               *)
SettleableCloses == \A k \in Keys : Settleable(k) ~> bets[k].status # "placed"

=============================================================================
