--------------------------- MODULE Execution_proofs ---------------------------
(***************************************************************************)
(* Proofs about Settlement, for any number of bets, requests, games and    *)
(* sports, whatever the scores endpoint returns and whoever else closes;   *)
(* and then about Execution: Placement and Settlement on the same tables,  *)
(* for any number of callers, requests, bets and deposits.                 *)
(***************************************************************************)
EXTENDS Execution, Placement_proofs, Collections


(* A ticket has a key of the tables, a stake and odds.                     *)
LEMMA TicketParts ==
  ASSUME NEW t \in Tickets
  PROVE  t.key \in Keys /\ t.stake \in Nat /\ t.odds \in Int \ {0} /\ t # NoTicket
  BY TicketsAssumption DEF TicketFields

-----------------------------------------------------------------------------
(* Money. *)
LEMMA QuotientIsNat == ASSUME NEW n \in Nat, NEW d \in Nat \ {0} PROVE n \div d \in Nat
  BY SMT

(* Nobody wins less than nothing.                                          *)
LEMMA WinningsAreNat ==
  ASSUME NEW stake \in Nat, NEW odds \in Int \ {0}
  PROVE  CalculateWinnings(stake, odds) \in Nat
<1>1. CASE odds > 0
  <2>1. stake * odds \in Nat
    BY <1>1, SMT
  <2>2. 2 * (stake * odds) + 100 \in Nat /\ 2 * 100 \in Nat \ {0}
    BY <2>1
  <2> QED
    BY <1>1, <2>2, QuotientIsNat DEF CalculateWinnings, RoundDiv
<1>2. CASE odds < 0
  <2>1. -odds \in Nat \ {0} /\ stake * 100 \in Nat
    BY <1>2
  <2>2. 2 * (stake * 100) + (-odds) \in Nat /\ 2 * (-odds) \in Nat \ {0}
    BY <2>1
  <2>3. CalculateWinnings(stake, odds) = RoundDiv(stake * 100, -odds)
    BY <1>2 DEF CalculateWinnings
  <2> QED
    BY <2>2, <2>3, QuotientIsNat DEF RoundDiv
<1> QED
  BY <1>1, <1>2

(* Nor is anybody paid less than nothing.                                  *)
LEMMA PayoutIsNat ==
  ASSUME NEW t \in Tickets, NEW result
  PROVE  Payout(t, result) \in Nat
<1>1. CalculateWinnings(t.stake, t.odds) \in Nat
  BY TicketParts, WinningsAreNat
<1> QED
  BY <1>1, TicketParts DEF Payout

(* What the ledger adds up to for a bet: a stake off for each reservation, *)
(* a stake back for each release and push, a payout for each win.          *)
LEMMA NetOfRow ==
  ASSUME TablesTypeOK, NEW k \in Keys, bets[k].status # "none", bets[k].ticket \in Tickets
  PROVE  LET t == bets[k].ticket
             n(type) == ledger[k][type]
         IN  Net(k) = n("reserved") * (-t.stake) + n("released") * t.stake
                        + n("win") * Payout(t, "win") + n("push") * t.stake
<1> DEFINE t == bets[k].ticket
           n(type) == ledger[k][type]
<1>1. /\ Amount(t, "reserved") = -t.stake /\ Amount(t, "released") = t.stake
      /\ Amount(t, "loss") = 0 /\ Amount(t, "push") = t.stake
      /\ Amount(t, "win") = Payout(t, "win")
  BY DEF Amount, Payout
<1>2. Net(k) = n("reserved") * Amount(t, "reserved") + n("released") * Amount(t, "released")
                 + n("win") * Amount(t, "win") + n("loss") * Amount(t, "loss")
                 + n("push") * Amount(t, "push")
  BY DEF Net
<1>3. n("loss") * 0 = 0
  BY DEF TablesTypeOK, EntryTypes
<1>4. t.stake \in Nat /\ Payout(t, "win") \in Nat
  BY TicketParts, PayoutIsNat
<1>5. \A type \in EntryTypes : n(type) \in Nat
  BY DEF TablesTypeOK
<1> HIDE DEF t, n
<1>6. \A a, b \in Nat : a * b \in Int /\ a * (-b) \in Int
  BY SMT
<1>7. /\ n("reserved") * (-t.stake) \in Int /\ n("released") * t.stake \in Int
      /\ n("win") * Payout(t, "win") \in Int /\ n("push") * t.stake \in Int
  BY <1>4, <1>5, <1>6 DEF EntryTypes
<1>8. Net(k) = n("reserved") * (-t.stake) + n("released") * t.stake
                 + n("win") * Payout(t, "win") + n("push") * t.stake
  BY <1>1, <1>2, <1>3, <1>7
<1> QED
  BY <1>8 DEF t, n

-----------------------------------------------------------------------------
(* A step of Settlement does one thing to the tables, if any: it enters a  *)
(* bet by hand, or runs one of the two closing transactions on a bet that  *)
(* was placed when its closer looked.                                      *)
ClosingVerdicts == Verdicts \cup {"void"}

Decided(k, verdict) ==
  \/ \E d \in Closers : closer[d] = [at |-> "read", key |-> k, verdict |-> verdict]
  \/ verdict \in Verdicts /\ [key |-> k, verdict |-> verdict] \in job.batch

Enters(t, to) == /\ Insertable(t)
                 /\ InsertRow(t, to)
                 /\ Post(t.key, "reserved")

Settles(k, verdict) == UpdateBetSettled(k, verdict) /\ Post(k, verdict)
Voids(k) == VoidBet(k) /\ Post(k, "released")

(* What settlement can do to the two tables: enter a bet by hand, settle a *)
(* bet by a verdict that was decided, void one.                            *)
LEMMA TableStep ==
  ASSUME SettlementTypeOK, [SettleNext]_settleVars
  PROVE  \/ UNCHANGED tables
         \/ \E t \in ManualTickets : Enters(t, "placed")
         \/ \E k \in Keys, verdict \in Verdicts : Decided(k, verdict) /\ Settles(k, verdict)
         \/ \E k \in Keys : Decided(k, "void") /\ Voids(k)
<1>1. ASSUME NEW t \in ManualTickets, CreateManual(t)
      PROVE  Enters(t, "placed")
  BY <1>1 DEF CreateManual, Enters
<1>2. ASSUME NEW d \in Closers, closer[d].at = "read"
      PROVE  /\ closer[d].key \in Keys /\ closer[d].verdict \in ClosingVerdicts
             /\ closer[d] = [at |-> "read", key |-> closer[d].key, verdict |-> closer[d].verdict]
  BY <1>2 DEF SettlementTypeOK, ClosingVerdicts
<1>3. ASSUME NEW d \in Closers, CommitSettle(d)
      PROVE  \E k \in Keys, verdict \in Verdicts : Decided(k, verdict) /\ Settles(k, verdict)
  BY <1>2, <1>3 DEF CommitSettle, Settles, Decided
<1>4. ASSUME NEW d \in Closers, CommitVoid(d)
      PROVE  \E k \in Keys : Decided(k, "void") /\ Voids(k)
  BY <1>2, <1>4 DEF CommitVoid, Voids, Decided
<1>5. ASSUME NEW k \in Keys, SettleOneBet(k)
      PROVE  \E verdict \in Verdicts : Decided(k, verdict) /\ Settles(k, verdict)
  <2>1. PICK v \in job.batch : v.key = k /\ UpdateBetSettled(k, v.verdict) /\ Post(k, v.verdict)
    BY <1>5 DEF SettleOneBet
  <2>2. v.verdict \in Verdicts /\ v = [key |-> k, verdict |-> v.verdict]
    BY <2>1 DEF SettlementTypeOK
  <2> QED
    BY <2>1, <2>2 DEF Settles, Decided
<1>6. ASSUME NEW d \in Closers, CloserStep(d)
      PROVE  UNCHANGED tables \/ CommitSettle(d) \/ CommitVoid(d)
  BY <1>6 DEF CloserStep, ReadBet, AbortRequest
<1>7. ASSUME JobStep
      PROVE  UNCHANGED tables \/ \E k \in Keys : SettleOneBet(k)
  BY <1>7 DEF JobStep, ListOpenBets, FinishJob, KillJob, FetchSport, FetchFails, SettleFails
<1>8. ASSUME NEW g \in Games, LeaveWindow(g) \/ \E outcome \in Outcomes : GameEnds(g, outcome)
      PROVE  UNCHANGED tables
  BY <1>8 DEF LeaveWindow, GameEnds
<1>9. CASE UNCHANGED settleVars
  BY <1>9 DEF settleVars, tables
<1>10. ASSUME NEW d \in Closers, CloserStep(d)
       PROVE  \/ UNCHANGED tables
              \/ \E k \in Keys, verdict \in Verdicts : Decided(k, verdict) /\ Settles(k, verdict)
              \/ \E k \in Keys : Decided(k, "void") /\ Voids(k)
  BY <1>3, <1>4, <1>6, <1>10
<1>11. ASSUME JobStep
       PROVE  \/ UNCHANGED tables
              \/ \E k \in Keys, verdict \in Verdicts : Decided(k, verdict) /\ Settles(k, verdict)
  BY <1>5, <1>7, <1>11
<1> QED
  BY <1>1, <1>8, <1>9, <1>10, <1>11 DEF SettleNext

(* What those transactions leave in the two tables. *)
LEMMA EntersEffect ==
  ASSUME TablesTypeOK, NEW t \in Tickets, NEW to \in {"pending", "placed"}, Enters(t, to)
  PROVE  /\ TablesTypeOK'
         /\ bets[t.key].status = "none"
         /\ bets' = [bets EXCEPT ![t.key] = [status |-> to, ticket |-> t, result |-> "none"]]
         /\ ledger' = [ledger EXCEPT ![t.key]["reserved"] = @ + 1]
<1>1. t.key \in Keys
  BY TicketParts
<1>2. bets' \in [Keys -> Rows]
  BY <1>1 DEF Enters, InsertRow, TablesTypeOK, Rows, Statuses, Results
<1>3. ledger' \in [Keys -> [EntryTypes -> Nat]]
  BY <1>1 DEF Enters, Post, TablesTypeOK, EntryTypes
<1> QED
  BY <1>2, <1>3 DEF Enters, Insertable, InsertRow, Post, TablesTypeOK

(* A closing transaction moves a placed row, leaves any other row alone,   *)
(* and writes its ledger row in either case.                               *)
ClosesAs(k, type, to, result) ==
  /\ \A j \in Keys \ {k} : bets'[j] = bets[j] /\ ledger'[j] = ledger[j]
  /\ bets'[k].ticket = bets[k].ticket
  /\ IF bets[k].status = "placed" THEN bets'[k].status = to /\ bets'[k].result = result
                                  ELSE bets'[k] = bets[k]
  /\ ledger'[k] = [ledger[k] EXCEPT ![type] = @ + 1]

(* A guarded UPDATE and its ledger row: the row is closed if it was        *)
(* placed, the entry is posted whether it was or not.                      *)
LEMMA ClosesEffect ==
  ASSUME TablesTypeOK, NEW k \in Keys, NEW type \in EntryTypes, NEW to \in Statuses,
         NEW result \in Results,
         UpdateWhere(k, "placed", to, result), Post(k, type)
  PROVE  TablesTypeOK' /\ ClosesAs(k, type, to, result)
<1>1. bets \in [Keys -> Rows] /\ ledger \in [Keys -> [EntryTypes -> Nat]]
  BY DEF TablesTypeOK
<1>2. ledger' \in [Keys -> [EntryTypes -> Nat]]
  BY <1>1 DEF Post, EntryTypes
<1>3. CASE bets[k].status = "placed"
  <2>1. bets' = [bets EXCEPT ![k] = [bets[k] EXCEPT !.status = to, !.result = result]]
    BY <1>1, <1>3 DEF UpdateWhere
  <2>2. /\ bets'[k].status = to /\ bets'[k].ticket = bets[k].ticket /\ bets'[k].result = result
        /\ bets' \in [Keys -> Rows]
    BY <1>1, <2>1 DEF Rows
  <2> QED
    BY <1>1, <1>2, <1>3, <2>1, <2>2 DEF Post, TablesTypeOK, ClosesAs
<1>4. CASE bets[k].status # "placed"
  BY <1>1, <1>2, <1>4 DEF UpdateWhere, Post, TablesTypeOK, ClosesAs
<1> QED
  BY <1>3, <1>4

(* That, of a bet that is settled ...                                      *)
LEMMA SettlesEffect ==
  ASSUME TablesTypeOK, NEW k \in Keys, NEW verdict \in Verdicts, Settles(k, verdict)
  PROVE  TablesTypeOK' /\ ClosesAs(k, verdict, "settled", verdict)
<1>1. verdict \in EntryTypes /\ verdict \in Results /\ "settled" \in Statuses
  BY DEF Verdicts, EntryTypes, Results, Statuses
<1> QED
  BY <1>1, ClosesEffect DEF Settles, UpdateBetSettled

(* ... and of one that is voided.                                          *)
LEMMA VoidsEffect ==
  ASSUME TablesTypeOK, NEW k \in Keys, Voids(k)
  PROVE  TablesTypeOK' /\ ClosesAs(k, "released", "voided", "none")
<1>1. "released" \in EntryTypes /\ "none" \in Results /\ "voided" \in Statuses
  BY DEF EntryTypes, Results, Statuses
<1> QED
  BY <1>1, ClosesEffect DEF Voids, VoidBet

-----------------------------------------------------------------------------
(* Types. *)
LEMMA TablesKeepType ==
  ASSUME SettlementTypeOK, [SettleNext]_settleVars
  PROVE  TablesTypeOK'
<1>0. TablesTypeOK
  BY DEF SettlementTypeOK
<1>1. CASE UNCHANGED tables
  BY <1>0, <1>1 DEF tables, TablesTypeOK
<1>2. ASSUME NEW t \in ManualTickets, Enters(t, "placed")
      PROVE  TablesTypeOK'
  BY <1>0, <1>2, EntersEffect, SettlementAssumption
<1>3. ASSUME NEW k \in Keys, NEW verdict \in Verdicts, Settles(k, verdict)
      PROVE  TablesTypeOK'
  BY <1>0, <1>3, SettlesEffect
<1>4. ASSUME NEW k \in Keys, Voids(k)
      PROVE  TablesTypeOK'
  BY <1>0, <1>4, VoidsEffect
<1> QED
  BY <1>1, <1>2, <1>3, <1>4, TableStep

RequestsOK == closer \in [Closers -> {[at |-> "idle"]} \cup
                             [at : {"read"}, key : Keys, verdict : ClosingVerdicts]]
JobOK == job \in [at : {"idle", "running"}, todo : SUBSET Keys,
                  batch : SUBSET [key : Keys, verdict : Verdicts]]
GamesOK == score \in [Games -> {"open"} \cup Outcomes] /\ listed \subseteq Games

(* The requests that settle or void a bet.                                 *)
LEMMA RequestsKeepType ==
  ASSUME RequestsOK, [SettleNext]_settleVars
  PROVE  RequestsOK'
<1>1. ASSUME NEW d \in Closers, NEW k \in Keys, NEW verdict \in ClosingVerdicts, ReadBet(d, k, verdict)
      PROVE  RequestsOK'
  BY <1>1 DEF ReadBet, RequestsOK
<1>2. ASSUME NEW d \in Closers, EndRequest(d)
      PROVE  RequestsOK'
  BY <1>2 DEF EndRequest, RequestsOK
<1>3. ASSUME NEW d \in Closers, CommitSettle(d) \/ CommitVoid(d) \/ AbortRequest(d)
      PROVE  RequestsOK'
  BY <1>2, <1>3 DEF CommitSettle, CommitVoid, AbortRequest
<1>4. CASE closer' = closer
  BY <1>4 DEF RequestsOK
<1>5. ASSUME JobStep
      PROVE  closer' = closer
  BY <1>5 DEF JobStep, ListOpenBets, FinishJob, KillJob, FetchSport, FetchFails, SettleOneBet, SettleFails
<1>6. ASSUME NEW g \in Games, LeaveWindow(g) \/ \E outcome \in Outcomes : GameEnds(g, outcome)
      PROVE  closer' = closer
  BY <1>6 DEF LeaveWindow, GameEnds
<1>7. ASSUME NEW t \in ManualTickets, CreateManual(t)
      PROVE  closer' = closer
  BY <1>7 DEF CreateManual
<1> QED
  BY <1>1, <1>3, <1>4, <1>5, <1>6, <1>7 DEF SettleNext, CloserStep, ClosingVerdicts, settleVars

(* The run of auto_settlement.                                             *)
LEMMA JobKeepsType ==
  ASSUME JobOK, [SettleNext]_settleVars
  PROVE  JobOK'
<1>1. CASE ListOpenBets
  BY <1>1 DEF ListOpenBets, JobOK, IdleJob, OpenBets
<1>2. CASE FinishJob \/ KillJob
  BY <1>2 DEF FinishJob, KillJob, JobOK, IdleJob
<1>3. ASSUME NEW s \in Sports, FetchSport(s)
      PROVE  JobOK'
  <2> DEFINE Verdict(k) == AutoVerdict(bets[k].ticket, score[GameOf(k)])
             verdicts == {[key |-> k, verdict |-> Verdict(k)] : k \in {j \in OfSport(s) : GameOf(j) \in Scores(s)}}
             batch == {v \in verdicts : v.verdict # "none"}
  <2>1. \A k \in Keys : Verdict(k) \in Verdicts \cup {"none"}
    BY DEF AutoVerdict, Verdicts
  <2>2. OfSport(s) \subseteq Keys
    BY DEF OfSport, JobOK
  <2>3. batch \subseteq [key : Keys, verdict : Verdicts]
    <3> SUFFICES ASSUME NEW k \in Keys, Verdict(k) # "none"
                 PROVE  [key |-> k, verdict |-> Verdict(k)] \in [key : Keys, verdict : Verdicts]
      BY <2>2
    <3> QED
      BY <2>1
  <2>4. job' = [job EXCEPT !.todo = @ \ OfSport(s), !.batch = batch]
    BY <1>3 DEF FetchSport
  <2> HIDE DEF batch
  <2> QED
    BY <2>3, <2>4 DEF JobOK
<1>4. ASSUME NEW s \in Sports, FetchFails(s)
      PROVE  JobOK'
  BY <1>4 DEF FetchFails, JobOK
<1>5. ASSUME NEW k \in Keys, SettleOneBet(k) \/ SettleFails(k)
      PROVE  JobOK'
  <2>1. PICK v \in job.batch : job' = [job EXCEPT !.batch = @ \ {v}]
    BY <1>5 DEF SettleOneBet, SettleFails
  <2> QED
    BY <2>1 DEF JobOK
<1>6. CASE job' = job
  BY <1>6 DEF JobOK
<1>7. ASSUME NEW d \in Closers, CloserStep(d)
      PROVE  job' = job
  BY <1>7 DEF CloserStep, ReadBet, CommitSettle, CommitVoid, AbortRequest
<1>8. ASSUME NEW g \in Games, LeaveWindow(g) \/ \E outcome \in Outcomes : GameEnds(g, outcome)
      PROVE  job' = job
  BY <1>8 DEF LeaveWindow, GameEnds
<1>9. ASSUME NEW t \in ManualTickets, CreateManual(t)
      PROVE  job' = job
  BY <1>9 DEF CreateManual
<1> QED
  BY <1>1, <1>2, <1>3, <1>4, <1>5, <1>6, <1>7, <1>8, <1>9 DEF SettleNext, JobStep, settleVars

(* The games and the scores that the provider lists.                       *)
LEMMA GamesKeepType ==
  ASSUME GamesOK, [SettleNext]_settleVars
  PROVE  GamesOK'
<1>1. ASSUME NEW g \in Games, LeaveWindow(g) \/ \E outcome \in Outcomes : GameEnds(g, outcome)
      PROVE  GamesOK'
  BY <1>1 DEF LeaveWindow, GameEnds, GamesOK
<1>2. ASSUME NEW d \in Closers, CloserStep(d)
      PROVE  UNCHANGED <<score, listed>>
  BY <1>2 DEF CloserStep, ReadBet, CommitSettle, CommitVoid, AbortRequest
<1>3. ASSUME JobStep
      PROVE  UNCHANGED <<score, listed>>
  BY <1>3 DEF JobStep, ListOpenBets, FinishJob, KillJob, FetchSport, FetchFails, SettleOneBet, SettleFails
<1>4. ASSUME NEW t \in ManualTickets, CreateManual(t)
      PROVE  UNCHANGED <<score, listed>>
  BY <1>4 DEF CreateManual
<1>5. CASE UNCHANGED <<score, listed>>
  BY <1>5 DEF GamesOK
<1> QED
  BY <1>1, <1>2, <1>3, <1>4, <1>5 DEF SettleNext, settleVars

(* The initial state is well typed.                                        *)
LEMMA SettleTypeInit == SettleInit => SettlementTypeOK
  BY DEF SettleInit, TablesInit, SettlementTypeOK, TablesTypeOK, NoRow, NoEntries, Rows, Statuses,
         Results, IdleJob

(* Every step keeps it so.                                                 *)
LEMMA SettleTypeStep == SettlementTypeOK /\ [SettleNext]_settleVars => SettlementTypeOK'
<1>1. SettlementTypeOK <=> TablesTypeOK /\ RequestsOK /\ JobOK /\ GamesOK
  BY DEF SettlementTypeOK, RequestsOK, JobOK, GamesOK, ClosingVerdicts
<1>2. (SettlementTypeOK <=> TablesTypeOK /\ RequestsOK /\ JobOK /\ GamesOK)'
  BY DEF SettlementTypeOK, RequestsOK, JobOK, GamesOK, ClosingVerdicts
<1> QED
  BY <1>1, <1>2, TablesKeepType, RequestsKeepType, JobKeepsType, GamesKeepType

(* Every variable keeps its type, whoever closes which bets in what order. *)
THEOREM SettlementTypeCorrect == SettleSpec => []SettlementTypeOK
  BY SettleTypeInit, SettleTypeStep, PTL DEF SettleSpec

-----------------------------------------------------------------------------
(* Whoever means to close a bet has seen it placed.  By the time it writes *)
(* another may have closed it: that is all that can have happened.         *)
Past == {"placed", "settled", "voided"}

SeenPlaced ==
  /\ \A d \in Closers : closer[d].at = "read" => bets[closer[d].key].status \in Past
  /\ \A k \in job.todo : bets[k].status \in Past
  /\ \A v \in job.batch : bets[v.key].status \in Past

PastStays == \A k \in Keys : bets[k].status \in Past => bets'[k].status \in Past

(* A row that was placed or closed is one for ever.                        *)
LEMMA ClosersKeepPast ==
  ASSUME SettlementTypeOK, [SettleNext]_settleVars
  PROVE  PastStays
<1>0. TablesTypeOK /\ bets \in [Keys -> Rows]
  BY DEF SettlementTypeOK, TablesTypeOK
<1>1. CASE UNCHANGED tables
  BY <1>1 DEF tables, PastStays
<1>2. ASSUME NEW t \in ManualTickets, Enters(t, "placed")
      PROVE  PastStays
  <2>1. t.key \in Keys /\ bets[t.key].status = "none"
    BY <1>0, <1>2, EntersEffect, SettlementAssumption, TicketParts
  <2>2. \A k \in Keys \ {t.key} : bets'[k] = bets[k]
    BY <1>0, <1>2, <2>1 DEF Enters, InsertRow
  <2> QED
    BY <2>1, <2>2 DEF PastStays, Past
<1>3. ASSUME NEW k \in Keys, NEW type, NEW to \in Past, NEW result, ClosesAs(k, type, to, result)
      PROVE  PastStays
  BY <1>3 DEF ClosesAs, PastStays
<1>4. ASSUME NEW k \in Keys, NEW verdict \in Verdicts, Settles(k, verdict)
      PROVE  PastStays
  BY <1>0, <1>3, <1>4, SettlesEffect DEF Past
<1>5. ASSUME NEW k \in Keys, Voids(k)
      PROVE  PastStays
  BY <1>0, <1>3, <1>5, VoidsEffect DEF Past
<1> QED
  BY <1>1, <1>2, <1>4, <1>5, TableStep

(* At first nobody has seen a bet.                                         *)
LEMMA SeenInit == SettleInit => SeenPlaced
  BY DEF SettleInit, SeenPlaced, IdleJob

(* A step that no closer takes leaves what they have seen. *)
LEMMA SeenByOthers ==
  ASSUME SettlementTypeOK, SeenPlaced, PastStays, UNCHANGED <<closer, job>>
  PROVE  SeenPlaced'
  BY DEF SettlementTypeOK, SeenPlaced, PastStays

(* What a closer has seen placed was placed, whatever has become of it.    *)
LEMMA SeenStep ==
  ASSUME SettlementTypeOK, SeenPlaced, [SettleNext]_settleVars
  PROVE  SeenPlaced'
<1>0. PastStays
  BY ClosersKeepPast
<1>1. ASSUME NEW d \in Closers, NEW k \in Keys, NEW verdict \in ClosingVerdicts, ReadBet(d, k, verdict)
      PROVE  SeenPlaced'
  <2>1. bets' = bets /\ job' = job /\ bets[k].status \in Past
    BY <1>1 DEF ReadBet, tables, Past
  <2>2. \A e \in Closers : closer'[e] = IF e = d THEN [at |-> "read", key |-> k, verdict |-> verdict] ELSE closer[e]
    BY <1>1 DEF ReadBet, SettlementTypeOK
  <2> QED
    BY <2>1, <2>2 DEF SeenPlaced
<1>2. ASSUME NEW d \in Closers, EndRequest(d), job' = job
      PROVE  SeenPlaced'
  <2>1. \A e \in Closers : closer'[e] = IF e = d THEN [at |-> "idle"] ELSE closer[e]
    BY <1>2 DEF EndRequest, SettlementTypeOK
  <2>2. \A e \in Closers : closer'[e].at = "read" => closer'[e] = closer[e] /\ closer[e].key \in Keys
    BY <2>1 DEF SettlementTypeOK
  <2> QED
    BY <1>0, <1>2, <2>2 DEF SeenPlaced, PastStays, SettlementTypeOK
<1>3. ASSUME NEW d \in Closers, CloserStep(d)
      PROVE  SeenPlaced'
  BY <1>1, <1>2, <1>3 DEF CloserStep, CommitSettle, CommitVoid, AbortRequest, ClosingVerdicts
<1>4. ASSUME closer' = closer, job'.todo \subseteq job.todo, job'.batch \subseteq job.batch
      PROVE  SeenPlaced'
  BY <1>0, <1>4 DEF SeenPlaced, PastStays, SettlementTypeOK
<1>5. CASE ListOpenBets
  <2>1. closer' = closer /\ bets' = bets /\ job'.batch = {} /\ job'.todo \subseteq OpenBets
    BY <1>5 DEF ListOpenBets, IdleJob, tables
  <2> QED
    BY <2>1 DEF SeenPlaced, OpenBets, Past
<1>6. CASE FinishJob \/ KillJob
  BY <1>4, <1>6 DEF FinishJob, KillJob, IdleJob
<1>7. ASSUME NEW s \in Sports, FetchSport(s)
      PROVE  SeenPlaced'
  <2>1. /\ closer' = closer /\ bets' = bets
        /\ job'.todo \subseteq job.todo
        /\ \A v \in job'.batch : v.key \in job.todo
    BY <1>7 DEF FetchSport, tables, SettlementTypeOK, OfSport
  <2> QED
    BY <2>1 DEF SeenPlaced
<1>8. ASSUME NEW s \in Sports, FetchFails(s)
      PROVE  SeenPlaced'
  BY <1>4, <1>8 DEF FetchFails, SettlementTypeOK
<1>9. ASSUME NEW k \in Keys, SettleOneBet(k) \/ SettleFails(k)
      PROVE  SeenPlaced'
  BY <1>4, <1>9 DEF SettleOneBet, SettleFails, SettlementTypeOK
<1>10. CASE UNCHANGED <<closer, job>>
  BY <1>0, <1>10, SeenByOthers
<1>11. ASSUME NEW g \in Games, LeaveWindow(g) \/ \E outcome \in Outcomes : GameEnds(g, outcome)
       PROVE  UNCHANGED <<closer, job>>
  BY <1>11 DEF LeaveWindow, GameEnds
<1>12. ASSUME NEW t \in ManualTickets, CreateManual(t)
       PROVE  UNCHANGED <<closer, job>>
  BY <1>12 DEF CreateManual
<1> QED
  BY <1>3, <1>5, <1>6, <1>7, <1>8, <1>9, <1>10, <1>11, <1>12 DEF SettleNext, JobStep, settleVars

(* Verdicts are about bets that were placed.                               *)
LEMMA DecidedIsPast ==
  ASSUME SettlementTypeOK, SeenPlaced, NEW k \in Keys, NEW verdict, Decided(k, verdict)
  PROVE  bets[k].status \in Past
  BY DEF Decided, SeenPlaced, SettlementTypeOK

-----------------------------------------------------------------------------
(* Rows and their ledger entries.  Under a race of closers the entries of  *)
(* a key cover its row; they are exactly the row's where only the job      *)
(* closes.                                                                 *)
Covered(row, entries) ==
  /\ entries["reserved"] = IF row.status = "none" THEN 0 ELSE 1
  /\ row.status # "none" => row.ticket \in Tickets
  /\ row.status \in {"failed", "voided"} => entries["released"] >= 1
  /\ row.status = "settled" => row.result \in Verdicts /\ entries[row.result] >= 1

Exact(row, entries) ==
  /\ Covered(row, entries)
  /\ entries["released"] = IF row.status \in {"failed", "voided"} THEN 1 ELSE 0
  /\ \A verdict \in Verdicts :
       entries[verdict] = IF row.status = "settled" /\ row.result = verdict THEN 1 ELSE 0

LedgerCovers == \A k \in Keys : Covered(bets[k], ledger[k])
LedgerExact == \A k \in Keys : Exact(bets[k], ledger[k])

(* Without rows the ledger covers and matches them all.                    *)
LEMMA BooksInit == TablesInit => LedgerCovers /\ LedgerExact
  BY DEF TablesInit, NoRow, NoEntries, EntryTypes, LedgerCovers, LedgerExact, Covered, Exact, Verdicts

(* A bet that is entered has its stake reserved.                           *)
LEMMA BooksEnter ==
  ASSUME TablesTypeOK, NEW t \in Tickets, NEW to \in {"pending", "placed"}, Enters(t, to)
  PROVE  (LedgerCovers => LedgerCovers') /\ (LedgerExact => LedgerExact')
<1>1. t.key \in Keys
  BY TicketParts
<1>a. /\ bets[t.key].status = "none"
      /\ bets' = [bets EXCEPT ![t.key] = [status |-> to, ticket |-> t, result |-> "none"]]
      /\ ledger' = [ledger EXCEPT ![t.key]["reserved"] = @ + 1]
  BY EntersEffect
<1>2. /\ bets[t.key].status = "none"
      /\ bets'[t.key] = [status |-> to, ticket |-> t, result |-> "none"]
      /\ ledger'[t.key] = [ledger[t.key] EXCEPT !["reserved"] = @ + 1]
      /\ ledger[t.key] \in [EntryTypes -> Nat]
      /\ \A k \in Keys \ {t.key} : bets'[k] = bets[k] /\ ledger'[k] = ledger[k]
  BY <1>1, <1>a DEF TablesTypeOK
<1>3. Covered(bets[t.key], ledger[t.key]) => Covered(bets'[t.key], ledger'[t.key])
  BY <1>2 DEF Covered, EntryTypes
<1>4. Exact(bets[t.key], ledger[t.key]) => Exact(bets'[t.key], ledger'[t.key])
  BY <1>2, <1>3 DEF Exact, EntryTypes, Verdicts
<1> QED
  BY <1>1, <1>2, <1>3, <1>4 DEF LedgerCovers, LedgerExact

(* A closing entry is the one the row asks for, or comes on top of it.     *)
ClosingOf(type, to, result) ==
  \/ to = "settled" /\ type \in Verdicts /\ result = type
  \/ to = "voided" /\ type = "released" /\ result = "none"

(* A bet that is closed has at least the entry of its closing; and just    *)
(* that entry where it was open.                                           *)
LEMMA BooksClose ==
  ASSUME TablesTypeOK, NEW k \in Keys, NEW type, NEW to, NEW result, ClosingOf(type, to, result),
         bets[k].status \in Past, ClosesAs(k, type, to, result)
  PROVE  /\ LedgerCovers => LedgerCovers'
         /\ bets[k].status = "placed" /\ LedgerExact => LedgerExact'
<1>1. /\ ledger[k] \in [EntryTypes -> Nat]
      /\ type \in EntryTypes \ {"reserved"}
  BY DEF TablesTypeOK, ClosingOf, Verdicts, EntryTypes
<1>2. /\ ledger'[k][type] = ledger[k][type] + 1
      /\ \A other \in EntryTypes \ {type} : ledger'[k][other] = ledger[k][other]
  BY <1>1 DEF ClosesAs
<1>3. CASE bets[k].status = "placed"
  <2>1. bets'[k].status = to /\ bets'[k].result = result /\ bets'[k].ticket = bets[k].ticket
    BY <1>3 DEF ClosesAs
  <2>2. Covered(bets[k], ledger[k]) => Covered(bets'[k], ledger'[k])
    BY <1>1, <1>2, <1>3, <2>1 DEF Covered, ClosingOf, EntryTypes, Verdicts
  <2>3. Exact(bets[k], ledger[k]) => Exact(bets'[k], ledger'[k])
    BY <1>1, <1>2, <1>3, <2>1, <2>2 DEF Exact, ClosingOf, EntryTypes, Verdicts
  <2> QED
    BY <2>2, <2>3 DEF LedgerCovers, LedgerExact, ClosesAs
<1>4. CASE bets[k].status # "placed"
  <2>1. bets'[k] = bets[k] /\ \A other \in EntryTypes : ledger'[k][other] >= ledger[k][other]
    BY <1>1, <1>2, <1>4 DEF ClosesAs
  <2>2. bets'[k].status # "none" /\ ledger'[k]["reserved"] = ledger[k]["reserved"]
    BY <1>1, <1>2, <2>1 DEF Past, EntryTypes
  <2>3. \A other \in EntryTypes : ledger'[k][other] \in Nat
    BY <1>1, <1>2
  <2>4. Covered(bets[k], ledger[k]) => Covered(bets'[k], ledger'[k])
    BY <1>1, <2>1, <2>2, <2>3 DEF Covered, EntryTypes, Verdicts
  <2> QED
    BY <1>4, <2>4 DEF LedgerCovers, ClosesAs
<1> QED
  BY <1>3, <1>4

(* However closers race, the entries cover the rows.                       *)
LEMMA CoversStep ==
  ASSUME SettlementTypeOK, SeenPlaced, LedgerCovers, [SettleNext]_settleVars
  PROVE  LedgerCovers'
<1>0. TablesTypeOK
  BY DEF SettlementTypeOK
<1>1. CASE UNCHANGED tables
  BY <1>1 DEF tables, LedgerCovers
<1>2. ASSUME NEW t \in ManualTickets, Enters(t, "placed")
      PROVE  LedgerCovers'
  BY <1>0, <1>2, BooksEnter, SettlementAssumption
<1>3. ASSUME NEW k \in Keys, NEW verdict \in Verdicts, Decided(k, verdict), Settles(k, verdict)
      PROVE  LedgerCovers'
  BY <1>0, <1>3, SettlesEffect, BooksClose, DecidedIsPast DEF ClosingOf
<1>4. ASSUME NEW k \in Keys, Decided(k, "void"), Voids(k)
      PROVE  LedgerCovers'
  BY <1>0, <1>4, VoidsEffect, BooksClose, DecidedIsPast DEF ClosingOf
<1> QED
  BY <1>1, <1>2, <1>3, <1>4, TableStep

(* Factors. *)
LEMMA ProductIsNat == ASSUME NEW n \in Nat, NEW m \in Nat PROVE n * m \in Nat
  BY SMT

(* An amount posted n times is at least the amount.                        *)
LEMMA ProductCovers ==
  ASSUME NEW n \in Nat, NEW m \in Nat, n >= 1
  PROVE  n * m \in Nat /\ n * m >= m
<1>1. PICK p \in Nat : n = p + 1
  BY SMT
<1>2. n * m = p * m + m
  BY <1>1, SMT
<1> QED
  BY <1>2, ProductIsNat

(* Entries that cover the row of a key add up to what is owed, or more.    *)
LEMMA CoveredIsNeverShort ==
  ASSUME TablesTypeOK, NEW k \in Keys, Covered(bets[k], ledger[k])
  PROVE  Net(k) >= Owed(bets[k])
<1>1. CASE bets[k].status = "none"
  BY <1>1 DEF Net, Owed
<1>2. CASE bets[k].status # "none"
  <2> DEFINE t == bets[k].ticket
             released == ledger[k]["released"]
             won == ledger[k]["win"]
             pushed == ledger[k]["push"]
             paid == Payout(t, "win")
  <2>1. /\ t \in Tickets /\ t.stake \in Nat /\ paid \in Nat
        /\ released \in Nat /\ won \in Nat /\ pushed \in Nat
        /\ ledger[k]["reserved"] = 1
    BY <1>2, TicketParts, PayoutIsNat DEF Covered, TablesTypeOK, EntryTypes
  <2>2. Net(k) = ledger[k]["reserved"] * (-t.stake) + released * t.stake + won * paid + pushed * t.stake
    BY <1>2, <2>1, NetOfRow
  <2>3. /\ released * t.stake \in Nat /\ won * paid \in Nat /\ pushed * t.stake \in Nat
        /\ released >= 1 => released * t.stake >= t.stake
        /\ won >= 1 => won * paid >= paid
        /\ pushed >= 1 => pushed * t.stake >= t.stake
    BY <2>1, ProductIsNat, ProductCovers
  <2>4. Payout(t, "push") = t.stake /\ Payout(t, "loss") = 0
    BY DEF Payout
  <2>5. Owed(bets[k]) =
          CASE bets[k].status = "settled" -> Payout(t, bets[k].result) - t.stake
            [] bets[k].status \in {"voided", "failed"} -> 0
            [] OTHER -> -t.stake
    BY <1>2 DEF Owed
  <2>6. /\ bets[k].status \in {"failed", "voided"} => released >= 1
        /\ bets[k].status = "settled" => \/ bets[k].result = "win" /\ won >= 1
                                         \/ bets[k].result = "loss"
                                         \/ bets[k].result = "push" /\ pushed >= 1
    BY DEF Covered, Verdicts
  <2>7. Net(k) = -t.stake + released * t.stake + won * paid + pushed * t.stake
    BY <2>1, <2>2
  <2> HIDE DEF released, won, pushed, paid
  <2>8. CASE bets[k].status = "settled"
    <3>1. CASE bets[k].result = "win" /\ won >= 1
      BY <2>1, <2>3, <2>5, <2>7, <2>8, <3>1 DEF paid
    <3>2. CASE bets[k].result = "loss"
      BY <2>1, <2>3, <2>4, <2>5, <2>7, <2>8, <3>2
    <3>3. CASE bets[k].result = "push" /\ pushed >= 1
      BY <2>1, <2>3, <2>4, <2>5, <2>7, <2>8, <3>3
    <3> QED
      BY <2>6, <2>8, <3>1, <3>2, <3>3
  <2>9. CASE bets[k].status \in {"voided", "failed"}
    BY <2>1, <2>3, <2>5, <2>6, <2>7, <2>9
  <2>10. CASE bets[k].status \notin {"settled", "voided", "failed"}
    BY <2>1, <2>3, <2>5, <2>7, <2>10
  <2> QED
    BY <2>8, <2>9, <2>10
<1> QED
  BY <1>1, <1>2

(* Entries that are exactly the row's add up to what is owed.              *)
LEMMA ExactIsReconciled ==
  ASSUME TablesTypeOK, NEW k \in Keys, Exact(bets[k], ledger[k])
  PROVE  Net(k) = Owed(bets[k])
<1>1. CASE bets[k].status = "none"
  BY <1>1 DEF Net, Owed
<1>2. CASE bets[k].status # "none"
  <2> DEFINE t == bets[k].ticket
             released == ledger[k]["released"]
             won == ledger[k]["win"]
             pushed == ledger[k]["push"]
             paid == Payout(t, "win")
  <2>1. /\ t \in Tickets /\ t.stake \in Nat /\ paid \in Nat
        /\ ledger[k]["reserved"] = 1
    BY <1>2, TicketParts, PayoutIsNat DEF Exact, Covered
  <2>2. Net(k) = ledger[k]["reserved"] * (-t.stake) + released * t.stake + won * paid + pushed * t.stake
    BY <1>2, <2>1, NetOfRow
  <2>3. /\ released = IF bets[k].status \in {"failed", "voided"} THEN 1 ELSE 0
        /\ won = IF bets[k].status = "settled" /\ bets[k].result = "win" THEN 1 ELSE 0
        /\ pushed = IF bets[k].status = "settled" /\ bets[k].result = "push" THEN 1 ELSE 0
        /\ bets[k].status = "settled" => bets[k].result \in Verdicts
    BY DEF Exact, Covered, Verdicts
  <2>4. Payout(t, "push") = t.stake /\ Payout(t, "loss") = 0
    BY DEF Payout
  <2>5. Owed(bets[k]) =
          CASE bets[k].status = "settled" -> Payout(t, bets[k].result) - t.stake
            [] bets[k].status \in {"voided", "failed"} -> 0
            [] OTHER -> -t.stake
    BY <1>2 DEF Owed
  <2> HIDE DEF released, won, pushed, paid
  <2>6. /\ released * t.stake = IF bets[k].status \in {"failed", "voided"} THEN t.stake ELSE 0
        /\ won * paid = IF bets[k].status = "settled" /\ bets[k].result = "win" THEN paid ELSE 0
        /\ pushed * t.stake = IF bets[k].status = "settled" /\ bets[k].result = "push" THEN t.stake ELSE 0
    BY <2>1, <2>3
  <2>7. Net(k) = -t.stake + released * t.stake + won * paid + pushed * t.stake
    BY <2>1, <2>2
  <2>8. CASE bets[k].status = "settled"
    <3>1. CASE bets[k].result = "win"
      BY <2>1, <2>5, <2>6, <2>7, <2>8, <3>1 DEF paid
    <3>2. CASE bets[k].result = "loss"
      BY <2>1, <2>4, <2>5, <2>6, <2>7, <2>8, <3>2
    <3>3. CASE bets[k].result = "push"
      BY <2>1, <2>4, <2>5, <2>6, <2>7, <2>8, <3>3
    <3> QED
      BY <2>3, <2>8, <3>1, <3>2, <3>3 DEF Verdicts
  <2>9. CASE bets[k].status \in {"voided", "failed"}
    BY <2>1, <2>5, <2>6, <2>7, <2>9
  <2>10. CASE bets[k].status \notin {"settled", "voided", "failed"}
    BY <2>1, <2>5, <2>6, <2>7, <2>10
  <2> QED
    BY <2>8, <2>9, <2>10
<1> QED
  BY <1>1, <1>2

(* The invariant under any race of closers. *)
RaceInv == SettlementTypeOK /\ SeenPlaced /\ LedgerCovers

(* What holds however many requests race the job.                          *)
LEMMA RaceInvariant == SettleSpec => []RaceInv
<1>1. SettleInit => RaceInv
  BY SettleTypeInit, SeenInit, BooksInit DEF RaceInv, SettleInit
<1>2. RaceInv /\ [SettleNext]_settleVars => RaceInv'
  BY SettleTypeStep, SeenStep, CoversStep DEF RaceInv
<1> QED
  BY <1>1, <1>2, PTL DEF SettleSpec

(* Covered rows are never short.                                           *)
LEMMA CoversSuffice == TablesTypeOK /\ LedgerCovers => NeverShort
  BY CoveredIsNeverShort DEF LedgerCovers, NeverShort

(* Whoever wins the guarded UPDATE, the ledger never holds less for a bet  *)
(* than its row says: however many requests and job runs race, no stake    *)
(* and no winnings are lost (they may be credited twice).                  *)
THEOREM NothingIsLost == SettleSpec => []NeverShort
<1>1. RaceInv => NeverShort
  BY CoversSuffice DEF RaceInv, SettlementTypeOK
<1> QED
  BY <1>1, RaceInvariant, PTL

(* A row is closed once, from placed, and is final from then on, although  *)
(* the closers write without reading again.                                *)
THEOREM RowsCloseOnce == SettleSpec => ClosedOnce
<1> DEFINE Once(k) == /\ bets[k].status \in {"settled", "voided", "failed"} => bets'[k] = bets[k]
                      /\ bets'[k].status \in {"settled", "voided"} /\ bets'[k] # bets[k]
                           => bets[k].status = "placed"
<1>1. ASSUME SettlementTypeOK, [SettleNext]_settleVars
      PROVE  \A k \in Keys : Once(k)
  <2>0. TablesTypeOK
    BY <1>1 DEF SettlementTypeOK
  <2>1. CASE UNCHANGED tables
    BY <2>1 DEF tables
  <2>2. ASSUME NEW t \in ManualTickets, Enters(t, "placed")
        PROVE  \A k \in Keys : Once(k)
    <3>1. t \in Tickets /\ t.key \in Keys
      BY TicketParts, SettlementAssumption
    <3>2. /\ bets[t.key].status = "none"
          /\ bets' = [bets EXCEPT ![t.key] = [status |-> "placed", ticket |-> t, result |-> "none"]]
      BY <2>0, <2>2, <3>1, EntersEffect
    <3> QED
      BY <2>0, <3>1, <3>2 DEF TablesTypeOK
  <2>3. ASSUME NEW k \in Keys, NEW type, NEW to, NEW result, ClosesAs(k, type, to, result)
        PROVE  \A j \in Keys : Once(j)
    BY <2>3 DEF ClosesAs
  <2>4. ASSUME NEW k \in Keys, NEW verdict \in Verdicts, Settles(k, verdict)
        PROVE  \A j \in Keys : Once(j)
    BY <2>0, <2>3, <2>4, SettlesEffect
  <2>5. ASSUME NEW k \in Keys, Voids(k)
        PROVE  \A j \in Keys : Once(j)
    BY <2>0, <2>3, <2>5, VoidsEffect
  <2> HIDE DEF Once
  <2> QED
    BY <1>1, <2>1, <2>2, <2>4, <2>5, TableStep
<1> QED
  BY <1>1, SettlementTypeCorrect, PTL DEF SettleSpec, ClosedOnce

-----------------------------------------------------------------------------
(* Where no request closes bets, the job's own work list stays true: what  *)
(* it means to settle is still placed, and it has one verdict for a bet.   *)
LoneJob ==
  /\ \A k \in job.todo : bets[k].status = "placed"
  /\ \A v \in job.batch : bets[v.key].status = "placed" /\ v.key \notin job.todo
  /\ \A v, w \in job.batch : v.key = w.key => v = w

LoneInv == SettlementTypeOK /\ LoneJob /\ LedgerExact

(* A job that has not run has decided nothing.                             *)
LEMMA LoneInit == SettleInit => LoneJob /\ LedgerExact
  BY BooksInit DEF SettleInit, LoneJob, IdleJob

PlacedStays == \A k \in Keys : bets[k].status = "placed" => bets'[k].status = "placed"

(* A step that leaves placed bets placed and the job alone, or lets it     *)
(* drop some of its work.                                                  *)
LEMMA LoneByOthers ==
  ASSUME SettlementTypeOK, LoneJob, PlacedStays,
         job'.todo \subseteq job.todo, job'.batch \subseteq job.batch
  PROVE  LoneJob'
  BY DEF SettlementTypeOK, LoneJob, PlacedStays

(* The job lists and decides bets that are open.                           *)
LEMMA LoneTodo ==
  ASSUME SettlementTypeOK, LoneJob, bets' = bets,
         ListOpenBets \/ \E s \in Sports : FetchSport(s)
  PROVE  LoneJob'
<1>1. CASE ListOpenBets
  <2>1. job'.batch = {} /\ job'.todo \subseteq OpenBets
    BY <1>1 DEF ListOpenBets, IdleJob
  <2> QED
    BY <2>1 DEF LoneJob, OpenBets
<1>2. ASSUME NEW s \in Sports, FetchSport(s)
      PROVE  LoneJob'
  <2> DEFINE Verdict(k) == AutoVerdict(bets[k].ticket, score[GameOf(k)])
             decided == {k \in OfSport(s) : GameOf(k) \in Scores(s)}
             verdicts == {[key |-> k, verdict |-> Verdict(k)] : k \in decided}
             batch == {v \in verdicts : v.verdict # "none"}
  <2>1. job' = [job EXCEPT !.todo = @ \ OfSport(s), !.batch = batch]
    BY <1>2 DEF FetchSport
  <2>2. decided \subseteq OfSport(s) /\ OfSport(s) \subseteq job.todo
    BY DEF OfSport
  <2>3. \A v \in batch : v.key \in decided /\ v = [key |-> v.key, verdict |-> Verdict(v.key)]
    <3> HIDE DEF Verdict, decided
    <3> QED
      OBVIOUS
  <2> HIDE DEF Verdict, decided, batch
  <2>4. job'.todo = job.todo \ OfSport(s) /\ job'.batch = batch
    BY <2>1 DEF SettlementTypeOK
  <2>5. \A v, w \in batch : v.key = w.key => v = w
    BY <2>3
  <2> QED
    BY <2>2, <2>3, <2>4, <2>5 DEF LoneJob
<1> QED
  BY <1>1, <1>2

(* The job alone settles a bet that is still placed, and once.             *)
LEMMA LoneSettles ==
  ASSUME SettlementTypeOK, LoneJob, LedgerExact, NEW k \in Keys, SettleOneBet(k)
  PROVE  LoneJob' /\ LedgerExact'
<1>1. PICK v \in job.batch : /\ v.key = k
                            /\ UpdateBetSettled(k, v.verdict)
                            /\ Post(k, v.verdict)
                            /\ job' = [job EXCEPT !.batch = @ \ {v}]
  BY DEF SettleOneBet
<1>2. v.verdict \in Verdicts /\ TablesTypeOK /\ bets[k].status = "placed"
  BY <1>1 DEF SettlementTypeOK, LoneJob
<1>3. ClosesAs(k, v.verdict, "settled", v.verdict)
  BY <1>1, <1>2, SettlesEffect DEF Settles
<1>4. LedgerExact'
  BY <1>2, <1>3, BooksClose DEF ClosingOf, Past
<1>5. /\ job'.todo = job.todo /\ job'.batch = job.batch \ {v}
      /\ \A j \in Keys \ {k} : bets'[j] = bets[j]
  BY <1>1, <1>3 DEF SettlementTypeOK, ClosesAs
<1>6. \A w \in job'.batch : w.key \in Keys \ {k}
  BY <1>1, <1>5 DEF LoneJob, SettlementTypeOK
<1>7. \A j \in job'.todo : j \in Keys \ {k}
  BY <1>1, <1>5 DEF LoneJob, SettlementTypeOK
<1> QED
  BY <1>4, <1>5, <1>6, <1>7 DEF LoneJob

(* Without requests that close bets, what the job decided stays to be      *)
(* done, and the books stay exact.                                         *)
LEMMA LoneStep ==
  ASSUME Closers = {}, LoneInv, [SettleNext]_settleVars
  PROVE  LoneJob' /\ LedgerExact'
<1>0. SettlementTypeOK /\ TablesTypeOK /\ LoneJob /\ LedgerExact
  BY DEF LoneInv, SettlementTypeOK
<1>1. ASSUME UNCHANGED tables
      PROVE  LedgerExact' /\ PlacedStays /\ bets' = bets
  BY <1>0, <1>1 DEF tables, LedgerExact, PlacedStays
<1>2. ASSUME NEW t \in ManualTickets, CreateManual(t)
      PROVE  LoneJob' /\ LedgerExact'
  <2>1. Enters(t, "placed") /\ t \in Tickets /\ t.key \in Keys
    BY <1>2, TicketParts, SettlementAssumption DEF CreateManual, Enters
  <2>2. bets' = [bets EXCEPT ![t.key] = [status |-> "placed", ticket |-> t, result |-> "none"]]
    BY <1>0, <2>1, EntersEffect
  <2>3. PlacedStays
    BY <1>0, <2>1, <2>2 DEF PlacedStays, TablesTypeOK
  <2>4. job' = job
    BY <1>2 DEF CreateManual
  <2> QED
    BY <1>0, <2>1, <2>3, <2>4, BooksEnter, LoneByOthers
<1>3. CASE ListOpenBets \/ \E s \in Sports : FetchSport(s)
  <2>1. UNCHANGED tables
    BY <1>3 DEF ListOpenBets, FetchSport
  <2> QED
    BY <1>0, <1>1, <1>3, <2>1, LoneTodo
<1>4. ASSUME \/ FinishJob \/ KillJob
             \/ \E s \in Sports : FetchFails(s)
             \/ \E k \in Keys : SettleFails(k)
      PROVE  LoneJob' /\ LedgerExact'
  <2>1. UNCHANGED tables /\ job'.todo \subseteq job.todo /\ job'.batch \subseteq job.batch
    BY <1>0, <1>4 DEF FinishJob, KillJob, IdleJob, FetchFails, SettleFails, SettlementTypeOK
  <2> QED
    BY <1>0, <1>1, <2>1, LoneByOthers
<1>5. ASSUME NEW k \in Keys, SettleOneBet(k)
      PROVE  LoneJob' /\ LedgerExact'
  BY <1>0, <1>5, LoneSettles
<1>6. ASSUME NEW g \in Games, LeaveWindow(g) \/ \E outcome \in Outcomes : GameEnds(g, outcome)
      PROVE  UNCHANGED <<bets, ledger, job>>
  BY <1>6 DEF LeaveWindow, GameEnds, tables
<1>7. CASE UNCHANGED <<bets, ledger, job>>
  BY <1>0, <1>1, <1>7, LoneByOthers DEF tables
<1>8. CASE JobStep
  BY <1>3, <1>4, <1>5, <1>8 DEF JobStep
<1> QED
  BY <1>2, <1>6, <1>7, <1>8 DEF SettleNext, settleVars

(* While the buttons are left alone the job's ledger rows agree with the   *)
(* bets to the cent, although runs of it are killed half-way, fetches and  *)
(* transactions fail, and nothing is read again before it is written.      *)
THEOREM LoneJobReconciles == ASSUME Closers = {} PROVE SettleSpec => []LedgerReconciles
<1>1. SettleInit => LoneInv
  BY SettleTypeInit, LoneInit DEF LoneInv
<1>2. LoneInv /\ [SettleNext]_settleVars => LoneInv'
  BY SettleTypeStep, LoneStep DEF LoneInv
<1>3. LoneInv => LedgerReconciles
  BY ExactIsReconciled DEF LoneInv, SettlementTypeOK, LedgerExact, LedgerReconciles
<1> QED
  BY <1>1, <1>2, <1>3, PTL DEF SettleSpec

-----------------------------------------------------------------------------
(***************************************************************************)
(* Placement and Settlement together.                                      *)
(***************************************************************************)
(* What Place does to the tables is what it does alone: it enters a        *)
(* pending row, or resolves the pending row it entered.                    *)
Resolves(k, to) ==
  /\ bets[k].status = "pending"
  /\ TablesTypeOK'
  /\ \A j \in Keys \ {k} : bets'[j] = bets[j] /\ ledger'[j] = ledger[j]
  /\ bets'[k].status = to /\ bets'[k].ticket = bets[k].ticket
  /\ ledger'[k] = IF to = "failed" THEN [ledger[k] EXCEPT !["released"] = @ + 1] ELSE ledger[k]

(* What OneOwner says of a call that has its row: the row is pending,      *)
(* filed under the call's key, and the book was asked when the call is     *)
(* answered.                                                               *)
LEMMA OwnerFacts ==
  ASSUME PlacementTypeOK, OneOwner, NEW c \in Callers, call[c].at \in {"reserved", "answered"}
  PROVE  /\ KeyOf(c) \in Keys /\ call[c].ticket \in Inputs /\ call[c].ticket.key = KeyOf(c)
         /\ bets[KeyOf(c)].status = "pending" /\ bets[KeyOf(c)].ticket = call[c].ticket
         /\ asked[KeyOf(c)] = IF call[c].at = "answered" THEN 1 ELSE 0
         /\ took[KeyOf(c)] = IF call[c].at = "answered" /\ call[c].answer # "refused" THEN 1 ELSE 0
  BY InputKeys DEF PlacementTypeOK, OneOwner, KeyOf

(* Tx1 of Place enters its ticket as a pending row, as manual entry does   *)
(* as a placed one.                                                        *)
LEMMA ReserveEnters ==
  ASSUME PlacementTypeOK, NEW c \in Callers, Reserve(c)
  PROVE  /\ call[c].ticket \in Inputs /\ call[c].ticket \in Tickets
         /\ Enters(call[c].ticket, "pending")
         /\ UNCHANGED <<asked, took>>
  BY InputKeys DEF PlacementTypeOK, Reserve, Enters, KeyOf

(* Tx2 of Place resolves a row that is still pending, by what the book     *)
(* answered.                                                               *)
LEMMA ResolveEffect ==
  ASSUME PlacementTypeOK, OneOwner, NEW c \in Callers, Confirm(c) \/ Release(c)
  PROVE  /\ Resolves(KeyOf(c), IF call[c].answer = "taken" THEN "placed" ELSE "failed")
         /\ UNCHANGED <<asked, took>>
<1> DEFINE k == KeyOf(c)
<1>1. k \in Keys /\ bets[k].status = "pending"
  BY OwnerFacts DEF Confirm, Release
<1>2. bets \in [Keys -> Rows] /\ ledger \in [Keys -> [EntryTypes -> Nat]]
  BY DEF PlacementTypeOK, TablesTypeOK
<1>3. ASSUME NEW to \in {"placed", "failed"}, UpdateWhere(k, "pending", to, "none")
      PROVE  /\ bets' \in [Keys -> Rows]
             /\ \A j \in Keys \ {k} : bets'[j] = bets[j]
             /\ bets'[k].status = to /\ bets'[k].ticket = bets[k].ticket
  <2>1. bets' = [bets EXCEPT ![k] = [bets[k] EXCEPT !.status = to, !.result = "none"]]
    BY <1>1, <1>2, <1>3 DEF UpdateWhere
  <2> QED
    BY <1>1, <1>2, <2>1 DEF Rows, Statuses, Results
<1>4. CASE Confirm(c)
  BY <1>1, <1>2, <1>3, <1>4 DEF Confirm, UpdateBetPlaced, Resolves, TablesTypeOK
<1>5. CASE Release(c)
  <2>1. UpdateWhere(k, "pending", "failed", "none") /\ Post(k, "released") /\ call[c].answer # "taken"
    BY <1>5 DEF Release, UpdateBetFailed
  <2>2. ledger' = [ledger EXCEPT ![k]["released"] = @ + 1]
    BY <2>1 DEF Post
  <2>3. /\ ledger' \in [Keys -> [EntryTypes -> Nat]]
        /\ \A j \in Keys \ {k} : ledger'[j] = ledger[j]
        /\ ledger'[k] = [ledger[k] EXCEPT !["released"] = @ + 1]
    BY <1>1, <1>2, <2>2 DEF EntryTypes
  <2> QED
    BY <1>1, <1>3, <1>5, <2>1, <2>3 DEF Release, Resolves, TablesTypeOK
<1> QED
  BY <1>4, <1>5

(* What Place can do to the two tables: enter a pending row or resolve     *)
(* one.                                                                    *)
LEMMA PlaceTables ==
  ASSUME PlacementTypeOK, OneOwner, [PlaceNext]_placeVars
  PROVE  \/ UNCHANGED tables
         \/ \E t \in Inputs : t \in Tickets /\ Enters(t, "pending")
         \/ \E k \in Keys, to \in {"placed", "failed"} : Resolves(k, to)
<1>1. ASSUME NEW c \in Callers, Reserve(c)
      PROVE  \E t \in Inputs : t \in Tickets /\ Enters(t, "pending")
  BY <1>1, ReserveEnters
<1>2. ASSUME NEW c \in Callers, Confirm(c) \/ Release(c)
      PROVE  \E k \in Keys, to \in {"placed", "failed"} : Resolves(k, to)
  BY <1>2, ResolveEffect, OwnerFacts DEF Confirm, Release
<1>3. ASSUME NEW c \in Callers, NEW t \in Inputs, ReturnExisting(c, t) \/ PassCheck(c, t)
      PROVE  UNCHANGED tables
  BY <1>3 DEF ReturnExisting, PassCheck, tables
<1>4. ASSUME NEW c \in Callers, RefuseInsert(c) \/ CallAdapter(c) \/ Abandon(c)
      PROVE  UNCHANGED tables
  BY <1>4 DEF RefuseInsert, CallAdapter, Abandon, tables
<1>5. CASE UNCHANGED placeVars
  BY <1>5 DEF placeVars, tables
<1> QED
  BY <1>1, <1>2, <1>3, <1>4, <1>5 DEF PlaceNext, PlaceStep, Advance

-----------------------------------------------------------------------------
(* Place and those who close bets do not get into each other's way: what a *)
(* closer has seen stays seen, and a pending row is left alone.            *)
LEMMA PlaceKeepsPast ==
  ASSUME PlacementTypeOK, OneOwner, [PlaceNext]_placeVars
  PROVE  PastStays /\ PlacedStays
<1>1. CASE UNCHANGED tables
  BY <1>1 DEF tables, PastStays, PlacedStays
<1>2. ASSUME NEW t \in Tickets, Enters(t, "pending")
      PROVE  PastStays /\ PlacedStays
  <2>1. t.key \in Keys /\ bets[t.key].status = "none"
    BY <1>2, TicketParts DEF Enters, Insertable
  <2>2. \A k \in Keys \ {t.key} : bets'[k] = bets[k]
    BY <1>2, <2>1 DEF Enters, InsertRow, PlacementTypeOK, TablesTypeOK
  <2> QED
    BY <2>1, <2>2 DEF PastStays, PlacedStays, Past
<1>3. ASSUME NEW k \in Keys, NEW to \in {"placed", "failed"}, Resolves(k, to)
      PROVE  PastStays /\ PlacedStays
  BY <1>3 DEF Resolves, PastStays, PlacedStays, Past
<1> QED
  BY <1>1, <1>2, <1>3, PlaceTables

PendingStays == \A k \in Keys : bets[k].status = "pending" => bets'[k] = bets[k]

(* Settlement and manual entry move no pending row.                        *)
LEMMA SettleKeepsPending ==
  ASSUME SettlementTypeOK, [SettleNext]_settleVars
  PROVE  PendingStays
<1>0. TablesTypeOK
  BY DEF SettlementTypeOK
<1>1. CASE UNCHANGED tables
  BY <1>1 DEF tables, PendingStays
<1>2. ASSUME NEW t \in ManualTickets, Enters(t, "placed")
      PROVE  PendingStays
  <2>1. t.key \in Keys /\ bets[t.key].status = "none"
    BY <1>2, TicketParts, SettlementAssumption DEF Enters, Insertable
  <2>2. \A k \in Keys \ {t.key} : bets'[k] = bets[k]
    BY <1>0, <1>2, <2>1 DEF Enters, InsertRow, TablesTypeOK
  <2> QED
    BY <2>1, <2>2 DEF PendingStays
<1>3. ASSUME NEW k \in Keys, NEW type, NEW to, NEW result, ClosesAs(k, type, to, result)
      PROVE  PendingStays
  BY <1>3 DEF ClosesAs, PendingStays
<1>4. ASSUME NEW k \in Keys, NEW verdict \in Verdicts, Settles(k, verdict)
      PROVE  PendingStays
  BY <1>0, <1>3, <1>4, SettlesEffect
<1>5. ASSUME NEW k \in Keys, Voids(k)
      PROVE  PendingStays
  BY <1>0, <1>3, <1>5, VoidsEffect
<1> QED
  BY <1>1, <1>2, <1>4, <1>5, TableStep

-----------------------------------------------------------------------------
(* Money: the entries of Place keep covering the rows, and exactly so.     *)
LEMMA PlaceKeepsBooks ==
  ASSUME PlacementTypeOK, OneOwner, [PlaceNext]_placeVars
  PROVE  (LedgerCovers => LedgerCovers') /\ (LedgerExact => LedgerExact')
<1>0. TablesTypeOK
  BY DEF PlacementTypeOK
<1>1. CASE UNCHANGED tables
  BY <1>1 DEF tables, LedgerCovers, LedgerExact
<1>2. ASSUME NEW t \in Tickets, Enters(t, "pending")
      PROVE  (LedgerCovers => LedgerCovers') /\ (LedgerExact => LedgerExact')
  BY <1>0, <1>2, BooksEnter
<1>3. ASSUME NEW k \in Keys, NEW to \in {"placed", "failed"}, Resolves(k, to)
      PROVE  (LedgerCovers => LedgerCovers') /\ (LedgerExact => LedgerExact')
  <2>1. ledger[k] \in [EntryTypes -> Nat]
    BY <1>0 DEF TablesTypeOK
  <2>2. /\ bets[k].status = "pending" /\ bets'[k].status = to /\ bets'[k].ticket = bets[k].ticket
        /\ ledger'[k] = IF to = "failed" THEN [ledger[k] EXCEPT !["released"] = @ + 1] ELSE ledger[k]
    BY <1>3 DEF Resolves
  <2>3. Covered(bets[k], ledger[k]) => Covered(bets'[k], ledger'[k])
    BY <2>1, <2>2 DEF Covered, EntryTypes
  <2>4. Exact(bets[k], ledger[k]) => Exact(bets'[k], ledger'[k])
    BY <2>1, <2>2, <2>3 DEF Exact, EntryTypes, Verdicts
  <2> QED
    BY <1>3, <2>3, <2>4 DEF Resolves, LedgerCovers, LedgerExact
<1> QED
  BY <1>1, <1>2, <1>3, PlaceTables

-----------------------------------------------------------------------------
(* What the requests to the book have to do with the rows: nothing bears a *)
(* key before its row does, and a row that is placed or closed was taken   *)
(* by the book unless it was entered by hand.                              *)
RowAgrees(k) ==
  /\ bets[k].status = "none" => asked[k] = 0 /\ took[k] = 0
  /\ bets[k].status \in Past => took[k] = IF bets[k].ticket \in ManualTickets THEN 0 ELSE 1
  /\ asked[k] <= 1

RowsAgree == \A k \in Keys : RowAgrees(k)

Undisturbed == OneOwner /\ RowsAgree

(* Before the first bet there is nothing to disturb.                       *)
LEMMA UndisturbedInit == ExecInit => Undisturbed
  BY DEF ExecInit, PlaceInit, TablesInit, NoRow, Undisturbed, OneOwner, RowsAgree, RowAgrees, Past

(* A call that has a row reserved and not resolved owns it. *)
Own(c) ==
  /\ bets[KeyOf(c)].status = "pending"
  /\ bets[KeyOf(c)].ticket = call[c].ticket
  /\ asked[KeyOf(c)] = IF call[c].at = "answered" THEN 1 ELSE 0
  /\ took[KeyOf(c)] = IF call[c].at = "answered" /\ call[c].answer # "refused" THEN 1 ELSE 0
Owning(c) == call[c].at \in {"reserved", "answered"}

(* OneOwner, in these terms. *)
LEMMA OwnersAreOne ==
  OneOwner <=> \A c \in Callers : Owning(c) =>
                  Own(c) /\ \A d \in Callers \ {c} : Owning(d) => KeyOf(d) # KeyOf(c)
  BY DEF OneOwner, Own, Owning

(* The same of the next state.                                             *)
LEMMA OwnersAreOneNext ==
  OneOwner' <=> \A c \in Callers : Owning(c)' =>
                  Own(c)' /\ \A d \in Callers \ {c} : Owning(d)' => KeyOf(d)' # KeyOf(c)'
  BY DEF OneOwner, Own, Owning

(* Settlement moves no pending row, and a bet entered by hand has a fresh  *)
(* row: the calls of Place do not notice.                                  *)
LEMMA SettleUndisturbed ==
  ASSUME PlacementTypeOK, SettlementTypeOK, Undisturbed, [SettleNext]_settleVars,
         UNCHANGED <<call, asked, took>>
  PROVE  Undisturbed'
<1>0. TablesTypeOK /\ OneOwner /\ RowsAgree /\ PendingStays
  BY SettleKeepsPending DEF SettlementTypeOK, Undisturbed
<1>1. OneOwner'
  <2>1. \A c \in Callers : Owning(c)' = Owning(c) /\ KeyOf(c)' = KeyOf(c)
    BY DEF Owning, KeyOf
  <2>2. ASSUME NEW c \in Callers, Owning(c)
        PROVE  Own(c)'
    <3>1. KeyOf(c) \in Keys /\ Own(c)
      BY <1>0, <2>2, OwnerFacts, OwnersAreOne DEF Owning
    <3>2. bets'[KeyOf(c)] = bets[KeyOf(c)]
      BY <1>0, <3>1 DEF PendingStays, Own
    <3> QED
      BY <2>1, <3>1, <3>2 DEF Own
  <2>3. \A c, d \in Callers : c # d /\ Owning(c) /\ Owning(d) => KeyOf(d) # KeyOf(c)
    BY <1>0, OwnersAreOne
  <2> QED
    BY <2>1, <2>2, <2>3, OwnersAreOneNext
<1>2. ASSUME UNCHANGED tables
      PROVE  RowsAgree'
  BY <1>0, <1>2 DEF tables, RowsAgree, RowAgrees
<1>3. ASSUME NEW t \in ManualTickets, Enters(t, "placed")
      PROVE  RowsAgree'
  <2>1. t.key \in Keys /\ t \in Tickets
    BY TicketParts, SettlementAssumption
  <2>2. /\ bets[t.key].status = "none"
        /\ bets' = [bets EXCEPT ![t.key] = [status |-> "placed", ticket |-> t, result |-> "none"]]
    BY <1>0, <1>3, <2>1, EntersEffect
  <2>3. /\ bets'[t.key].status = "placed" /\ bets'[t.key].ticket = t
        /\ \A k \in Keys \ {t.key} : bets'[k] = bets[k]
    BY <1>0, <2>1, <2>2 DEF TablesTypeOK
  <2> QED
    BY <1>0, <2>1, <2>2, <2>3 DEF RowsAgree, RowAgrees
<1>4. ASSUME NEW k \in Keys, NEW type, NEW to \in {"settled", "voided"}, NEW result,
             ClosesAs(k, type, to, result)
      PROVE  RowsAgree'
  <2>1. RowAgrees(k)'
    BY <1>0, <1>4 DEF ClosesAs, RowsAgree, RowAgrees, Past
  <2> QED
    BY <1>0, <1>4, <2>1 DEF ClosesAs, RowsAgree, RowAgrees
<1>5. ASSUME NEW k \in Keys, NEW verdict \in Verdicts, Settles(k, verdict)
      PROVE  RowsAgree'
  BY <1>0, <1>4, <1>5, SettlesEffect
<1>6. ASSUME NEW k \in Keys, Voids(k)
      PROVE  RowsAgree'
  BY <1>0, <1>4, <1>6, VoidsEffect
<1>7. RowsAgree'
  BY <1>0, <1>2, <1>3, <1>5, <1>6, TableStep
<1> QED
  BY <1>1, <1>7 DEF Undisturbed

-----------------------------------------------------------------------------
(* Where every other call keeps its place, and keys but that of c keep     *)
(* their rows and requests, only c's own part is left to show.             *)
LEMMA OthersKeepTheirs ==
  ASSUME PlacementTypeOK, OneOwner, NEW c \in Callers, NEW k \in Keys,
         \A d \in Callers \ {c} : call'[d] = call[d],
         \A j \in Keys \ {k} : bets'[j] = bets[j] /\ asked'[j] = asked[j] /\ took'[j] = took[j],
         \A d \in Callers \ {c} : Owning(d) => KeyOf(d) # k,
         Owning(c)' => Own(c)' /\ KeyOf(c)' = k
  PROVE  OneOwner'
<1>1. \A d \in Callers \ {c} : Owning(d)' = Owning(d) /\ KeyOf(d)' = KeyOf(d)
  BY DEF Owning, KeyOf
<1>2. ASSUME NEW d \in Callers \ {c}, Owning(d)'
      PROVE  Own(d)' /\ KeyOf(d)' # k
  <2>1. Owning(d) /\ KeyOf(d) \in Keys \ {k} /\ Own(d)
    BY <1>1, <1>2, OwnerFacts, OwnersAreOne DEF Owning
  <2> QED
    BY <1>1, <2>1 DEF Own
<1>3. \A d, e \in Callers : d # e /\ Owning(d)' /\ Owning(e)' => KeyOf(d)' # KeyOf(e)'
  BY <1>1, <1>2, OwnersAreOne
<1> QED
  BY <1>2, <1>3, OwnersAreOneNext

(* A step of a call leaves the rows of the other calls theirs, and what    *)
(* the book took agrees with the rows.                                     *)
LEMMA PlaceUndisturbed ==
  ASSUME PlacementTypeOK, Undisturbed, NEW c \in Callers, PlaceStep(c)
  PROVE  Undisturbed'
<1>0. /\ bets \in [Keys -> Rows] /\ asked \in [Keys -> Nat] /\ took \in [Keys -> Nat]
      /\ call \in [Callers -> CallStates] /\ TablesTypeOK /\ OneOwner /\ RowsAgree
  BY DEF PlacementTypeOK, TablesTypeOK, Undisturbed
<1>1. ASSUME UNCHANGED <<bets, asked, took>>, ~Owning(c)', \A d \in Callers \ {c} : call'[d] = call[d]
      PROVE  Undisturbed'
  <2>1. RowsAgree'
    BY <1>0, <1>1 DEF RowsAgree, RowAgrees
  <2>2. \A d \in Callers \ {c} : Owning(d)' = Owning(d) /\ KeyOf(d)' = KeyOf(d) /\ Own(d)' = Own(d)
    BY <1>1 DEF Owning, KeyOf, Own
  <2>3. OneOwner'
    BY <1>0, <1>1, <2>2 DEF OneOwner, Owning, Own
  <2> QED
    BY <2>1, <2>3 DEF Undisturbed
<1>2. ASSUME NEW t \in Inputs, ReturnExisting(c, t) \/ PassCheck(c, t)
      PROVE  Undisturbed'
  <2>1. UNCHANGED <<bets, asked, took>> /\ \A d \in Callers \ {c} : call'[d] = call[d]
    BY <1>0, <1>2 DEF ReturnExisting, PassCheck, tables
  <2>2. call'[c].at \in {"start", "checked"}
    BY <1>0, <1>2 DEF ReturnExisting, PassCheck, CallStates
  <2> QED
    BY <1>1, <2>1, <2>2 DEF Owning
<1>3. CASE RefuseInsert(c) \/ Abandon(c)
  <2>1. UNCHANGED <<bets, asked, took>> /\ \A d \in Callers \ {c} : call'[d] = call[d]
    BY <1>0, <1>3 DEF RefuseInsert, Abandon, Return, tables
  <2>2. call'[c].at = "start"
    BY <1>0, <1>3 DEF RefuseInsert, Abandon, Return, CallStates
  <2> QED
    BY <1>1, <2>1, <2>2 DEF Owning
<1>4. CASE Reserve(c)
  <2> DEFINE t == call[c].ticket
             k == KeyOf(c)
  <2>1. t \in Inputs /\ t \in Tickets /\ k = t.key /\ k \in Keys /\ UNCHANGED <<asked, took>>
    BY <1>4, ReserveEnters, InputKeys DEF KeyOf
  <2>2. /\ bets[k].status = "none"
        /\ bets' = [bets EXCEPT ![k] = [status |-> "pending", ticket |-> t, result |-> "none"]]
    BY <1>0, <1>4, <2>1, ReserveEnters, EntersEffect
  <2>3. /\ bets'[k].status = "pending" /\ bets'[k].ticket = t
        /\ \A j \in Keys \ {k} : bets'[j] = bets[j]
    BY <1>0, <2>1, <2>2
  <2>4. /\ call'[c].at = "reserved" /\ call'[c].ticket = t
        /\ \A d \in Callers \ {c} : call'[d] = call[d]
    BY <1>0, <1>4 DEF Reserve, CallStates
  <2>5. asked[k] = 0 /\ took[k] = 0
    BY <1>0, <2>1, <2>2 DEF RowsAgree, RowAgrees
  <2>6. RowsAgree'
    BY <1>0, <2>1, <2>3, <2>5 DEF RowsAgree, RowAgrees, Past
  <2>7. KeyOf(c)' = k /\ Own(c)'
    BY <2>1, <2>3, <2>4, <2>5 DEF Own, KeyOf
  <2>8. \A d \in Callers \ {c} : Owning(d) => KeyOf(d) # k
    BY <1>0, <2>2, OwnerFacts DEF Owning
  <2> HIDE DEF k, t
  <2>9. OneOwner'
    BY <1>0, <2>1, <2>3, <2>4, <2>7, <2>8, OthersKeepTheirs
  <2> QED
    BY <2>6, <2>9 DEF Undisturbed
<1>5. CASE CallAdapter(c)
  <2> DEFINE k == KeyOf(c)
  <2>1. k \in Keys /\ bets[k].status = "pending" /\ asked[k] = 0 /\ took[k] = 0 /\ Own(c)
    BY <1>0, <1>5, OwnerFacts DEF CallAdapter, Own
  <2>2. PICK answer \in AdapterAnswers :
          /\ call' = [call EXCEPT ![c].at = "answered", ![c].answer = answer]
          /\ asked' = [asked EXCEPT ![k] = @ + 1]
          /\ took' = IF answer = "refused" THEN took ELSE [took EXCEPT ![k] = @ + 1]
    BY <1>5, PlacementAssumption DEF CallAdapter
  <2>3. /\ call'[c].at = "answered" /\ call'[c].ticket = call[c].ticket /\ call'[c].answer = answer
        /\ \A d \in Callers \ {c} : call'[d] = call[d]
    BY <1>0, <2>2 DEF CallStates
  <2>4. /\ bets' = bets /\ asked'[k] = 1
        /\ took'[k] = (IF answer = "refused" THEN 0 ELSE 1)
        /\ \A j \in Keys \ {k} : asked'[j] = asked[j] /\ took'[j] = took[j]
    BY <1>0, <1>5, <2>1, <2>2 DEF CallAdapter, tables
  <2>5. RowsAgree'
    BY <1>0, <2>1, <2>4 DEF RowsAgree, RowAgrees, Past
  <2>6. KeyOf(c)' = k /\ Own(c)'
    BY <2>1, <2>3, <2>4 DEF Own, KeyOf
  <2>7. \A d \in Callers \ {c} : Owning(d) => KeyOf(d) # k
    BY <1>0, <1>5 DEF OneOwner, Owning, CallAdapter
  <2> HIDE DEF k
  <2>8. OneOwner'
    BY <1>0, <2>1, <2>3, <2>4, <2>6, <2>7, OthersKeepTheirs
  <2> QED
    BY <2>5, <2>8 DEF Undisturbed
<1>6. CASE Confirm(c) \/ Release(c)
  <2>0. PICK k \in Keys : k = KeyOf(c)
    BY <1>0, <1>6, OwnerFacts DEF Confirm, Release
  <2>a. PICK to \in {"placed", "failed"} : to = IF call[c].answer = "taken" THEN "placed" ELSE "failed"
    OBVIOUS
  <2>1. /\ bets[k].status = "pending" /\ bets[k].ticket \in Inputs
        /\ call[c].answer = "taken" => took[k] = 1
        /\ call[c].at = "answered"
    BY <1>0, <1>6, <2>0, OwnerFacts DEF Confirm, Release
  <2>2. Resolves(k, to) /\ UNCHANGED <<asked, took>>
    BY <1>0, <1>6, <2>0, <2>a, ResolveEffect
  <2>3. call'[c].at = "start" /\ \A d \in Callers \ {c} : call'[d] = call[d]
    BY <1>0, <1>6 DEF Confirm, Release, Return, CallStates
  <2>4. /\ bets'[k].status = to /\ bets'[k].ticket = bets[k].ticket
        /\ \A j \in Keys \ {k} : bets'[j] = bets[j]
    BY <2>2 DEF Resolves
  <2>5. bets[k].ticket \notin ManualTickets
    BY <2>1, ExecutionAssumption
  <2>6. RowsAgree'
    <3>1. RowAgrees(k)'
      BY <1>0, <2>a, <2>1, <2>2, <2>4, <2>5 DEF RowsAgree, RowAgrees, Past
    <3> QED
      BY <1>0, <2>2, <2>4, <3>1 DEF RowsAgree, RowAgrees
  <2>7. \A d \in Callers \ {c} : Owning(d) => KeyOf(d) # k
    BY <1>0, <2>0, <2>1 DEF OneOwner, Owning
  <2>8. ~Owning(c)'
    BY <2>3 DEF Owning
  <2>9. OneOwner'
    BY <1>0, <2>2, <2>3, <2>4, <2>7, <2>8, OthersKeepTheirs
  <2> QED
    BY <2>6, <2>9 DEF Undisturbed
<1> QED
  BY <1>2, <1>3, <1>4, <1>5, <1>6 DEF PlaceStep, Advance

-----------------------------------------------------------------------------
(* The invariant of the whole, under any race of calls, closers and the    *)
(* job: the rows and the requests keep in step (Undisturbed), and the      *)
(* ledger covers the rows because whoever closes a bet has seen it placed. *)
ExecInv == PlacementTypeOK /\ SettlementTypeOK /\ SeenPlaced /\ LedgerCovers /\ Undisturbed

(* The initial state satisfies the invariant.                              *)
LEMMA ExecInitially == ExecInit => ExecInv
  BY TypeInit, SettleTypeInit, SeenInit, BooksInit, UndisturbedInit
     DEF ExecInit, ExecInv, SettleInit

(* Types that the steps of the other component keep. *)
LEMMA OtherTypes ==
  ASSUME PlacementTypeOK, SettlementTypeOK, TablesTypeOK'
  PROVE  /\ UNCHANGED <<call, asked, took>> => PlacementTypeOK'
         /\ UNCHANGED <<closer, job, score, listed>> => SettlementTypeOK'
  BY DEF PlacementTypeOK, SettlementTypeOK

(* A step of Place, as the rest of the system sees it. *)
LEMMA PlaceInWhole ==
  ASSUME ExecInv, PlaceNext, UNCHANGED <<closer, job, score, listed>>
  PROVE  ExecInv' /\ (LedgerExact => LedgerExact') /\ (LoneJob => LoneJob')
<1>0. PlacementTypeOK /\ SettlementTypeOK /\ SeenPlaced /\ LedgerCovers /\ Undisturbed /\ OneOwner
  BY DEF ExecInv, Undisturbed
<1>1. PlacementTypeOK' /\ SettlementTypeOK'
  BY <1>0, TypeStep, OtherTypes DEF PlacementTypeOK
<1>2. PastStays /\ PlacedStays
  BY <1>0, PlaceKeepsPast
<1>3. SeenPlaced' /\ (LoneJob => LoneJob')
  BY <1>0, <1>2, SeenByOthers, LoneByOthers
<1>4. LedgerCovers' /\ (LedgerExact => LedgerExact')
  BY <1>0, PlaceKeepsBooks
<1>5. Undisturbed'
  BY <1>0, PlaceUndisturbed DEF PlaceNext
<1> QED
  BY <1>1, <1>3, <1>4, <1>5 DEF ExecInv

(* A step of those who close bets or enter them by hand. *)
LEMMA SettleInWhole ==
  ASSUME ExecInv, SettleNext, UNCHANGED <<call, asked, took>>
  PROVE  ExecInv'
<1>0. PlacementTypeOK /\ SettlementTypeOK /\ SeenPlaced /\ LedgerCovers /\ Undisturbed
  BY DEF ExecInv
<1>1. PlacementTypeOK' /\ SettlementTypeOK'
  BY <1>0, SettleTypeStep, OtherTypes DEF SettlementTypeOK
<1>2. SeenPlaced' /\ LedgerCovers'
  BY <1>0, SeenStep, CoversStep
<1>3. Undisturbed'
  BY <1>0, SettleUndisturbed
<1> QED
  BY <1>1, <1>2, <1>3 DEF ExecInv

(* The invariant is about the tables, the calls and the closers alone: a   *)
(* deposit does not matter to it.                                          *)
LEMMA BooksAlone ==
  ASSUME UNCHANGED <<bets, ledger, call, asked, took, closer, job, score, listed>>
  PROVE  /\ ExecInv => ExecInv'
         /\ LoneJob => LoneJob'
         /\ LedgerExact => LedgerExact'
  BY DEF ExecInv, PlacementTypeOK, SettlementTypeOK, TablesTypeOK, SeenPlaced, LedgerCovers,
         Undisturbed, OneOwner, KeyOf, RowsAgree, RowAgrees, LoneJob, LedgerExact

(* Every step of the whole keeps the invariant ...                         *)
LEMMA ExecStep == ExecInv /\ [ExecNext]_execVars => ExecInv'
<1>1. CASE UNCHANGED execVars \/ \E amount \in Deposits : Deposit(amount)
  BY <1>1, BooksAlone DEF execVars, Deposit
<1> QED
  BY <1>1, PlaceInWhole, SettleInWhole DEF ExecNext

(* ... which therefore always holds.                                       *)
LEMMA ExecInvariant == ExecSpec => []ExecInv
  BY ExecInitially, ExecStep, PTL DEF ExecSpec

(* Settlement and bets entered by hand never touch a bet that is still     *)
(* being placed, and the book is asked at most once for it.                *)
THEOREM PlacingIsUndisturbed == ExecSpec => []PlacementUndisturbed
<1>1. ExecInv => PlacementUndisturbed
  BY DEF ExecInv, Undisturbed, RowsAgree, RowAgrees, PlacementUndisturbed, AskedAtMostOnce
<1> QED
  BY <1>1, ExecInvariant, PTL

(* What is placed or closed was taken by the book, or entered by hand and  *)
(* unknown to it: settlement pays out no bet that was never struck.        *)
THEOREM BookAndRowsAgree == ExecSpec => []BookAgrees
<1>1. ASSUME ExecInv, NEW k \in Keys
      PROVE  /\ bets[k].status \in {"placed", "settled", "voided"} =>
                  took[k] = IF bets[k].ticket \in ManualTickets THEN 0 ELSE 1
             /\ took[k] = 1 => bets[k].status # "none"
  <2>1. RowAgrees(k)
    BY <1>1 DEF ExecInv, Undisturbed, RowsAgree
  <2> QED
    BY <2>1 DEF RowAgrees, Past
<1>2. ExecInv => BookAgrees
  BY <1>1 DEF BookAgrees
<1> QED
  BY <1>2, ExecInvariant, PTL

(* NothingIsLost holds of the whole: no call of Place, cut short or not,   *)
(* takes from the ledger what a bet is owed.                               *)
THEOREM NothingIsLostInWhole == ExecSpec => []NeverShort
<1>1. ExecInv => NeverShort
  BY CoversSuffice DEF ExecInv, SettlementTypeOK
<1> QED
  BY <1>1, ExecInvariant, PTL

-----------------------------------------------------------------------------
(* What a bet adds to the balance, by the state of its row. *)
LEMMA NetByStatus ==
  ASSUME TablesTypeOK, LedgerExact, NEW k \in Keys
  PROVE  /\ bets[k].status # "none" => StakeOf(k) \in Nat /\ PayoutOf(k) \in Nat
         /\ bets[k].status = "settled" => Net(k) = PayoutOf(k) - StakeOf(k)
         /\ bets[k].status \in {"pending", "placed"} => Net(k) = -StakeOf(k)
         /\ bets[k].status \in {"none", "failed", "voided"} => Net(k) = 0
         /\ bets[k].status \in Statuses
<1>1. Exact(bets[k], ledger[k]) /\ Net(k) = Owed(bets[k])
  BY ExactIsReconciled DEF LedgerExact
<1>2. bets[k].status # "none" => bets[k].ticket \in Tickets
  BY <1>1 DEF Exact, Covered
<1>3. bets[k].status # "none" => StakeOf(k) \in Nat /\ PayoutOf(k) \in Nat
  BY <1>2, TicketParts, PayoutIsNat DEF StakeOf, PayoutOf
<1>4. bets[k].status \in Statuses
  BY DEF TablesTypeOK, Rows
<1>5. /\ bets[k].status = "settled" => Owed(bets[k]) = PayoutOf(k) - StakeOf(k)
      /\ bets[k].status \in {"pending", "placed"} => Owed(bets[k]) = -StakeOf(k)
      /\ bets[k].status \in {"none", "failed", "voided"} => Owed(bets[k]) = 0
  BY DEF Owed, PayoutOf, StakeOf
<1> QED
  BY <1>1, <1>3, <1>4, <1>5

(* The balance of the bankroll page against the sums of the bets page.     *)
LEMMA NetsMakeBalance ==
  ASSUME TablesTypeOK, LedgerExact, deposited \in Nat
  PROVE  BalanceMatchesPnL
<1> DEFINE f == [k \in Keys |-> Net(k)]
           A == OfStatus({"settled"})
           B == OfStatus({"pending", "placed"})
           a == [k \in A |-> PayoutOf(k)]
           b == [k \in A |-> StakeOf(k)]
           c == [k \in B |-> StakeOf(k)]
<1>0. /\ A \in SUBSET Keys /\ B \in SUBSET Keys
      /\ \A k \in A : bets[k].status = "settled"
      /\ \A k \in B : bets[k].status \in {"pending", "placed"}
      /\ \A k \in Keys : bets[k].status = "settled" => k \in A
      /\ \A k \in Keys : bets[k].status \in {"pending", "placed"} => k \in B
  BY Zenon DEF OfStatus
<1> HIDE DEF A, B
<1>1. IsFiniteSet(Keys) /\ A \cap B = {}
  BY <1>0, ExecutionAssumption
<1>2. \A k \in Keys : bets[k].status # "none" => PayoutOf(k) \in Int /\ StakeOf(k) \in Int
  BY NetByStatus
<1>3. \A k \in A : Net(k) = PayoutOf(k) - StakeOf(k) /\ PayoutOf(k) \in Int /\ StakeOf(k) \in Int
  <2> SUFFICES ASSUME NEW k \in A
               PROVE  Net(k) = PayoutOf(k) - StakeOf(k) /\ PayoutOf(k) \in Int /\ StakeOf(k) \in Int
    OBVIOUS
  <2>1. k \in Keys /\ bets[k].status = "settled"
    BY <1>0
  <2> QED
    BY <1>2, <2>1, NetByStatus
<1>4. \A k \in B : Net(k) = -StakeOf(k) /\ StakeOf(k) \in Int
  <2> SUFFICES ASSUME NEW k \in B PROVE Net(k) = -StakeOf(k) /\ StakeOf(k) \in Int
    OBVIOUS
  <2>1. k \in Keys /\ bets[k].status \in {"pending", "placed"}
    BY <1>0
  <2> QED
    BY <1>2, <2>1, NetByStatus
<1>5. \A k \in Keys \ (A \cup B) : Net(k) = 0
  <2> SUFFICES ASSUME NEW k \in Keys, k \notin A, k \notin B PROVE Net(k) = 0
    OBVIOUS
  <2>1. bets[k].status # "settled" /\ bets[k].status \notin {"pending", "placed"}
    BY <1>0
  <2> QED
    BY <2>1, NetByStatus DEF Statuses
<1>6. f \in [Keys -> Int] /\ a \in [A -> Int] /\ b \in [A -> Int] /\ c \in [B -> Int]
  <2>1. ASSUME NEW k \in Keys PROVE Net(k) \in Int
    <3>1. /\ k \in A => Net(k) = PayoutOf(k) - StakeOf(k) /\ PayoutOf(k) \in Int /\ StakeOf(k) \in Int
          /\ k \in B => Net(k) = -StakeOf(k) /\ StakeOf(k) \in Int
          /\ k \notin A \cup B => Net(k) = 0
      BY <1>3, <1>4, <1>5
    <3> QED
      BY <3>1
  <2> QED
    BY <2>1, <1>3, <1>4
<1>7. /\ \A k \in A : f[k] = a[k] - b[k]
      /\ \A k \in B : f[k] = -c[k]
      /\ \A k \in Keys \ (A \cup B) : f[k] = 0
  BY <1>0, <1>3, <1>4, <1>5
<1> HIDE DEF f, a, b, c
<1>8. SumFunctionOnSet(f, Keys) = SumFunctionOnSet(a, A) - SumFunctionOnSet(b, A) - SumFunctionOnSet(c, B)
  BY <1>0, <1>1, <1>6, <1>7, SumOfParts
<1>9. SumFunctionOnSet(a, A) \in Int /\ SumFunctionOnSet(b, A) \in Int /\ SumFunctionOnSet(c, B) \in Int
  BY <1>0, <1>1, <1>6, SumIsInt, FS_Subset
<1>10. /\ Balance = deposited + SumFunctionOnSet(f, Keys)
       /\ PnLSummary.netPnL = SumFunctionOnSet(a, A) - SumFunctionOnSet(b, A)
       /\ TotalStake(B) = SumFunctionOnSet(c, B)
  BY DEF Balance, PnLSummary, TotalStake, TotalPayout, A, B, a, b, c, f
<1> QED
  BY <1>8, <1>9, <1>10 DEF BalanceMatchesPnL, B

(* While the job alone closes bets, its work list is true and the books    *)
(* are exact, whatever the calls of Place do meanwhile.                    *)
ReconciledInv == ExecInv /\ LoneJob /\ LedgerExact /\ deposited \in Nat

(* The balance is to the cent the deposits, plus the net P&L of the bets   *)
(* page, less the stakes still withheld, and every bet's entries are those *)
(* its row asks for, whatever calls of Place are cut short or job runs     *)
(* killed: unless a button races the job.                                  *)
THEOREM BooksAlwaysReconcile == ASSUME Closers = {} PROVE ExecSpec => []BooksReconcile
<1>1. ExecInit => ReconciledInv
  BY ExecInitially, LoneInit DEF ExecInit, ReconciledInv
<1>2. ReconciledInv /\ [ExecNext]_execVars => ReconciledInv'
  <2> SUFFICES ASSUME ReconciledInv, [ExecNext]_execVars PROVE ReconciledInv'
    OBVIOUS
  <2>0. ExecInv /\ LoneJob /\ LedgerExact /\ deposited \in Nat /\ SettlementTypeOK
    BY DEF ReconciledInv, ExecInv
  <2>1. ExecInv'
    BY <2>0, ExecStep
  <2>2. deposited' \in Nat
    BY <2>0, ExecutionAssumption DEF ExecNext, execVars, Deposit
  <2>3. LoneJob' /\ LedgerExact'
    <3>1. CASE PlaceNext /\ UNCHANGED <<closer, job, score, listed>>
      BY <2>0, <3>1, PlaceInWhole
    <3>2. CASE SettleNext
      BY <2>0, <3>2, LoneStep DEF LoneInv
    <3>3. CASE UNCHANGED execVars \/ \E amount \in Deposits : Deposit(amount)
      BY <2>0, <3>3, BooksAlone DEF execVars, Deposit
    <3> QED
      BY <3>1, <3>2, <3>3 DEF ExecNext
  <2> QED
    BY <2>1, <2>2, <2>3 DEF ReconciledInv
<1>3. ReconciledInv => BooksReconcile
  <2> SUFFICES ASSUME ReconciledInv PROVE BooksReconcile
    OBVIOUS
  <2>1. TablesTypeOK /\ LedgerExact /\ deposited \in Nat
    BY DEF ReconciledInv, ExecInv, SettlementTypeOK
  <2>2. LedgerReconciles
    BY <2>1, ExactIsReconciled DEF LedgerExact, LedgerReconciles
  <2> QED
    BY <2>1, <2>2, NetsMakeBalance DEF BooksReconcile
<1> QED
  BY <1>1, <1>2, <1>3, PTL DEF ExecSpec

=============================================================================
