------------------------------ MODULE BetTables ------------------------------
(***************************************************************************)
(* The two PostgreSQL tables that placement, settlement and the bankroll   *)
(* share, and the statements the code runs on them.                        *)
(*                                                                         *)
(* A transaction of the code is ONE action: it holds the row lock of its   *)
(* guarded UPDATE (or the unique-index entry of its INSERT) until COMMIT,  *)
(* and nothing of it is visible before.  The statements below are the      *)
(* conjuncts such an action is made of.                                    *)
(*                                                                         *)
(* Abstractions.  A bet row is found by its idempotency key, so the serial *)
(* id is left out.  The ledger is kept as the number of rows of each entry *)
(* type that reference a key: no amount is lost, because the code computes *)
(* each amount from columns of the bet row that never change (Amount).     *)
(* Probabilities, notes, timestamps and metadata are left out.             *)
(***************************************************************************)
EXTENDS Integers

CONSTANTS Keys,       \* idempotency keys (reference_id of the ledger rows)
          Tickets,    \* what a caller asks for: the PlaceInput values
          NoTicket    \* the ticket of a row that does not exist

Statuses == {"none", "pending", "placed", "settled", "failed", "voided"}
Results == {"none", "win", "loss", "push"}
Sides == {"home", "away", "over", "under"}

\* The entry types without their "bet_stake_" and "bet_settlement_" prefixes.
EntryTypes == {"reserved", "released", "win", "loss", "push"}

TicketFields == [key : Keys, snapshot : Nat, game : Nat, market : {"h2h", "totals"},
                 side : Sides, stake : Nat, odds : Int \ {0}]

ASSUME TicketsAssumption == Tickets \subseteq TicketFields /\ NoTicket \notin Tickets

VARIABLES bets,       \* [Keys -> row], status "none" where there is no row
          ledger      \* [Keys -> [EntryTypes -> Nat]]

tables == <<bets, ledger>>

NoRow == [status |-> "none", ticket |-> NoTicket, result |-> "none"]
NoEntries == [t \in EntryTypes |-> 0]

TablesInit == /\ bets = [k \in Keys |-> NoRow]
              /\ ledger = [k \in Keys |-> NoEntries]

Rows == [status : Statuses, ticket : Tickets \cup {NoTicket}, result : Results]

TablesTypeOK ==
  /\ bets \in [Keys -> Rows]
  /\ ledger \in [Keys -> [EntryTypes -> Nat]]

-----------------------------------------------------------------------------
(***************************************************************************)
(* INSERT INTO bets: refused by the UNIQUE index on the key and by the     *)
(* CHECK constraints on stake and odds.                                    *)
(***************************************************************************)
RowChecks(t) == /\ t.stake > 0
                /\ t.odds <= -100 \/ t.odds >= 100

\* Faulty variants: no UNIQUE index; the row of a failed bet is overwritten.
InsertableNoUnique(t) == RowChecks(t)
InsertableOverFailed(t) == bets[t.key].status \in {"none", "failed"} /\ RowChecks(t)

Insertable(t) == bets[t.key].status = "none" /\ RowChecks(t)

InsertRow(t, status) ==
  bets' = [bets EXCEPT ![t.key] = [status |-> status, ticket |-> t, result |-> "none"]]

(***************************************************************************)
(* UPDATE bets SET ... WHERE id = @id AND status = ...: the statements are *)
(* generated as :exec, so a caller never learns that no row matched.       *)
(***************************************************************************)
\* Faulty variant: the WHERE clause forgets the status.
UpdateAnyStatus(k, from, to, result) ==
  bets' = [bets EXCEPT ![k].status = to, ![k].result = result]

UpdateWhere(k, from, to, result) ==
  bets' = IF bets[k].status = from
            THEN [bets EXCEPT ![k].status = to, ![k].result = result]
            ELSE bets

\* Faulty variant: the statement waits for the wrong status and never hits.
UpdateBetSettledTwice(k, result) == UpdateWhere(k, "settled", "settled", result)

UpdateBetPlaced(k) == UpdateWhere(k, "pending", "placed", "none")
UpdateBetFailed(k) == UpdateWhere(k, "pending", "failed", "none")
UpdateBetSettled(k, result) == UpdateWhere(k, "placed", "settled", result)
VoidBet(k) == UpdateWhere(k, "placed", "voided", "none")

(***************************************************************************)
(* INSERT INTO bankroll_ledger: no constraint, always one row more.        *)
(***************************************************************************)
Post(k, type) == ledger' = [ledger EXCEPT ![k][type] = @ + 1]

-----------------------------------------------------------------------------
(***************************************************************************)
(* Money.  math.Round of a quotient of non-negative numbers rounds half    *)
(* up.  The code divides in float64; the quotient here is exact.           *)
(***************************************************************************)
RoundDiv(n, d) == (2 * n + d) \div (2 * d)

CalculateWinnings(stake, odds) ==
  IF odds > 0 THEN RoundDiv(stake * odds, 100) ELSE RoundDiv(stake * 100, -odds)

Payout(t, result) ==
  CASE result = "win"  -> t.stake + CalculateWinnings(t.stake, t.odds)
    [] result = "push" -> t.stake
    [] OTHER           -> 0

(* The amount_cents of a ledger row of the given type that references the  *)
(* bet of ticket t.                                                        *)
Amount(t, type) ==
  CASE type = "reserved" -> -t.stake
    [] type = "released" -> t.stake
    [] OTHER             -> Payout(t, type)

(* SUM(amount_cents) over the rows that reference the bet of key k.        *)
Net(k) ==
  LET Sum(type) == ledger[k][type] * Amount(bets[k].ticket, type)
  IN  IF bets[k].status = "none" THEN 0
      ELSE Sum("reserved") + Sum("released") + Sum("win") + Sum("loss") + Sum("push")

=============================================================================
