------------------------------ MODULE Execution ------------------------------
(***************************************************************************)
(* The whole life of the money: Placement and Settlement on the same two   *)
(* tables, and the bankroll they move.  The server and the worker run      *)
(* every step of either at any time.                                       *)
(***************************************************************************)
EXTENDS Placement, Settlement, Functions, FiniteSets

CONSTANTS Deposits,       \* amounts a user deposits, in cents
          MaxDeposited    \* bound: cents deposited in all

(* A bet entered by hand has a key of its own (handleBetsCreate draws a    *)
(* UUID), so no call of Place asks for it.                                 *)
ASSUME ExecutionAssumption == /\ Deposits \subseteq Nat /\ MaxDeposited \in Nat
                              /\ ManualTickets \cap Inputs = {}
                              /\ IsFiniteSet(Keys)

VARIABLE deposited        \* what the "deposit" rows of the ledger add up to

execVars == <<bets, ledger, call, asked, took, closer, job, score, listed, deposited>>

ExecInit == PlaceInit /\ SettleInit /\ deposited = 0

(* handleBankrollDeposit. *)
Deposit(amount) ==
  /\ deposited + amount <= MaxDeposited
  /\ deposited' = deposited + amount
  /\ UNCHANGED <<bets, ledger, call, asked, took, closer, job, score, listed>>

ExecNext == \/ PlaceNext /\ UNCHANGED <<closer, job, score, listed, deposited>>
            \/ SettleNext /\ UNCHANGED <<call, asked, took, deposited>>
            \/ \E amount \in Deposits : Deposit(amount)

ExecSpec == ExecInit /\ [][ExecNext]_execVars

(* Nothing is assumed of the callers of Place.                             *)
FairExecSpec == ExecSpec /\ FairJob

-----------------------------------------------------------------------------
(* GetBankrollBalanceCents: SUM(amount_cents) of the whole ledger. *)
Balance == deposited + SumFunctionOnSet([k \in Keys |-> Net(k)], Keys)

(* GetBetPnLSummary: what the bets page shows, from the bet rows alone. *)
OfStatus(statuses) == {k \in Keys : bets[k].status \in statuses}
StakeOf(k) == bets[k].ticket.stake
PayoutOf(k) == Payout(bets[k].ticket, bets[k].result)

TotalStake(S) == SumFunctionOnSet([k \in S |-> StakeOf(k)], S)
TotalPayout(S) == SumFunctionOnSet([k \in S |-> PayoutOf(k)], S)

PnLSummary ==
  LET settled == OfStatus({"settled"}) IN
  [openBets    |-> OfStatus({"placed"}),
   totalStaked |-> TotalStake(OfStatus({"placed", "settled"})),
   netPnL      |-> TotalPayout(settled) - TotalStake(settled)]

(* The bankroll page and the bets page tell the same story: the balance is *)
(* what was deposited, plus the net P&L of the settled bets, less the      *)
(* stakes of the bets still pending or open.  It holds however calls of    *)
(* Place are cut short, while the job alone closes bets (LedgerReconciles  *)
(* in Settlement is about the race of the job and the buttons).            *)
BalanceMatchesPnL ==
  Balance = deposited + PnLSummary.netPnL
              - TotalStake(OfStatus({"pending", "placed"}))

(* The books reconcile: every bet's ledger entries with its row, and all   *)
(* of them together with the bets page.                                    *)
BooksReconcile == LedgerReconciles /\ BalanceMatchesPnL

(* Settlement never touches a bet that is still being placed: the row a    *)
(* call of Place has inserted stays pending, with that call's stake, until *)
(* the call itself resolves it, and the book is still asked once at most.  *)
PlacementUndisturbed == OneOwner /\ AskedAtMostOnce

(* Closed or not, a bet that came through the book was taken by it, and a  *)
(* bet entered by hand never reached it.                                   *)
BookAgrees ==
  \A k \in Keys :
    /\ bets[k].status \in {"placed", "settled", "voided"} =>
         took[k] = IF bets[k].ticket \in ManualTickets THEN 0 ELSE 1
    /\ took[k] = 1 => bets[k].status # "none"

=============================================================================
