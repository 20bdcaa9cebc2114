------------------------------ MODULE Placement ------------------------------
(***************************************************************************)
(* PlacementOrchestrator.Place, run at the same time by any number of      *)
(* callers: request handlers of the server (handleExecutionPlace,          *)
(* handlePartialPlaceBet) and the worker's auto-placement job.  They share *)
(* nothing but the database and the book behind the adapter.               *)
(*                                                                         *)
(* Each database round trip that commits is one action, the adapter call   *)
(* another.  Abandon is every way a call ends between two of them: a       *)
(* database error, a cancelled context, a failed COMMIT, a killed process. *)
(* A COMMIT that took effect although its caller saw an error is the       *)
(* commit action followed by Abandon.                                      *)
(***************************************************************************)
EXTENDS BetTables

CONSTANTS Callers,    \* concurrent calls of Place
          Inputs,     \* the tickets Place is called with
          Answers,    \* what the adapter may do, a subset of AdapterAnswers
          MayAbandon  \* whether calls can be cut short

\* The book takes the bet; refuses it; takes it but the call returns an error.
AdapterAnswers == {"taken", "refused", "lost"}

ASSUME PlacementAssumption == /\ Inputs \subseteq Tickets
                              /\ Answers \subseteq AdapterAnswers
                              /\ MayAbandon \in BOOLEAN

VARIABLES call,       \* [Callers -> the local state of Place]
          asked,      \* [Keys -> PlaceBet requests the book received]
          took        \* [Keys -> requests the book accepted]

placeVars == <<bets, ledger, call, asked, took>>

Replies == {"none", "created", "exists", "error"}
Points == {"start", "checked", "reserved", "answered"}

PlaceInit == /\ TablesInit
             /\ call = [c \in Callers |-> [at |-> "start", ticket |-> NoTicket,
                                           answer |-> "taken", reply |-> "none"]]
             /\ asked = [k \in Keys |-> 0]
             /\ took = [k \in Keys |-> 0]

KeyOf(c) == call[c].ticket.key

Return(c, reply) == call' = [call EXCEPT ![c].at = "start", ![c].reply = reply]

-----------------------------------------------------------------------------
(* Step 1, the idempotency check.  A row that is not failed ends the call. *)
ReturnExisting(c, t) ==
  /\ call[c].at = "start"
  /\ bets[t.key].status \notin {"none", "failed"}
  /\ call' = [call EXCEPT ![c].ticket = t, ![c].reply = "exists"]
  /\ UNCHANGED <<tables, asked, took>>

\* Faulty variant: the input is not kept for the later steps.
PassCheckNoInput(c, t) ==
  /\ call[c].at = "start"
  /\ bets[t.key].status \in {"none", "failed"}
  /\ call' = [call EXCEPT ![c].at = "checked"]
  /\ UNCHANGED <<tables, asked, took>>

PassCheck(c, t) ==
  /\ call[c].at = "start"
  /\ bets[t.key].status \in {"none", "failed"}
  /\ call' = [call EXCEPT ![c] = [at |-> "checked", ticket |-> t,
                                  answer |-> "taken", reply |-> "none"]]
  /\ UNCHANGED <<tables, asked, took>>

(* Step 2, Tx1.  The check above may be stale: only the UNIQUE index keeps *)
(* a second row of the key out, and the call then ends with an error.      *)
Reserve(c) ==
  /\ call[c].at = "checked"
  /\ Insertable(call[c].ticket)
  /\ InsertRow(call[c].ticket, "pending")
  /\ Post(KeyOf(c), "reserved")
  /\ call' = [call EXCEPT ![c].at = "reserved"]
  /\ UNCHANGED <<asked, took>>

RefuseInsert(c) ==
  /\ call[c].at = "checked"
  /\ ~Insertable(call[c].ticket)
  /\ Return(c, "error")
  /\ UNCHANGED <<tables, asked, took>>

(* Step 3, outside any transaction. *)
CallAdapter(c) ==
  /\ call[c].at = "reserved"
  /\ \E answer \in Answers :
       /\ call' = [call EXCEPT ![c].at = "answered", ![c].answer = answer]
       /\ asked' = [asked EXCEPT ![KeyOf(c)] = @ + 1]
       /\ took' = IF answer = "refused" THEN took ELSE [took EXCEPT ![KeyOf(c)] = @ + 1]
  /\ UNCHANGED tables

\* Faulty variant: the adapter's error is not looked at.
ConfirmAlways(c) ==
  /\ call[c].at = "answered"
  /\ UpdateBetPlaced(KeyOf(c))
  /\ Return(c, "created")
  /\ UNCHANGED <<ledger, asked, took>>

(* Step 4, Tx2 after success. *)
Confirm(c) ==
  /\ call[c].at = "answered"
  /\ call[c].answer = "taken"
  /\ UpdateBetPlaced(KeyOf(c))
  /\ Return(c, "created")
  /\ UNCHANGED <<ledger, asked, took>>

\* Faulty variant: the stake of a failed bet is not released.
ReleaseNothing(c) ==
  /\ call[c].at = "answered"
  /\ call[c].answer # "taken"
  /\ UpdateBetFailed(KeyOf(c))
  /\ Return(c, "error")
  /\ UNCHANGED <<ledger, asked, took>>

(* Step 5, Tx2 after failure. *)
Release(c) ==
  /\ call[c].at = "answered"
  /\ call[c].answer # "taken"
  /\ UpdateBetFailed(KeyOf(c))
  /\ Post(KeyOf(c), "released")
  /\ Return(c, "error")
  /\ UNCHANGED <<asked, took>>

Abandon(c) ==
  /\ MayAbandon
  /\ call[c].at # "start"
  /\ Return(c, "error")
  /\ UNCHANGED <<tables, asked, took>>

Advance(c) == Reserve(c) \/ RefuseInsert(c) \/ CallAdapter(c) \/ Confirm(c) \/ Release(c)

PlaceStep(c) == \/ \E t \in Inputs : ReturnExisting(c, t) \/ PassCheck(c, t)
                \/ Advance(c)
                \/ Abandon(c)

PlaceNext == \E c \in Callers : PlaceStep(c)

PlaceSpec == PlaceInit /\ [][PlaceNext]_placeVars

(* A goroutine that is not cut short keeps running. *)
FairPlaceSpec == PlaceSpec /\ \A c \in Callers : WF_placeVars(Advance(c))

(* ... and the users and the periodic job keep asking for every ticket. *)
RetryingPlaceSpec ==
  /\ FairPlaceSpec
  /\ \A c \in Callers, t \in Inputs :
       WF_placeVars(ReturnExisting(c, t)) /\ SF_placeVars(PassCheck(c, t))

-----------------------------------------------------------------------------
CallStates == [at : Points, ticket : Inputs \cup {NoTicket},
               answer : AdapterAnswers, reply : Replies]

PlacementTypeOK ==
  /\ TablesTypeOK
  /\ call \in [Callers -> CallStates]
  /\ \A c \in Callers :
       call[c].at # "start" \/ call[c].reply # "none" => call[c].ticket \in Inputs
  /\ asked \in [Keys -> Nat]
  /\ took \in [Keys -> Nat]

(* The book is never asked twice for one key, however many callers race    *)
(* through the idempotency check and however often a cut-short call is     *)
(* repeated: the exactly-once claim of Place.                              *)
AskedAtMostOnce == \A k \in Keys : asked[k] <= 1

(* The ledger withholds the stake of a bet exactly while its row says so:  *)
(* a pending or placed row has one reservation and no release, a failed    *)
(* row has one of each, and a key without a row has no entry at all.       *)
EscrowMatchesRow ==
  \A k \in Keys :
    LET row == bets[k] IN
    /\ ledger[k]["reserved"] = IF row.status = "none" THEN 0 ELSE 1
    /\ ledger[k]["released"] = IF row.status = "failed" THEN 1 ELSE 0

(* A row that says placed stands for a bet the book took, and a caller     *)
(* that was told "created" finds such a row under its key: the guarded     *)
(* UPDATE of Tx2, whose row count nobody reads, has never missed.          *)
PlacedMeansTaken ==
  /\ \A k \in Keys : bets[k].status = "placed" => took[k] = 1
  /\ \A c \in Callers : call[c].reply = "created" => bets[KeyOf(c)].status = "placed"

(* At most one caller is past Tx1 for a key, and the row it inserted is    *)
(* still pending and still carries that caller's stake.                    *)
OneOwner ==
  \A c \in Callers : call[c].at \in {"reserved", "answered"} =>
    /\ bets[KeyOf(c)].status = "pending"
    /\ bets[KeyOf(c)].ticket = call[c].ticket
    /\ asked[KeyOf(c)] = IF call[c].at = "answered" THEN 1 ELSE 0
    /\ took[KeyOf(c)] = IF call[c].at = "answered" /\ call[c].answer # "refused" THEN 1 ELSE 0
    /\ \A d \in Callers \ {c} :
         call[d].at \in {"reserved", "answered"} => KeyOf(d) # KeyOf(c)

(* Nothing bears a key before its row does, and rows and requests carry    *)
(* the key they are filed under: the rest of the inductive invariant that  *)
(* the properties above need.                                              *)
RowsComeFirst ==
  \A k \in Keys :
    /\ bets[k].status \in {"none", "pending", "placed", "failed"}
    /\ bets[k].status = "none" => asked[k] = 0 /\ took[k] = 0
    /\ bets[k].status # "none" => bets[k].ticket \in Inputs /\ bets[k].ticket.key = k
    /\ \A type \in {"win", "loss", "push"} : ledger[k][type] = 0

(* What Place promises however its calls interleave and are cut short: the *)
(* book is asked once for a key, the stake is withheld exactly while the   *)
(* row says so, and the row is the inserting call's until it is resolved.  *)
PlacementInv == /\ PlacementTypeOK
                /\ AskedAtMostOnce
                /\ EscrowMatchesRow
                /\ PlacedMeansTaken
                /\ OneOwner
                /\ RowsComeFirst

(* A row is born pending, is resolved once, and never moves again: in      *)
(* particular a failed key is never placed.                                *)
ResolvedOnce ==
  [][\A k \in Keys : bets'[k] # bets[k] =>
        <<bets[k].status, bets'[k].status>> \in
          {<<"none", "pending">>, <<"pending", "placed">>, <<"pending", "failed">>}]_placeVars

(* Place implements the contract: phase is the row's status, and held is   *)
(* what the ledger rows of the key add up to.                              *)
Contract == INSTANCE PlacementContract
              WITH Amounts <- {t.stake : t \in Inputs},
                   phase <- [k \in Keys |-> bets[k].status],
                   held <- [k \in Keys |-> -Net(k)]

ImplementsContract == Contract!Spec

(* Every pending bet is resolved.  True while no call is cut short;        *)
(* README.md ("Survives crashes mid-placement") and the runbook            *)
(* paper-validation.md ("Zero pending bets") claim it without that limit.  *)
PendingResolves ==
  \A k \in Keys : bets[k].status = "pending" ~> bets[k].status # "pending"

=============================================================================
