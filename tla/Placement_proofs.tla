--------------------------- MODULE Placement_proofs ---------------------------
(***************************************************************************)
(* Proofs about Placement, for any number of callers, keys and tickets and *)
(* every subset of adapter answers.                                        *)
(***************************************************************************)
EXTENDS Placement, TLAPS

(* A ticket carries a key of the tables. *)
LEMMA InputKeys == ASSUME NEW t \in Inputs
                   PROVE  t \in Tickets /\ t.key \in Keys /\ t # NoTicket
  BY TicketsAssumption, PlacementAssumption DEF TicketFields

-----------------------------------------------------------------------------
(* The type of the local states of the calls. *)
CallsOK == /\ call \in [Callers -> CallStates]
           /\ \A c \in Callers :
                call[c].at # "start" \/ call[c].reply # "none" => call[c].ticket \in Inputs

(* A call that goes on, or returns, with one of the inputs in hand keeps   *)
(* the calls well typed.                                                   *)
LEMMA CallUpdate ==
  ASSUME CallsOK, NEW c \in Callers, NEW s \in CallStates, s.ticket \in Inputs,
         call' = [call EXCEPT ![c] = s]
  PROVE  CallsOK'
  BY DEF CallsOK

(* The initial state is well typed.                                        *)
LEMMA TypeInit == PlaceInit => PlacementTypeOK
<1> SUFFICES ASSUME PlaceInit PROVE PlacementTypeOK
  OBVIOUS
<1>1. TablesTypeOK
  BY DEF PlaceInit, TablesInit, TablesTypeOK, NoRow, NoEntries, Rows, Statuses, Results
<1>2. CallsOK
  BY DEF PlaceInit, CallsOK, CallStates, Points, Replies, AdapterAnswers
<1> QED
  BY <1>1, <1>2 DEF PlaceInit, PlacementTypeOK, CallsOK

(* Every step keeps it so.                                                 *)
LEMMA TypeStep == PlacementTypeOK /\ [PlaceNext]_placeVars => PlacementTypeOK'
<1> SUFFICES ASSUME PlacementTypeOK, [PlaceNext]_placeVars
             PROVE  PlacementTypeOK'
  OBVIOUS
<1>0. CallsOK /\ TablesTypeOK /\ asked \in [Keys -> Nat] /\ took \in [Keys -> Nat]
  BY DEF PlacementTypeOK, CallsOK
<1>a. SUFFICES CallsOK' /\ TablesTypeOK' /\ (asked \in [Keys -> Nat])' /\ (took \in [Keys -> Nat])'
  BY DEF PlacementTypeOK, CallsOK
<1>1. ASSUME NEW c \in Callers, NEW t \in Inputs, ReturnExisting(c, t)
      PROVE  CallsOK' /\ TablesTypeOK' /\ UNCHANGED <<asked, took>>
  <2>1. call' = [call EXCEPT ![c] = [call[c] EXCEPT !.ticket = t, !.reply = "exists"]]
    BY <1>0, <1>1 DEF ReturnExisting, CallsOK, CallStates
  <2>2. CallsOK'
    BY <1>0, <2>1, CallUpdate DEF CallsOK, CallStates, Replies
  <2> QED
    BY <1>0, <1>1, <2>2 DEF ReturnExisting, tables, TablesTypeOK
<1>2. ASSUME NEW c \in Callers, NEW t \in Inputs, PassCheck(c, t)
      PROVE  CallsOK' /\ TablesTypeOK' /\ UNCHANGED <<asked, took>>
  <2>2. CallsOK'
    BY <1>0, <1>2, CallUpdate DEF PassCheck, CallStates, Replies, Points, AdapterAnswers
  <2> QED
    BY <1>0, <1>2, <2>2 DEF PassCheck, tables, TablesTypeOK
<1>3. ASSUME NEW c \in Callers, Reserve(c)
      PROVE  CallsOK' /\ TablesTypeOK' /\ UNCHANGED <<asked, took>>
  <2>0. call[c].ticket \in Inputs /\ KeyOf(c) \in Keys /\ call[c].ticket \in Tickets
    BY <1>0, <1>3, InputKeys DEF CallsOK, KeyOf, Reserve
  <2>1. call' = [call EXCEPT ![c] = [call[c] EXCEPT !.at = "reserved"]]
    BY <1>0, <1>3 DEF Reserve, CallsOK, CallStates
  <2>2. CallsOK'
    BY <1>0, <2>0, <2>1, CallUpdate DEF CallsOK, CallStates, Points
  <2>3. (bets \in [Keys -> Rows])'
    BY <1>0, <1>3, <2>0 DEF Reserve, InsertRow, KeyOf, TablesTypeOK, Rows, Statuses, Results
  <2>4. (ledger \in [Keys -> [EntryTypes -> Nat]])'
    BY <1>0, <1>3, <2>0 DEF Reserve, Post, KeyOf, TablesTypeOK, EntryTypes
  <2> QED
    BY <1>3, <2>2, <2>3, <2>4 DEF Reserve, TablesTypeOK
<1>4. ASSUME NEW c \in Callers, RefuseInsert(c) \/ Abandon(c)
      PROVE  CallsOK' /\ TablesTypeOK' /\ UNCHANGED <<asked, took>>
  <2>0. call[c].ticket \in Inputs
    BY <1>0, <1>4 DEF CallsOK, RefuseInsert, Abandon
  <2>1. call' = [call EXCEPT ![c] = [call[c] EXCEPT !.at = "start", !.reply = "error"]]
    BY <1>0, <1>4 DEF RefuseInsert, Abandon, Return, CallsOK, CallStates
  <2>2. CallsOK'
    BY <1>0, <2>0, <2>1, CallUpdate DEF CallsOK, CallStates, Points, Replies
  <2> QED
    BY <1>0, <1>4, <2>2 DEF RefuseInsert, Abandon, tables, TablesTypeOK
<1>5. ASSUME NEW c \in Callers, CallAdapter(c)
      PROVE  CallsOK' /\ TablesTypeOK' /\ (asked \in [Keys -> Nat])' /\ (took \in [Keys -> Nat])'
  <2>0. call[c].ticket \in Inputs /\ KeyOf(c) \in Keys
    BY <1>0, <1>5, InputKeys DEF CallsOK, KeyOf, CallAdapter
  <2>1. PICK answer \in AdapterAnswers :
          /\ call' = [call EXCEPT ![c] = [call[c] EXCEPT !.at = "answered", !.answer = answer]]
          /\ asked' = [asked EXCEPT ![KeyOf(c)] = @ + 1]
          /\ took' = IF answer = "refused" THEN took ELSE [took EXCEPT ![KeyOf(c)] = @ + 1]
    BY <1>0, <1>5, PlacementAssumption DEF CallAdapter, CallsOK, CallStates
  <2>2. CallsOK'
    BY <1>0, <2>0, <2>1, CallUpdate DEF CallsOK, CallStates, Points
  <2>3. (asked \in [Keys -> Nat])' /\ (took \in [Keys -> Nat])'
    BY <1>0, <2>0, <2>1
  <2> QED
    BY <1>0, <1>5, <2>2, <2>3 DEF CallAdapter, tables, TablesTypeOK
<1>6. ASSUME NEW c \in Callers, Confirm(c)
      PROVE  CallsOK' /\ TablesTypeOK' /\ UNCHANGED <<asked, took>>
  <2>0. call[c].ticket \in Inputs /\ KeyOf(c) \in Keys
    BY <1>0, <1>6, InputKeys DEF CallsOK, KeyOf, Confirm
  <2>1. call' = [call EXCEPT ![c] = [call[c] EXCEPT !.at = "start", !.reply = "created"]]
    BY <1>0, <1>6 DEF Confirm, Return, CallsOK, CallStates
  <2>2. CallsOK'
    BY <1>0, <2>0, <2>1, CallUpdate DEF CallsOK, CallStates, Points, Replies
  <2>3. (bets \in [Keys -> Rows])'
    BY <1>0, <1>6, <2>0 DEF Confirm, UpdateBetPlaced, UpdateWhere, TablesTypeOK, Rows,
                            Statuses, Results
  <2> QED
    BY <1>0, <1>6, <2>2, <2>3 DEF Confirm, TablesTypeOK
<1>7. ASSUME NEW c \in Callers, Release(c)
      PROVE  CallsOK' /\ TablesTypeOK' /\ UNCHANGED <<asked, took>>
  <2>0. call[c].ticket \in Inputs /\ KeyOf(c) \in Keys
    BY <1>0, <1>7, InputKeys DEF CallsOK, KeyOf, Release
  <2>1. call' = [call EXCEPT ![c] = [call[c] EXCEPT !.at = "start", !.reply = "error"]]
    BY <1>0, <1>7 DEF Release, Return, CallsOK, CallStates
  <2>2. CallsOK'
    BY <1>0, <2>0, <2>1, CallUpdate DEF CallsOK, CallStates, Points, Replies
  <2>3. (bets \in [Keys -> Rows])'
    BY <1>0, <1>7, <2>0 DEF Release, UpdateBetFailed, UpdateWhere, TablesTypeOK, Rows,
                            Statuses, Results
  <2>4. (ledger \in [Keys -> [EntryTypes -> Nat]])'
    BY <1>0, <1>7, <2>0 DEF Release, Post, TablesTypeOK, EntryTypes
  <2> QED
    BY <1>7, <2>2, <2>3, <2>4 DEF Release, TablesTypeOK
<1>8. CASE UNCHANGED placeVars
  BY <1>0, <1>8 DEF placeVars, CallsOK, TablesTypeOK
<1> QED
  BY <1>0, <1>1, <1>2, <1>3, <1>4, <1>5, <1>6, <1>7, <1>8 DEF PlaceNext, PlaceStep, Advance

(* Type correctness: every variable keeps its type, and a call past its    *)
(* check, or back from it, holds one of the inputs.                        *)
THEOREM TypeCorrect == PlaceSpec => []PlacementTypeOK
  BY TypeInit, TypeStep, PTL DEF PlaceSpec

-----------------------------------------------------------------------------
(* The safety part of the inductive invariant.                             *)
Safe == AskedAtMostOnce /\ EscrowMatchesRow /\ PlacedMeansTaken /\ OneOwner /\ RowsComeFirst

(* The initial state is safe.                                              *)
LEMMA SafeInit == PlaceInit => Safe
  BY DEF PlaceInit, TablesInit, NoRow, NoEntries, EntryTypes, Safe, AskedAtMostOnce,
         EscrowMatchesRow, PlacedMeansTaken, OneOwner, RowsComeFirst, KeyOf

(* A step that only moves one call, to where it owns nothing, is harmless. *)
LEMMA CallOnlyStep ==
  ASSUME PlacementTypeOK, Safe, NEW c \in Callers,
         UNCHANGED <<bets, ledger, asked, took>>,
         \A d \in Callers \ {c} : call'[d] = call[d],
         call'[c].at \in {"start", "checked"}, call'[c].reply # "created"
  PROVE  Safe'
<1>1. AskedAtMostOnce' /\ EscrowMatchesRow' /\ RowsComeFirst'
  BY DEF Safe, AskedAtMostOnce, EscrowMatchesRow, RowsComeFirst
<1>2. PlacedMeansTaken'
  BY DEF Safe, PlacedMeansTaken, KeyOf
<1>3. OneOwner'
  BY DEF Safe, OneOwner, KeyOf
<1> QED
  BY <1>1, <1>2, <1>3 DEF Safe

(* Tx1: the key had no row, hence no owner, no request and no ledger row.  *)
LEMMA ReserveStep ==
  ASSUME PlacementTypeOK, Safe, NEW c \in Callers, Reserve(c)
  PROVE  Safe'
<1> DEFINE k == KeyOf(c)
<1>1. k \in Keys /\ call[c].ticket \in Inputs /\ call[c].ticket.key = k
  BY InputKeys DEF PlacementTypeOK, Reserve, KeyOf
<1>2. /\ bets[k].status = "none"
      /\ bets' = [bets EXCEPT ![k] = [status |-> "pending", ticket |-> call[c].ticket,
                                      result |-> "none"]]
      /\ ledger' = [ledger EXCEPT ![k]["reserved"] = @ + 1]
      /\ UNCHANGED <<asked, took>>
  BY DEF Reserve, Insertable, InsertRow, Post, KeyOf
<1>3. /\ call'[c] = [call[c] EXCEPT !.at = "reserved"]
      /\ call'[c].at = "reserved" /\ call'[c].ticket = call[c].ticket
      /\ call'[c].reply = call[c].reply
      /\ \A d \in Callers \ {c} : call'[d] = call[d]
  BY DEF Reserve, PlacementTypeOK, CallStates
<1>4. /\ bets \in [Keys -> Rows] /\ ledger \in [Keys -> [EntryTypes -> Nat]]
      /\ asked[k] = 0 /\ took[k] = 0
  BY <1>1, <1>2 DEF PlacementTypeOK, TablesTypeOK, Safe, RowsComeFirst
<1>5. AskedAtMostOnce'
  BY <1>2 DEF Safe, AskedAtMostOnce
<1>6. EscrowMatchesRow'
  BY <1>1, <1>2, <1>4 DEF Safe, EscrowMatchesRow, EntryTypes
<1>7. PlacedMeansTaken'
  <2>1. \A d \in Callers : call'[d].reply = "created" =>
           call'[d].ticket.key \in Keys \ {k} /\ call'[d].ticket = call[d].ticket
                                           /\ call[d].reply = "created"
    BY <1>1, <1>2, <1>3, InputKeys DEF Safe, PlacedMeansTaken, PlacementTypeOK, KeyOf
  <2> QED
    BY <1>1, <1>2, <1>4, <2>1 DEF Safe, PlacedMeansTaken, KeyOf
<1>8. OneOwner'
  <2>1. \A d \in Callers \ {c} : call[d].at \in {"reserved", "answered"} =>
           KeyOf(d) \in Keys \ {k}
    BY <1>1, <1>2, InputKeys DEF Safe, OneOwner, PlacementTypeOK, KeyOf
  <2>2. /\ KeyOf(c)' = k /\ bets'[k].status = "pending" /\ bets'[k].ticket = call'[c].ticket
        /\ asked'[k] = 0 /\ took'[k] = 0
    BY <1>1, <1>2, <1>3, <1>4 DEF KeyOf
  <2>3. \A d \in Callers \ {c} : call'[d] = call[d] /\ KeyOf(d)' = KeyOf(d)
    BY <1>3 DEF KeyOf
  <2>4. \A j \in Keys \ {k} : bets'[j] = bets[j] /\ asked'[j] = asked[j] /\ took'[j] = took[j]
    BY <1>2, <1>4
  <2>5. ASSUME NEW d \in Callers, (call[d].at \in {"reserved", "answered"})'
        PROVE  /\ (bets[KeyOf(d)].status = "pending")'
               /\ (bets[KeyOf(d)].ticket = call[d].ticket)'
               /\ (asked[KeyOf(d)] = IF call[d].at = "answered" THEN 1 ELSE 0)'
               /\ (took[KeyOf(d)] = IF call[d].at = "answered" /\ call[d].answer # "refused"
                                      THEN 1 ELSE 0)'
    <3>1. CASE d = c
      BY <1>3, <2>2, <3>1
    <3>2. CASE d # c
      BY <2>1, <2>3, <2>4, <2>5, <3>2 DEF Safe, OneOwner
    <3> QED
      BY <3>1, <3>2
  <2>6. ASSUME NEW d \in Callers, NEW e \in Callers \ {d},
               (call[d].at \in {"reserved", "answered"})',
               (call[e].at \in {"reserved", "answered"})'
        PROVE  (KeyOf(e) # KeyOf(d))'
    BY <2>1, <2>2, <2>3, <2>6 DEF Safe, OneOwner
  <2> QED
    BY <2>5, <2>6 DEF OneOwner
<1>9. RowsComeFirst'
  BY <1>1, <1>2, <1>4 DEF Safe, RowsComeFirst, EntryTypes
<1> QED
  BY <1>5, <1>6, <1>7, <1>8, <1>9 DEF Safe

(* The request goes out while its row is pending and was never asked for.  *)
LEMMA CallAdapterStep ==
  ASSUME PlacementTypeOK, Safe, NEW c \in Callers, CallAdapter(c)
  PROVE  Safe'
<1> DEFINE k == KeyOf(c)
<1>1. k \in Keys /\ bets[k].status = "pending" /\ asked[k] = 0 /\ took[k] = 0
  BY InputKeys DEF PlacementTypeOK, CallAdapter, Safe, OneOwner, KeyOf
<1>2. PICK answer \in AdapterAnswers :
        /\ call' = [call EXCEPT ![c].at = "answered", ![c].answer = answer]
        /\ asked' = [asked EXCEPT ![k] = @ + 1]
        /\ took' = IF answer = "refused" THEN took ELSE [took EXCEPT ![k] = @ + 1]
  BY PlacementAssumption DEF CallAdapter
<1>3. /\ call'[c].at = "answered" /\ call'[c].ticket = call[c].ticket
      /\ call'[c].answer = answer /\ call'[c].reply = call[c].reply
      /\ \A d \in Callers \ {c} : call'[d] = call[d]
  BY <1>2 DEF PlacementTypeOK, CallStates
<1>4. /\ UNCHANGED <<bets, ledger>> /\ asked'[k] = 1
      /\ took'[k] = (IF answer = "refused" THEN 0 ELSE 1)
      /\ \A j \in Keys \ {k} : asked'[j] = asked[j] /\ took'[j] = took[j]
  BY <1>1, <1>2 DEF CallAdapter, tables, PlacementTypeOK
<1>5. AskedAtMostOnce' /\ EscrowMatchesRow' /\ RowsComeFirst'
  BY <1>1, <1>4 DEF Safe, AskedAtMostOnce, EscrowMatchesRow, RowsComeFirst
<1>6. PlacedMeansTaken'
  BY <1>1, <1>3, <1>4 DEF Safe, PlacedMeansTaken, KeyOf
<1>7. OneOwner'
  <2>1. \A d \in Callers \ {c} : call[d].at \in {"reserved", "answered"} =>
           KeyOf(d) \in Keys \ {k}
    <3>1. \A d \in Callers \ {c} : call[d].at \in {"reserved", "answered"} => KeyOf(d) \in Keys
      BY InputKeys DEF PlacementTypeOK, KeyOf
    <3>2. call[c].at = "reserved"
      BY DEF CallAdapter
    <3> QED
      BY <3>1, <3>2 DEF Safe, OneOwner
  <2>2. /\ KeyOf(c)' = k /\ bets'[k].status = "pending" /\ bets'[k].ticket = call'[c].ticket
        /\ asked'[k] = 1 /\ took'[k] = (IF call'[c].answer # "refused" THEN 1 ELSE 0)
    BY <1>1, <1>3, <1>4 DEF KeyOf, Safe, OneOwner, CallAdapter
  <2>3. \A d \in Callers \ {c} : call'[d] = call[d] /\ KeyOf(d)' = KeyOf(d)
    BY <1>3 DEF KeyOf
  <2>4. ASSUME NEW d \in Callers, (call[d].at \in {"reserved", "answered"})'
        PROVE  /\ (bets[KeyOf(d)].status = "pending")'
               /\ (bets[KeyOf(d)].ticket = call[d].ticket)'
               /\ (asked[KeyOf(d)] = IF call[d].at = "answered" THEN 1 ELSE 0)'
               /\ (took[KeyOf(d)] = IF call[d].at = "answered" /\ call[d].answer # "refused"
                                      THEN 1 ELSE 0)'
    <3>1. CASE d = c
      BY <1>3, <2>2, <3>1
    <3>2. CASE d # c
      BY <1>4, <2>1, <2>3, <2>4, <3>2 DEF Safe, OneOwner
    <3> QED
      BY <3>1, <3>2
  <2>5. ASSUME NEW d \in Callers, NEW e \in Callers \ {d},
               (call[d].at \in {"reserved", "answered"})',
               (call[e].at \in {"reserved", "answered"})'
        PROVE  (KeyOf(e) # KeyOf(d))'
    BY <2>1, <2>2, <2>3, <2>5 DEF Safe, OneOwner
  <2> QED
    BY <2>4, <2>5 DEF OneOwner
<1> QED
  BY <1>5, <1>6, <1>7 DEF Safe

(* Tx2 either way: the row is pending because its only owner is this call. *)
LEMMA ResolveStep ==
  ASSUME PlacementTypeOK, Safe, NEW c \in Callers, Confirm(c) \/ Release(c)
  PROVE  Safe'
<1> DEFINE k == KeyOf(c)
           to == IF call[c].answer = "taken" THEN "placed" ELSE "failed"
<1>1. /\ k \in Keys /\ bets[k].status = "pending" /\ asked[k] = 1
      /\ call[c].answer # "refused" => took[k] = 1
      /\ call[c].at = "answered"
  BY InputKeys DEF PlacementTypeOK, Confirm, Release, Safe, OneOwner, KeyOf
<1>2. bets \in [Keys -> Rows] /\ ledger \in [Keys -> [EntryTypes -> Nat]]
  BY DEF PlacementTypeOK, TablesTypeOK
<1>3. bets' = [bets EXCEPT ![k].status = to, ![k].result = "none"]
  BY <1>1 DEF Confirm, Release, UpdateBetPlaced, UpdateBetFailed, UpdateWhere
<1>4. /\ bets'[k].status = to /\ bets'[k].ticket = bets[k].ticket
      /\ \A j \in Keys \ {k} : bets'[j] = bets[j]
  BY <1>1, <1>2, <1>3 DEF Rows
<1>5. /\ ledger' = IF to = "placed" THEN ledger ELSE [ledger EXCEPT ![k]["released"] = @ + 1]
      /\ UNCHANGED <<asked, took>>
  BY DEF Confirm, Release, Post
<1>6. /\ call'[c].at = "start" /\ call'[c].ticket = call[c].ticket
      /\ call'[c].reply = IF to = "placed" THEN "created" ELSE "error"
      /\ \A d \in Callers \ {c} : call'[d] = call[d]
  BY DEF PlacementTypeOK, CallStates, Confirm, Release, Return
<1>7. AskedAtMostOnce'
  BY <1>5 DEF Safe, AskedAtMostOnce
<1>8. EscrowMatchesRow'
  BY <1>1, <1>2, <1>4, <1>5 DEF Safe, EscrowMatchesRow, EntryTypes
<1>9. PlacedMeansTaken'
  <2>1. \A d \in Callers \ {c} : call[d].reply = "created" => KeyOf(d) \in Keys \ {k}
    BY <1>1, InputKeys DEF Safe, PlacedMeansTaken, PlacementTypeOK, KeyOf
  <2> QED
    BY <1>1, <1>4, <1>5, <1>6, <2>1 DEF Safe, PlacedMeansTaken, KeyOf
<1>10. OneOwner'
  <2>1. \A d \in Callers \ {c} : call[d].at \in {"reserved", "answered"} =>
           KeyOf(d) \in Keys \ {k}
    BY <1>1, InputKeys DEF Safe, OneOwner, PlacementTypeOK, KeyOf
  <2> QED
    BY <1>4, <1>5, <1>6, <2>1 DEF Safe, OneOwner, KeyOf
<1>11. RowsComeFirst'
  BY <1>1, <1>2, <1>4, <1>5 DEF Safe, RowsComeFirst, EntryTypes
<1> QED
  BY <1>7, <1>8, <1>9, <1>10, <1>11 DEF Safe

(* Every step of every call keeps the safety invariant.                    *)
LEMMA SafeStep == PlacementTypeOK /\ Safe /\ [PlaceNext]_placeVars => Safe'
<1> SUFFICES ASSUME PlacementTypeOK, Safe, [PlaceNext]_placeVars
             PROVE  Safe'
  OBVIOUS
<1>1. ASSUME NEW c \in Callers, NEW t \in Inputs, ReturnExisting(c, t) \/ PassCheck(c, t)
      PROVE  Safe'
  BY <1>1, CallOnlyStep DEF ReturnExisting, PassCheck, tables, PlacementTypeOK, CallStates
<1>2. ASSUME NEW c \in Callers, RefuseInsert(c) \/ Abandon(c)
      PROVE  Safe'
  BY <1>2, CallOnlyStep DEF RefuseInsert, Abandon, Return, tables, PlacementTypeOK, CallStates
<1>3. CASE UNCHANGED placeVars
  BY <1>3 DEF placeVars, Safe, AskedAtMostOnce, EscrowMatchesRow, PlacedMeansTaken, OneOwner,
              RowsComeFirst, KeyOf
<1> QED
  BY <1>1, <1>2, <1>3, ReserveStep, CallAdapterStep, ResolveStep
     DEF PlaceNext, PlaceStep, Advance

(* The inductive invariant of Placement.                                   *)
LEMMA InductiveInvariant == PlaceSpec => [](PlacementTypeOK /\ Safe)
  BY TypeInit, TypeStep, SafeInit, SafeStep, PTL DEF PlaceSpec

(* The exactly-once claim of Place, for any number of callers and keys.    *)
THEOREM ExactlyOnce == PlaceSpec => []AskedAtMostOnce
  BY InductiveInvariant, PTL DEF Safe

(* The ledger withholds a stake exactly while the bet row says so.         *)
THEOREM EscrowCorrect == PlaceSpec => []EscrowMatchesRow
  BY InductiveInvariant, PTL DEF Safe

(* A placed row stands for a bet the book took, and "created" is never     *)
(* said of another.                                                        *)
THEOREM PlacedByTheBook == PlaceSpec => []PlacedMeansTaken
  BY InductiveInvariant, PTL DEF Safe

(* The row a call inserted is its own until the call resolves it.          *)
THEOREM Ownership == PlaceSpec => []OneOwner
  BY InductiveInvariant, PTL DEF Safe

(* All of it together, types and what the rows are filed under included.   *)
THEOREM SafePlacement == PlaceSpec => []PlacementInv
  BY InductiveInvariant, PTL DEF Safe, PlacementInv

-----------------------------------------------------------------------------
(* What a resolving step does to the rows, and every other step does not.  *)
LEMMA RowStep ==
  ASSUME PlacementTypeOK, Safe, [PlaceNext]_placeVars
  PROVE  \/ UNCHANGED tables
         \/ \E k \in Keys, t \in Inputs :
              /\ bets[k].status = "none" /\ t.key = k /\ asked' = asked
              /\ bets' = [bets EXCEPT ![k] = [status |-> "pending", ticket |-> t, result |-> "none"]]
              /\ ledger' = [ledger EXCEPT ![k]["reserved"] = @ + 1]
         \/ \E k \in Keys :
              /\ bets[k].status = "pending" /\ asked[k] = 1 /\ asked' = asked
              /\ bets' = [bets EXCEPT ![k].status = "placed", ![k].result = "none"]
              /\ ledger' = ledger
         \/ \E k \in Keys :
              /\ bets[k].status = "pending" /\ asked[k] = 1 /\ asked' = asked
              /\ bets' = [bets EXCEPT ![k].status = "failed", ![k].result = "none"]
              /\ ledger' = [ledger EXCEPT ![k]["released"] = @ + 1]
<1>1. ASSUME NEW c \in Callers, Reserve(c)
      PROVE  \E k \in Keys, t \in Inputs :
              /\ bets[k].status = "none" /\ t.key = k /\ asked' = asked
              /\ bets' = [bets EXCEPT ![k] = [status |-> "pending", ticket |-> t, result |-> "none"]]
              /\ ledger' = [ledger EXCEPT ![k]["reserved"] = @ + 1]
  BY <1>1, InputKeys DEF Reserve, Insertable, InsertRow, Post, KeyOf, PlacementTypeOK
<1>2. ASSUME NEW c \in Callers, Confirm(c) \/ Release(c)
      PROVE  /\ KeyOf(c) \in Keys /\ bets[KeyOf(c)].status = "pending"
             /\ asked[KeyOf(c)] = 1 /\ asked' = asked
  BY <1>2, InputKeys DEF Confirm, Release, PlacementTypeOK, Safe, OneOwner, KeyOf
<1>3. ASSUME NEW c \in Callers, Confirm(c)
      PROVE  \E k \in Keys :
              /\ bets[k].status = "pending" /\ asked[k] = 1 /\ asked' = asked
              /\ bets' = [bets EXCEPT ![k].status = "placed", ![k].result = "none"]
              /\ ledger' = ledger
  BY <1>2, <1>3 DEF Confirm, UpdateBetPlaced, UpdateWhere
<1>4. ASSUME NEW c \in Callers, Release(c)
      PROVE  \E k \in Keys :
              /\ bets[k].status = "pending" /\ asked[k] = 1 /\ asked' = asked
              /\ bets' = [bets EXCEPT ![k].status = "failed", ![k].result = "none"]
              /\ ledger' = [ledger EXCEPT ![k]["released"] = @ + 1]
  BY <1>2, <1>4 DEF Release, UpdateBetFailed, UpdateWhere, Post
<1>5. ASSUME NEW c \in Callers, NEW t \in Inputs,
             \/ ReturnExisting(c, t) \/ PassCheck(c, t) \/ RefuseInsert(c)
             \/ CallAdapter(c) \/ Abandon(c)
      PROVE  UNCHANGED tables
  BY <1>5 DEF ReturnExisting, PassCheck, RefuseInsert, CallAdapter, Abandon, tables
<1>6. ASSUME NEW c \in Callers, RefuseInsert(c) \/ CallAdapter(c) \/ Abandon(c)
      PROVE  UNCHANGED tables
  BY <1>6 DEF RefuseInsert, CallAdapter, Abandon, tables
<1>7. CASE UNCHANGED placeVars
  BY <1>7 DEF placeVars, tables
<1> QED
  BY <1>1, <1>3, <1>4, <1>5, <1>6, <1>7 DEF PlaceNext, PlaceStep, Advance

(* A row is born pending and is resolved at most once, for any number of   *)
(* callers: the status machine of bets.status that placement may drive.    *)
THEOREM RowsResolveOnce == PlaceSpec => ResolvedOnce
<1>1. ASSUME PlacementTypeOK, Safe, [PlaceNext]_placeVars
      PROVE  [\A k \in Keys : bets'[k] # bets[k] =>
                <<bets[k].status, bets'[k].status>> \in
                  {<<"none", "pending">>, <<"pending", "placed">>, <<"pending", "failed">>}]_placeVars
  <2>1. bets \in [Keys -> Rows]
    BY <1>1 DEF PlacementTypeOK, TablesTypeOK
  <2> SUFFICES ASSUME NEW k \in Keys, bets'[k] # bets[k]
               PROVE  \/ bets[k].status = "none" /\ bets'[k].status = "pending"
                      \/ bets[k].status = "pending" /\ bets'[k].status \in {"placed", "failed"}
    BY DEF placeVars
  <2>2. CASE UNCHANGED tables
    BY <2>2 DEF tables
  <2>3. ASSUME NEW j \in Keys, NEW t \in Inputs, bets[j].status = "none",
               bets' = [bets EXCEPT ![j] = [status |-> "pending", ticket |-> t, result |-> "none"]]
        PROVE  bets[k].status = "none" /\ bets'[k].status = "pending"
    BY <2>1, <2>3
  <2>4. ASSUME NEW j \in Keys, NEW to \in {"placed", "failed"}, bets[j].status = "pending",
               bets' = [bets EXCEPT ![j].status = to, ![j].result = "none"]
        PROVE  bets[k].status = "pending" /\ bets'[k].status = to
    BY <2>1, <2>4 DEF Rows
  <2> QED
    BY <1>1, <2>2, <2>3, <2>4, RowStep
<1> QED
  BY <1>1, InductiveInvariant, PTL DEF PlaceSpec, ResolvedOnce

-----------------------------------------------------------------------------
(* Money of a row that was never closed: only the stake ever moved.        *)
LEMMA WinningsAreInt ==
  ASSUME NEW stake \in Nat, NEW odds \in Int \ {0}
  PROVE  CalculateWinnings(stake, odds) \in Int
<1>1. CASE odds > 0
  <2>1. stake * odds \in Int /\ 200 \in Int
    BY SMT
  <2> QED
    BY <1>1, <2>1 DEF CalculateWinnings, RoundDiv
<1>2. CASE odds < 0
  <2>1. -odds \in Nat \ {0} /\ stake * 100 \in Int
    BY <1>2
  <2>2. 2 * (stake * 100) + (-odds) \in Int /\ 2 * (-odds) \in Nat \ {0}
    BY <2>1
  <2>3. \A n \in Int, d \in Nat \ {0} : n \div d \in Int
    BY SMT
  <2> QED
    BY <1>2, <2>2, <2>3 DEF CalculateWinnings, RoundDiv
<1> QED
  BY <1>1, <1>2

(* What the ledger rows of a key add up to, before settlement.             *)
LEMMA NetOfOpenRow ==
  ASSUME PlacementTypeOK, Safe, NEW k \in Keys
  PROVE  Net(k) = IF bets[k].status \in {"pending", "placed"} THEN -bets[k].ticket.stake ELSE 0
<1>1. CASE bets[k].status = "none"
  BY <1>1 DEF Net
<1>2. CASE bets[k].status # "none"
  <2> DEFINE t == bets[k].ticket
  <2>1. /\ bets[k].status \in {"pending", "placed", "failed"}
        /\ t \in Inputs /\ t.stake \in Nat /\ t.odds \in Int \ {0}
    BY <1>2, PlacementAssumption, TicketsAssumption DEF Safe, RowsComeFirst, TicketFields
  <2>2. /\ ledger[k]["win"] = 0 /\ ledger[k]["loss"] = 0 /\ ledger[k]["push"] = 0
        /\ ledger[k]["reserved"] = 1
        /\ ledger[k]["released"] = (IF bets[k].status = "failed" THEN 1 ELSE 0)
    BY <1>2 DEF Safe, RowsComeFirst, EscrowMatchesRow
  <2>3. /\ Amount(t, "reserved") = -t.stake /\ Amount(t, "released") = t.stake
        /\ Amount(t, "loss") = 0 /\ Amount(t, "push") = t.stake
        /\ Amount(t, "win") = t.stake + CalculateWinnings(t.stake, t.odds)
    BY DEF Amount, Payout
  <2>4. CalculateWinnings(t.stake, t.odds) \in Int
    BY <2>1, WinningsAreInt
  <2>5. /\ Net(k) = ledger[k]["reserved"] * Amount(t, "reserved")
                    + ledger[k]["released"] * Amount(t, "released")
                    + ledger[k]["win"] * Amount(t, "win")
                    + ledger[k]["loss"] * Amount(t, "loss")
                    + ledger[k]["push"] * Amount(t, "push")
    BY <1>2 DEF Net
  <2> QED
    BY <2>1, <2>2, <2>3, <2>4, <2>5
<1> QED
  BY <1>1, <1>2

-----------------------------------------------------------------------------
(* What the contract calls held, read off the bet rows alone.              *)
HeldIsOpenStake ==
  \A k \in Keys : -Net(k) = IF bets[k].status \in {"pending", "placed"}
                              THEN bets[k].ticket.stake ELSE 0

(* In every safe state the ledger withholds the open stakes.               *)
LEMMA HeldLemma == PlacementTypeOK /\ Safe => HeldIsOpenStake
<1> SUFFICES ASSUME PlacementTypeOK, Safe, NEW k \in Keys
             PROVE  -Net(k) = IF bets[k].status \in {"pending", "placed"}
                                THEN bets[k].ticket.stake ELSE 0
  BY DEF HeldIsOpenStake
<1>1. bets[k].status \in {"pending", "placed"} => bets[k].ticket.stake \in Nat
  BY PlacementAssumption, TicketsAssumption DEF Safe, RowsComeFirst, TicketFields
<1> QED
  BY <1>1, NetOfOpenRow

(* The initial state maps to the contract's.                               *)
LEMMA ContractInit == PlaceInit => Contract!Init
<1> SUFFICES ASSUME PlaceInit PROVE Contract!Init
  OBVIOUS
<1>1. \A k \in Keys : bets[k].status = "none"
  BY DEF PlaceInit, TablesInit, NoRow
<1>2. HeldIsOpenStake
  BY TypeInit, SafeInit, HeldLemma
<1>3. \A k \in Keys : -Net(k) = 0
  BY <1>1, <1>2 DEF HeldIsOpenStake
<1> QED
  BY <1>1, <1>3 DEF PlaceInit, Contract!Init

(* A step maps to a step of the contract or to none.                       *)
LEMMA ContractStep ==
  ASSUME PlacementTypeOK, Safe, HeldIsOpenStake, HeldIsOpenStake', [PlaceNext]_placeVars
  PROVE  [Contract!Next]_(Contract!vars)
<1> DEFINE phase == [k \in Keys |-> bets[k].status]
           held == [k \in Keys |-> -Net(k)]
<1>0. /\ bets \in [Keys -> Rows] /\ asked \in [Keys -> Nat]
      /\ \A k \in Keys : -Net(k) \in Int
  <2>1. bets \in [Keys -> Rows] /\ asked \in [Keys -> Nat]
    BY DEF PlacementTypeOK, TablesTypeOK
  <2>2. \A k \in Keys : bets[k].status # "none" => bets[k].ticket.stake \in Nat
    BY PlacementAssumption, TicketsAssumption DEF Safe, RowsComeFirst, TicketFields
  <2> QED
    BY <2>1, <2>2 DEF HeldIsOpenStake
<1>1. ASSUME UNCHANGED bets
      PROVE  phase' = phase /\ held' = held
  BY <1>1 DEF HeldIsOpenStake
<1>2. ASSUME NEW k \in Keys, NEW t \in Inputs, bets[k].status = "none", t.key = k, asked' = asked,
             bets' = [bets EXCEPT ![k] = [status |-> "pending", ticket |-> t, result |-> "none"]]
      PROVE  Contract!Hold(k)
  <2>1. /\ bets'[k].status = "pending" /\ bets'[k].ticket = t
        /\ \A j \in Keys \ {k} : bets'[j] = bets[j]
    BY <1>0, <1>2
  <2>2. phase' = [phase EXCEPT ![k] = "pending"]
    BY <2>1
  <2>3. held' = [held EXCEPT ![k] = t.stake]
    BY <2>1 DEF HeldIsOpenStake
  <2> QED
    BY <1>2, <2>2, <2>3 DEF Contract!Hold
<1>3. ASSUME NEW k \in Keys, bets[k].status = "pending", asked[k] = 1, asked' = asked,
             bets' = [bets EXCEPT ![k].status = "placed", ![k].result = "none"]
      PROVE  Contract!Take(k)
  <2>1. /\ bets'[k].status = "placed" /\ bets'[k].ticket = bets[k].ticket
        /\ \A j \in Keys \ {k} : bets'[j] = bets[j]
    BY <1>0, <1>3 DEF Rows
  <2>2. phase' = [phase EXCEPT ![k] = "placed"]
    BY <2>1
  <2>3. \A j \in Keys : -Net(j)' = -Net(j)
    <3>1. -Net(k)' = -Net(k)
      BY <1>3, <2>1 DEF HeldIsOpenStake
    <3>2. \A j \in Keys \ {k} : -Net(j)' = -Net(j)
      BY <2>1 DEF HeldIsOpenStake
    <3> QED
      BY <3>1, <3>2
  <2>4. held' = held
    BY <2>3
  <2> QED
    BY <1>3, <2>2, <2>4 DEF Contract!Take
<1>4. ASSUME NEW k \in Keys, bets[k].status = "pending", asked[k] = 1, asked' = asked,
             bets' = [bets EXCEPT ![k].status = "failed", ![k].result = "none"]
      PROVE  Contract!GiveBack(k)
  <2>1. /\ bets'[k].status = "failed" /\ bets'[k].ticket = bets[k].ticket
        /\ \A j \in Keys \ {k} : bets'[j] = bets[j]
    BY <1>0, <1>4 DEF Rows
  <2>2. phase' = [phase EXCEPT ![k] = "failed"]
    BY <2>1
  <2>3. held' = [held EXCEPT ![k] = 0]
    BY <2>1 DEF HeldIsOpenStake
  <2> QED
    BY <1>4, <2>2, <2>3 DEF Contract!GiveBack
<1>5. ASSUME NEW c \in Callers, CallAdapter(c)
      PROVE  Contract!Ask(KeyOf(c))
  <2>1. /\ KeyOf(c) \in Keys /\ bets[KeyOf(c)].status = "pending" /\ asked[KeyOf(c)] = 0
        /\ UNCHANGED bets
    BY <1>5, InputKeys DEF CallAdapter, PlacementTypeOK, Safe, OneOwner, KeyOf, tables
  <2>2. asked' = [asked EXCEPT ![KeyOf(c)] = 1]
    BY <1>0, <1>5, <2>1 DEF CallAdapter
  <2> QED
    BY <1>1, <2>1, <2>2 DEF Contract!Ask
<1>6. ASSUME NEW c \in Callers, NEW t \in Inputs,
             ReturnExisting(c, t) \/ PassCheck(c, t) \/ RefuseInsert(c) \/ Abandon(c)
      PROVE  UNCHANGED <<bets, asked>>
  BY <1>6 DEF ReturnExisting, PassCheck, RefuseInsert, Abandon, tables
<1>7. ASSUME NEW c \in Callers, RefuseInsert(c) \/ Abandon(c)
      PROVE  UNCHANGED <<bets, asked>>
  BY <1>7 DEF RefuseInsert, Abandon, tables
<1>8. CASE UNCHANGED <<bets, asked>>
  BY <1>1, <1>8 DEF Contract!vars
<1>9. CASE UNCHANGED tables /\ ~UNCHANGED <<bets, asked>>
  <2>1. PICK c \in Callers : CallAdapter(c) \/ Reserve(c) \/ Confirm(c) \/ Release(c)
    BY <1>6, <1>7, <1>9 DEF PlaceNext, PlaceStep, Advance, placeVars
  <2>2. CallAdapter(c)
    BY <1>9, <2>1 DEF Reserve, Confirm, Release, tables
  <2>3. KeyOf(c) \in Keys
    BY <2>2, InputKeys DEF CallAdapter, PlacementTypeOK, KeyOf
  <2> QED
    BY <1>5, <2>2, <2>3 DEF Contract!Next
<1> QED
  BY <1>2, <1>3, <1>4, <1>8, <1>9, RowStep DEF Contract!Next, tables

(* Place, run by any number of callers over any tickets, implements the    *)
(* callerless contract of one key.                                         *)
THEOREM Refinement == PlaceSpec => ImplementsContract
<1>1. PlaceInit => Contract!Init
  BY ContractInit
<1>2. /\ PlacementTypeOK /\ Safe /\ (PlacementTypeOK /\ Safe)' /\ [PlaceNext]_placeVars
      => [Contract!Next]_(Contract!vars)
  <2>1. PlacementTypeOK /\ Safe => HeldIsOpenStake
    BY HeldLemma
  <2>2. (PlacementTypeOK /\ Safe)' => HeldIsOpenStake'
    BY <2>1, PTL
  <2> QED
    BY <2>1, <2>2, ContractStep
<1> QED
  BY <1>1, <1>2, InductiveInvariant, PTL DEF PlaceSpec, ImplementsContract, Contract!Spec

=============================================================================
