------------------------------ MODULE Pipeline ------------------------------
(***************************************************************************)
(* From recommendation to bet: requests that persist recommendation        *)
(* snapshots (GET /recommendations, the refresh handler and every load of  *)
(* the home page), the two place buttons, and runs of the auto_placement   *)
(* job, all on the tables of Placement and calling its Place.              *)
(*                                                                         *)
(* Decision says what a request may recommend; here a request picks any    *)
(* slate of the Offers within the correlation guard, and none while the    *)
(* breaker trips.  The ledger starts with one deposit made before today,   *)
(* so that deposit is the day's starting balance; the weekly and the peak  *)
(* balance work alike and are left out, as is the settlement of bets.      *)
(***************************************************************************)
EXTENDS Placement, SequencesExt

CONSTANTS Requests,       \* concurrent requests for recommendations
          Buttons,        \* callers of Place that are button requests
          Jobs,           \* callers of Place that are runs of the job
          Offers,         \* recommendations the decision engine may come to
          PicksPerGame,   \* CorrelationMaxPicksPerGame
          DailyStop,      \* DailyLossStop, in percent
          Deposited,      \* the balance at the start of the day
          RowLimit,       \* autoPlacementRowLimit
          MaxSnapshots,   \* bound: rows of recommendation_snapshots
          MaxMinute       \* bound: minutes that pass

VARIABLES snapshots,      \* rows of recommendation_snapshots; the id is the index
          request,        \* [Requests -> recommendations yet to be persisted]
          queue,          \* [Jobs -> snapshot ids of the run yet to be placed]
          minute          \* the minute generated_at falls into

pipeVars == <<placeVars, snapshots, request, queue, minute>>

OfferFields == [game : Nat, market : {"h2h", "totals"}, side : Sides, book : Nat,
                stake : Nat, odds : Int \ {0}, rank : Nat]

ASSUME PipelineAssumption ==
  /\ Offers \subseteq OfferFields
  /\ Buttons \cup Jobs = Callers /\ Buttons \cap Jobs = {}
  /\ PicksPerGame \in 1..25 /\ DailyStop \in 0..100 /\ Deposited \in Nat
  /\ RowLimit \in Nat \ {0} /\ MaxSnapshots \in Nat /\ MaxMinute \in Nat
  /\ IsFiniteSet(Offers)

(* Keys are what the two key functions make of an offer and a minute or a  *)
(* snapshot id; Place may be asked for any offer under any of them.        *)
Key(kind, o, n) == <<kind, o.game, o.market, o.book, n>>

Ticket(o, id, key) == [key |-> key, snapshot |-> id, game |-> o.game, market |-> o.market,
                       side |-> o.side, stake |-> o.stake, odds |-> o.odds]

ASSUME KeysAssumption ==
  /\ Keys = {Key("button", o, m) : o \in Offers, m \in 0..MaxMinute}
               \cup {Key("job", o, id) : o \in Offers, id \in 1..MaxSnapshots}
  /\ \A o \in Offers, id \in 1..MaxSnapshots, k \in Keys : Ticket(o, id, k) \in Inputs

PipeInit == /\ PlaceInit
            /\ snapshots = <<>>
            /\ request = [r \in Requests |-> <<>>]
            /\ queue = [j \in Jobs |-> <<>>]
            /\ minute = 0

-----------------------------------------------------------------------------
(* GetBankrollCircuitMetrics: balances are sums over the ledger, in which  *)
(* a stake at risk is gone until it is released or settled.                *)
LedgerBalance == Deposited + MapThenSumSet(Net, Keys)

Tripped == /\ DailyStop > 0
           /\ LedgerBalance < Deposited
           /\ 100 * (Deposited - LedgerBalance) >= DailyStop * Deposited

(* What BuildRecommendations may answer, in rank order. *)
Slates ==
  LET Allowed(slate) ==
        /\ \A o \in slate : o.stake > 0 => ~Tripped /\ o.stake <= LedgerBalance
        /\ \A g \in {o.game : o \in slate} :
             Cardinality({o \in slate : o.game = g /\ o.stake > 0}) <= PicksPerGame
        /\ \A o, p \in slate : o.game = p.game /\ o.market = p.market => o = p
      Ranked(slate) == {s \in SetToSeqs(slate) :
                          \A i, j \in DOMAIN s : i < j => s[i].rank >= s[j].rank}
  IN  UNION {Ranked(slate) : slate \in {s \in SUBSET Offers : Allowed(s)}}

(* handleRecommendations, handleRefresh, buildLiveRecommendations: metrics *)
(* and candidates are read, the recommendations built ...                  *)
Recommend(r) ==
  /\ request[r] = <<>>
  /\ LedgerBalance >= 0
  /\ \E slate \in Slates :
       request' = [request EXCEPT ![r] = [i \in DOMAIN slate |-> [offer |-> slate[i], minute |-> minute]]]
  /\ UNCHANGED <<placeVars, snapshots, queue, minute>>

(* ... and persistRecommendationSnapshotsInto inserts them one by one,     *)
(* each in a transaction of its own.                                       *)
PersistSnapshot(r) ==
  /\ request[r] # <<>>
  /\ Len(snapshots) < MaxSnapshots
  /\ snapshots' = Append(snapshots, Head(request[r]))
  /\ request' = [request EXCEPT ![r] = Tail(@)]
  /\ UNCHANGED <<placeVars, queue, minute>>

AbortPersist(r) ==
  /\ request[r] # <<>>
  /\ request' = [request EXCEPT ![r] = <<>>]
  /\ UNCHANGED <<placeVars, snapshots, queue, minute>>

MinutePasses == /\ minute < MaxMinute
                /\ minute' = minute + 1
                /\ UNCHANGED <<placeVars, snapshots, request, queue>>

-----------------------------------------------------------------------------
TicketOf(id, key) == Ticket(snapshots[id].offer, id, key)

\* Faulty variant: the minute of the click stands in for that of the snapshot.
ClickMinuteKey(id) == Key("button", snapshots[id].offer, minute)

(* GenerateIdempotencyKey: the buttons' key. *)
ButtonKey(id) == Key("button", snapshots[id].offer, snapshots[id].minute)

\* Faulty variant: the key does not name the snapshot.
MarketJobKey(id) == Key("job", snapshots[id].offer, 1)

\* Faulty variant: the buttons' bucket takes the place of the snapshot id.
MinuteJobKey(id) == Key("job", snapshots[id].offer, minute + 1)

(* autoPlacementIdempotencyKey: the job's key. *)
JobKey(id) == Key("job", snapshots[id].offer, id)

StartPlace(c, t) == ReturnExisting(c, t) \/ PassCheck(c, t)

(* handleExecutionPlace and handlePartialPlaceBet, of any snapshot, at any *)
(* time.                                                                   *)
Click(b, id) ==
  /\ StartPlace(b, TicketOf(id, ButtonKey(id)))
  /\ UNCHANGED <<snapshots, request, queue, minute>>

-----------------------------------------------------------------------------
(* ListPlaceableRecommendationSnapshots: a stake, and no bet row, whatever *)
(* its status, that refers to the snapshot.                                *)
HasRow(id) == \E k \in Keys : bets[k].status # "none" /\ bets[k].ticket.snapshot = id

Placeable == {id \in DOMAIN snapshots : snapshots[id].offer.stake > 0 /\ ~HasRow(id)}

(* ORDER BY rank_score DESC, id ASC LIMIT. *)
Before(i, j) == LET ri == snapshots[i].offer.rank
                    rj == snapshots[j].offer.rank
                IN  ri > rj \/ (ri = rj /\ i < j)

Listings ==
  LET Limited(list) == SubSeq(list, 1, IF Len(list) < RowLimit THEN Len(list) ELSE RowLimit)
  IN  {Limited(list) : list \in {l \in SetToSeqs(Placeable) :
                                   \A i, j \in DOMAIN l : i < j => Before(l[i], l[j])}}

(* buildAutoPlacementInput takes sides of moneylines only. *)
Supported(id) == snapshots[id].offer.side \in {"home", "away"}

ListPlaceable(j) ==
  /\ queue[j] = <<>> /\ call[j].at = "start"
  /\ Placeable # {}
  /\ \E list \in Listings : queue' = [queue EXCEPT ![j] = list]
  /\ UNCHANGED <<placeVars, snapshots, request, minute>>

SkipCandidate(j) ==
  /\ queue[j] # <<>> /\ call[j].at = "start"
  /\ ~Supported(Head(queue[j]))
  /\ queue' = [queue EXCEPT ![j] = Tail(@)]
  /\ UNCHANGED <<placeVars, snapshots, request, minute>>

(* The run goes on with the next candidate whatever Place returns. *)
PlaceCandidate(j) ==
  /\ queue[j] # <<>> /\ call[j].at = "start"
  /\ Supported(Head(queue[j]))
  /\ StartPlace(j, TicketOf(Head(queue[j]), JobKey(Head(queue[j]))))
  /\ queue' = [queue EXCEPT ![j] = Tail(@)]
  /\ UNCHANGED <<snapshots, request, minute>>

(* The run is killed between two candidates or inside Place. *)
KillRun(j) ==
  /\ MayAbandon
  /\ queue[j] # <<>> \/ call[j].at # "start"
  /\ queue' = [queue EXCEPT ![j] = <<>>]
  /\ IF call[j].at = "start" THEN UNCHANGED placeVars ELSE Abandon(j)
  /\ UNCHANGED <<snapshots, request, minute>>

ContinuePlace(c) == /\ Advance(c) \/ Abandon(c)
                    /\ UNCHANGED <<snapshots, request, queue, minute>>

AdvancePlace(c) == Advance(c) /\ UNCHANGED <<snapshots, request, queue, minute>>

PipeNext ==
  \/ \E r \in Requests : Recommend(r) \/ PersistSnapshot(r) \/ AbortPersist(r)
  \/ \E b \in Buttons : \E id \in DOMAIN snapshots : Click(b, id)
  \/ \E j \in Jobs : ListPlaceable(j) \/ SkipCandidate(j) \/ PlaceCandidate(j) \/ KillRun(j)
  \/ \E c \in Callers : ContinuePlace(c)
  \/ MinutePasses

PipeSpec == PipeInit /\ [][PipeNext]_pipeVars

(* River keeps starting runs and not all of them are killed at one place.  *)
FairJobs ==
  \A j \in Jobs : /\ WF_pipeVars(ListPlaceable(j))
                  /\ SF_pipeVars(SkipCandidate(j))
                  /\ SF_pipeVars(PlaceCandidate(j))
                  /\ SF_pipeVars(AdvancePlace(j))

FairPipeSpec == PipeSpec /\ FairJobs

-----------------------------------------------------------------------------
PipelineTypeOK ==
  /\ PlacementTypeOK
  /\ Len(snapshots) <= MaxSnapshots
  /\ \A id \in DOMAIN snapshots : snapshots[id].offer \in Offers /\ snapshots[id].minute \in 0..minute
  /\ \A r \in Requests : \A i \in DOMAIN request[r] : request[r][i].offer \in Offers
  /\ \A j \in Jobs : ToSet(queue[j]) \subseteq DOMAIN snapshots
  /\ minute \in 0..MaxMinute

(* A bet row says what its snapshot said, under a key that names the       *)
(* snapshot (the job) or the minute it was made in (the buttons):          *)
(* concurrent requests, clicks on old pages and repeated runs never put    *)
(* one recommendation's stake on another's game, side or price.            *)
RowsSayWhatWasAdvised ==
  \A k \in Keys : bets[k].status # "none" =>
    LET id == bets[k].ticket.snapshot
        o == snapshots[id].offer
    IN  /\ id \in DOMAIN snapshots
        /\ k \in {<<"job", o.game, o.market, o.book, id>>,
                  <<"button", o.game, o.market, o.book, snapshots[id].minute>>}
        /\ bets[k].ticket = TicketOf(id, k)

(* Runs of the job that overlap, die or repeat ask the book once for a     *)
(* snapshot.                                                               *)
JobBetsOnce ==
  \A id \in DOMAIN snapshots :
    Cardinality({k \in Keys : bets[k].status # "none" /\ bets[k].ticket.snapshot = id
                              /\ k[1] = "job"}) <= 1

(* With the buttons and the job together a snapshot is bet at most twice.  *)
(* README.md promises exactly-once placement: once.                        *)
SnapshotBetOnce ==
  \A id \in DOMAIN snapshots :
    Cardinality({k \in Keys : bets[k].status \in {"pending", "placed"} /\ bets[k].ticket.snapshot = id}) <= 1

(* Every snapshot the job can place gets a bet row, though runs die.       *)
PlaceableGetsBet ==
  \A id \in 1..MaxSnapshots :
    (id \in DOMAIN snapshots /\ snapshots[id].offer.stake > 0 /\ Supported(id)) ~> HasRow(id)

=============================================================================
