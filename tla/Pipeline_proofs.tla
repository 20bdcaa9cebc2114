--------------------------- MODULE Pipeline_proofs ---------------------------
(***************************************************************************)
(* Proofs about Pipeline, for any number of requests, buttons and runs of  *)
(* the job.  Every call that they make of Place is one that Placement is   *)
(* about, so that all that is proved of Placement holds here; and the key  *)
(* of a bet names the recommendation that it is a bet on.                  *)
(***************************************************************************)
EXTENDS Pipeline, Placement_proofs, SequenceTheorems, FiniteSetTheorems

-----------------------------------------------------------------------------
(* Rows of recommendation_snapshots, those of the minutes so far, and the  *)
(* ids of those that are there.                                            *)
SnapshotRows == [offer : Offers, minute : 0..minute]
Ids == 1..Len(snapshots)

PipeShape ==
  /\ snapshots \in Seq(SnapshotRows) /\ Len(snapshots) <= MaxSnapshots
  /\ request \in [Requests -> Seq(SnapshotRows)]
  /\ queue \in [Jobs -> Seq(Ids)]
  /\ minute \in 0..MaxMinute

(* An ordering of a finite set is a sequence of its elements.              *)
LEMMA OrdersAreSeqs ==
  ASSUME NEW S, IsFiniteSet(S), NEW s \in SetToSeqs(S)
  PROVE  s \in Seq(S)
<1>1. Cardinality(S) \in Nat
  BY FS_CardinalityType
<1>2. s \in [1..Cardinality(S) -> S]
  BY DEF SetToSeqs
<1> QED
  BY <1>1, <1>2

(* Snapshot ids are the positions of the rows.                             *)
LEMMA IdsAreDomain == ASSUME PipeShape PROVE Ids = DOMAIN snapshots /\ Ids \subseteq 1..MaxSnapshots /\ Len(snapshots) \in Nat
  BY PipelineAssumption, LenProperties DEF PipeShape, Ids

(* A slate is a sequence of offers, a listing one of ids.                  *)
LEMMA SlatesAreSeqs == ASSUME NEW slate \in Slates PROVE slate \in Seq(Offers)
<1>1. PICK set \in SUBSET Offers : slate \in SetToSeqs(set)
  BY DEF Slates
<1>2. IsFiniteSet(set)
  BY PipelineAssumption, FS_Subset
<1>3. slate \in Seq(set)
  BY <1>1, <1>2, OrdersAreSeqs
<1> QED
  BY <1>3, SeqMonotonic

(* ... of ids of snapshots that are there.                                 *)
LEMMA ListingsAreSeqs ==
  ASSUME PipeShape, NEW list \in Listings
  PROVE  list \in Seq(Ids)
<1>1. PICK l \in SetToSeqs(Placeable) :
         list = SubSeq(l, 1, IF Len(l) < RowLimit THEN Len(l) ELSE RowLimit)
  BY DEF Listings
<1>2. Placeable \subseteq Ids
  BY IdsAreDomain DEF Placeable
<1>3. IsFiniteSet(Placeable)
  <2>1. Len(snapshots) \in Int /\ 1 \in Int
    BY IdsAreDomain
  <2>2. IsFiniteSet(Ids)
    BY <2>1, FS_Interval DEF Ids
  <2> QED
    BY <1>2, <2>2, FS_Subset
<1>4. l \in Seq(Placeable)
  BY <1>3, OrdersAreSeqs
<1>5. l \in Seq(Ids)
  BY <1>2, <1>4, SeqMonotonic
<1> DEFINE n == IF Len(l) < RowLimit THEN Len(l) ELSE RowLimit
<1>6. n \in Int /\ n <= Len(l) /\ \A i \in 1..n : l[i] \in Ids
  BY <1>5, LenProperties, ElementOfSeq, PipelineAssumption
<1> HIDE DEF n
<1>7. SubSeq(l, 1, n) \in Seq(Ids)
  BY <1>6, SubSeqProperties
<1> QED
  BY <1>1, <1>7 DEF n

-----------------------------------------------------------------------------
(* The requests' and the jobs' own state keeps its shape.                  *)
LEMMA ShapeAtFirst == PipeInit => PipeShape
  BY PipelineAssumption, EmptySeq DEF PipeInit, PipeShape

(* Every step keeps it: rows are only added, and minutes only pass.        *)
LEMMA ShapeIsKept ==
  ASSUME PipeShape, PipeNext
  PROVE  PipeShape'
<1>0. /\ snapshots \in Seq(SnapshotRows) /\ Len(snapshots) <= MaxSnapshots /\ Len(snapshots) \in Nat
      /\ request \in [Requests -> Seq(SnapshotRows)]
      /\ queue \in [Jobs -> Seq(Ids)]
      /\ minute \in 0..MaxMinute /\ minute \in Nat
  BY IdsAreDomain, PipelineAssumption DEF PipeShape
<1>1. ASSUME NEW r \in Requests, Recommend(r)
      PROVE  PipeShape'
  <2>1. PICK slate \in Slates :
          request' = [request EXCEPT ![r] = [i \in DOMAIN slate |-> [offer |-> slate[i], minute |-> minute]]]
    BY <1>1 DEF Recommend
  <2>2. slate \in Seq(Offers)
    BY SlatesAreSeqs
  <2>3. [i \in DOMAIN slate |-> [offer |-> slate[i], minute |-> minute]] \in Seq(SnapshotRows)
    <3>1. Len(slate) \in Nat /\ DOMAIN slate = 1..Len(slate) /\ \A i \in 1..Len(slate) : slate[i] \in Offers
      BY <2>2, LenProperties, ElementOfSeq
    <3>2. \A i \in 1..Len(slate) : [offer |-> slate[i], minute |-> minute] \in SnapshotRows
      BY <1>0, <3>1 DEF SnapshotRows
    <3> QED
      BY <3>1, <3>2
  <2>4. request' \in [Requests -> Seq(SnapshotRows)]
    BY <1>0, <2>1, <2>3
  <2> QED
    BY <1>0, <1>1, <2>4 DEF Recommend, PipeShape, SnapshotRows, Ids
<1>2. ASSUME NEW r \in Requests, PersistSnapshot(r)
      PROVE  PipeShape'
  <2>1. /\ request[r] \in Seq(SnapshotRows) /\ request[r] # <<>> /\ Len(snapshots) < MaxSnapshots
        /\ snapshots' = Append(snapshots, Head(request[r]))
        /\ request' = [request EXCEPT ![r] = Tail(request[r])]
    BY <1>0, <1>2 DEF PersistSnapshot
  <2>2. Head(request[r]) \in SnapshotRows /\ Tail(request[r]) \in Seq(SnapshotRows)
    BY <2>1, HeadTailProperties
  <2>3. snapshots' \in Seq(SnapshotRows) /\ Len(snapshots') = Len(snapshots) + 1
    BY <1>0, <2>1, <2>2, AppendProperties
  <2>4. request' \in [Requests -> Seq(SnapshotRows)]
    BY <1>0, <2>1, <2>2
  <2>5. Ids \subseteq Ids' /\ Len(snapshots') <= MaxSnapshots
    BY <1>0, <2>1, <2>3, PipelineAssumption DEF Ids
  <2>6. \A j \in Jobs : queue[j] \in Seq(Ids')
    BY <1>0, <2>5, SeqMonotonic
  <2>7. queue \in [Jobs -> Seq(Ids')]
    BY <1>0, <2>6
  <2> QED
    BY <1>0, <1>2, <2>3, <2>4, <2>5, <2>7 DEF PersistSnapshot, PipeShape, SnapshotRows
<1>3. ASSUME NEW r \in Requests, AbortPersist(r)
      PROVE  PipeShape'
  <2>1. <<>> \in Seq(SnapshotRows)
    BY EmptySeq
  <2>2. request' \in [Requests -> Seq(SnapshotRows)]
    BY <1>0, <1>3, <2>1 DEF AbortPersist
  <2> QED
    BY <1>0, <1>3, <2>2 DEF AbortPersist, PipeShape, SnapshotRows, Ids
<1>4. CASE MinutePasses
  <2>1. minute' = minute + 1 /\ minute' \in 0..MaxMinute /\ SnapshotRows \subseteq SnapshotRows'
    BY <1>0, <1>4, PipelineAssumption DEF MinutePasses, SnapshotRows
  <2>2. snapshots \in Seq(SnapshotRows') /\ \A r \in Requests : request[r] \in Seq(SnapshotRows')
    BY <1>0, <2>1, SeqMonotonic
  <2>3. request \in [Requests -> Seq(SnapshotRows')]
    BY <1>0, <2>2
  <2> QED
    BY <1>0, <1>4, <2>1, <2>2, <2>3 DEF MinutePasses, PipeShape, Ids
<1>5. ASSUME NEW j \in Jobs, NEW list \in Seq(Ids), queue' = [queue EXCEPT ![j] = list],
             UNCHANGED <<snapshots, request, minute>>
      PROVE  PipeShape'
  <2>1. queue' \in [Jobs -> Seq(Ids)]
    BY <1>0, <1>5
  <2> QED
    BY <1>0, <1>5, <2>1 DEF PipeShape, SnapshotRows, Ids
<1>6. ASSUME NEW j \in Jobs, ListPlaceable(j)
      PROVE  PipeShape'
  BY <1>5, <1>6, ListingsAreSeqs DEF ListPlaceable
<1>7. ASSUME NEW j \in Jobs, SkipCandidate(j) \/ PlaceCandidate(j)
      PROVE  PipeShape'
  <2>1. queue[j] \in Seq(Ids) /\ queue[j] # <<>> /\ queue' = [queue EXCEPT ![j] = Tail(queue[j])]
    BY <1>0, <1>7 DEF SkipCandidate, PlaceCandidate
  <2>2. Tail(queue[j]) \in Seq(Ids)
    BY <2>1, HeadTailProperties
  <2> QED
    BY <1>5, <1>7, <2>1, <2>2 DEF SkipCandidate, PlaceCandidate
<1>8. ASSUME NEW j \in Jobs, KillRun(j)
      PROVE  PipeShape'
  <2>1. <<>> \in Seq(Ids)
    BY EmptySeq
  <2> QED
    BY <1>5, <1>8, <2>1 DEF KillRun
<1>9. CASE UNCHANGED <<snapshots, request, queue, minute>>
  BY <1>9 DEF PipeShape, SnapshotRows, Ids
<1> QED
  BY <1>1, <1>2, <1>3, <1>4, <1>6, <1>7, <1>8, <1>9 DEF PipeNext, Click, ContinuePlace

(* With Placement's types that is the type invariant.                      *)
LEMMA ShapeMeans == PlacementTypeOK /\ PipeShape => PipelineTypeOK
<1> SUFFICES ASSUME PlacementTypeOK, PipeShape PROVE PipelineTypeOK
  OBVIOUS
<1>1. ASSUME NEW S, NEW s \in Seq(S)
      PROVE  \A i \in DOMAIN s : s[i] \in S
  BY LenProperties, ElementOfSeq
<1>2. \A id \in DOMAIN snapshots : snapshots[id] \in SnapshotRows
  BY <1>1 DEF PipeShape
<1>3. \A r \in Requests : \A i \in DOMAIN request[r] : request[r][i] \in SnapshotRows
  BY <1>1 DEF PipeShape
<1>4. \A j \in Jobs : \A i \in DOMAIN queue[j] : queue[j][i] \in Ids
  BY <1>1 DEF PipeShape
<1>5. \A j \in Jobs : ToSet(queue[j]) \subseteq DOMAIN snapshots
  BY <1>4, IdsAreDomain DEF ToSet
<1> QED
  BY <1>2, <1>3, <1>5 DEF PipeShape, PipelineTypeOK, SnapshotRows

-----------------------------------------------------------------------------
(* What a snapshot is bet with, by a button or by the job: one of the      *)
(* tickets that Placement is about.                                        *)
KeysOf(id) == {ButtonKey(id), JobKey(id)}

(* Both of its keys are keys of the tables.                                *)
LEMMA TicketsAreInputs ==
  ASSUME PipeShape, NEW id \in DOMAIN snapshots, NEW k \in KeysOf(id)
  PROVE  /\ k \in Keys /\ TicketOf(id, k) \in Inputs
         /\ TicketOf(id, k).key = k /\ TicketOf(id, k).snapshot = id
<1>1. snapshots[id] \in SnapshotRows /\ id \in 1..MaxSnapshots
  BY IdsAreDomain, ElementOfSeq DEF PipeShape, Ids
<1>2. snapshots[id].offer \in Offers /\ snapshots[id].minute \in 0..MaxMinute
  BY <1>1, PipelineAssumption DEF SnapshotRows, PipeShape
<1>3. k \in Keys
  BY <1>1, <1>2, KeysAssumption DEF KeysOf, ButtonKey, JobKey
<1> QED
  BY <1>1, <1>2, <1>3, KeysAssumption DEF TicketOf, Ticket

(* A step of the pipeline is a step of Place, or none.                     *)
LEMMA PlacesAsPlacement == PipeShape /\ [PipeNext]_pipeVars => [PlaceNext]_placeVars
<1> SUFFICES ASSUME PipeShape, [PipeNext]_pipeVars PROVE [PlaceNext]_placeVars
  OBVIOUS
<1>1. ASSUME NEW c \in Callers, NEW id \in DOMAIN snapshots, NEW k \in KeysOf(id),
             StartPlace(c, TicketOf(id, k))
      PROVE  PlaceNext
  BY <1>1, TicketsAreInputs DEF StartPlace, PlaceNext, PlaceStep
<1>2. ASSUME NEW b \in Buttons, NEW id \in DOMAIN snapshots, Click(b, id)
      PROVE  PlaceNext
  BY <1>1, <1>2, PipelineAssumption DEF Click, KeysOf
<1>3. ASSUME NEW j \in Jobs, PlaceCandidate(j)
      PROVE  PlaceNext
  <2>1. queue[j] \in Seq(Ids) /\ queue[j] # <<>>
    BY <1>3 DEF PlaceCandidate, PipeShape
  <2>2. Head(queue[j]) \in DOMAIN snapshots
    BY <2>1, HeadTailProperties, IdsAreDomain
  <2> QED
    BY <1>1, <1>3, <2>2, PipelineAssumption DEF PlaceCandidate, KeysOf
<1>4. ASSUME NEW j \in Jobs, KillRun(j)
      PROVE  PlaceNext \/ UNCHANGED placeVars
  BY <1>4, PipelineAssumption DEF KillRun, PlaceNext, PlaceStep
<1>5. ASSUME NEW c \in Callers, ContinuePlace(c)
      PROVE  PlaceNext
  BY <1>5 DEF ContinuePlace, PlaceNext, PlaceStep
<1>6. ASSUME NEW r \in Requests, Recommend(r) \/ PersistSnapshot(r) \/ AbortPersist(r)
      PROVE  UNCHANGED placeVars
  BY <1>6 DEF Recommend, PersistSnapshot, AbortPersist
<1>7. ASSUME NEW j \in Jobs, ListPlaceable(j) \/ SkipCandidate(j)
      PROVE  UNCHANGED placeVars
  BY <1>7 DEF ListPlaceable, SkipCandidate
<1>8. CASE MinutePasses \/ UNCHANGED pipeVars
  BY <1>8 DEF MinutePasses, pipeVars
<1> QED
  BY <1>2, <1>3, <1>4, <1>5, <1>6, <1>7, <1>8 DEF PipeNext

-----------------------------------------------------------------------------
(* The tickets in the hands of calls and in the bet rows say what a        *)
(* snapshot says, under one of its keys.                                   *)
Says(t) == /\ t.snapshot \in DOMAIN snapshots
           /\ t.key \in KeysOf(t.snapshot)
           /\ t = TicketOf(t.snapshot, t.key)

AdviceInv == /\ \A c \in Callers : call[c].at # "start" => Says(call[c].ticket)
             /\ \A k \in Keys : bets[k].status # "none" => Says(bets[k].ticket)

(* Snapshots are only ever added, so that what a ticket says stays so.     *)
LEMMA SnapshotsStay ==
  ASSUME PipeShape, [PipeNext]_pipeVars
  PROVE  \A id \in DOMAIN snapshots : id \in DOMAIN snapshots' /\ snapshots'[id] = snapshots[id]
<1>1. ASSUME NEW r \in Requests, PersistSnapshot(r)
      PROVE  \A id \in DOMAIN snapshots : id \in DOMAIN snapshots' /\ snapshots'[id] = snapshots[id]
  <2>1. request[r] \in Seq(SnapshotRows) /\ request[r] # <<>>
    BY <1>1 DEF PersistSnapshot, PipeShape
  <2>2. Head(request[r]) \in SnapshotRows
    BY <2>1, HeadTailProperties
  <2> QED
    BY <1>1, <2>2, AppendProperties, LenProperties DEF PersistSnapshot, PipeShape
<1>2. CASE UNCHANGED snapshots
  BY <1>2
<1> QED
  BY <1>1, <1>2 DEF PipeNext, pipeVars, Recommend, AbortPersist, Click, ListPlaceable, SkipCandidate,
                    PlaceCandidate, KillRun, ContinuePlace, MinutePasses

(* So a ticket that says what its snapshot says does so for ever.          *)
LEMMA SayingStays ==
  ASSUME PipeShape, [PipeNext]_pipeVars, NEW t, Says(t)
  PROVE  Says(t)'
<1>1. t.snapshot \in DOMAIN snapshots' /\ snapshots'[t.snapshot] = snapshots[t.snapshot]
  BY SnapshotsStay DEF Says
<1> QED
  BY <1>1 DEF Says, KeysOf, ButtonKey, JobKey, TicketOf

(* What a step does with tickets: a call takes one up that says what a     *)
(* snapshot says, or keeps the one it has; a row is made of a call's.      *)
LEMMA CallsTakeAdvice ==
  ASSUME PlacementTypeOK, NEW c \in Callers, NEW t \in Inputs, StartPlace(c, t)
  PROVE  /\ bets' = bets
         /\ \A d \in Callers : call'[d].at # "start" =>
              \/ d = c /\ call'[d].ticket = t
              \/ call[d].at # "start" /\ call'[d].ticket = call[d].ticket
  BY DEF StartPlace, ReturnExisting, PassCheck, PlacementTypeOK, CallStates, tables

(* A call that goes on keeps its ticket, and the row it inserts carries    *)
(* it.                                                                     *)
LEMMA CallsKeepAdvice ==
  ASSUME PlacementTypeOK, NEW c \in Callers, Advance(c) \/ Abandon(c)
  PROVE  /\ \A d \in Callers : call'[d].at # "start" =>
              call[d].at # "start" /\ call'[d].ticket = call[d].ticket
         /\ \A k \in Keys : bets'[k].status # "none" =>
              \/ bets[k].status # "none" /\ bets'[k].ticket = bets[k].ticket
              \/ call[c].at # "start" /\ bets'[k].ticket = call[c].ticket
<1>1. call \in [Callers -> CallStates] /\ bets \in [Keys -> Rows]
  BY DEF PlacementTypeOK, TablesTypeOK
<1>2. CASE Reserve(c)
  BY <1>1, <1>2 DEF Reserve, InsertRow, Insertable, CallStates, Rows
<1>3. CASE RefuseInsert(c) \/ Abandon(c)
  BY <1>1, <1>3 DEF RefuseInsert, Abandon, Return, CallStates, tables
<1>4. CASE CallAdapter(c)
  BY <1>1, <1>4 DEF CallAdapter, CallStates, tables
<1>5. CASE Confirm(c) \/ Release(c)
  <2>1. call' = [call EXCEPT ![c].at = "start", ![c].reply = "created"]
        \/ call' = [call EXCEPT ![c].at = "start", ![c].reply = "error"]
    BY <1>5 DEF Confirm, Release, Return
  <2>2. PICK to \in {"placed", "failed"} : UpdateWhere(KeyOf(c), "pending", to, "none")
    BY <1>5 DEF Confirm, Release, UpdateBetPlaced, UpdateBetFailed
  <2>3. \A d \in Callers : call'[d].at # "start" =>
          call[d].at # "start" /\ call'[d].ticket = call[d].ticket
    BY <1>1, <2>1 DEF CallStates
  <2>4. \A k \in Keys : bets'[k].status # "none" =>
          bets[k].status # "none" /\ bets'[k].ticket = bets[k].ticket
    BY <1>1, <2>2 DEF UpdateWhere, Rows
  <2> QED
    BY <2>3, <2>4
<1> QED
  BY <1>2, <1>3, <1>4, <1>5 DEF Advance

(* No step puts a ticket into a call or a row that its snapshot does not   *)
(* say.                                                                    *)
LEMMA AdviceStep ==
  ASSUME PlacementTypeOK, PipeShape, AdviceInv, [PipeNext]_pipeVars
  PROVE  AdviceInv'
<1>1. \A t : Says(t) => Says(t)'
  BY SayingStays
<1>2. ASSUME NEW c \in Callers, NEW id \in DOMAIN snapshots, NEW k \in KeysOf(id),
             StartPlace(c, TicketOf(id, k))
      PROVE  AdviceInv'
  <2>1. PICK t \in Inputs : t = TicketOf(id, k) /\ t.key = k /\ t.snapshot = id
    BY TicketsAreInputs
  <2>2. Says(t)
    BY <2>1 DEF Says
  <2>3. /\ bets' = bets
        /\ \A d \in Callers : call'[d].at # "start" =>
             \/ d = c /\ call'[d].ticket = t
             \/ call[d].at # "start" /\ call'[d].ticket = call[d].ticket
    BY <1>2, <2>1, CallsTakeAdvice
  <2> QED
    BY <1>1, <2>2, <2>3 DEF AdviceInv
<1>3. ASSUME NEW c \in Callers, Advance(c) \/ Abandon(c)
      PROVE  AdviceInv'
  <2>1. /\ \A d \in Callers : call'[d].at # "start" =>
              call[d].at # "start" /\ call'[d].ticket = call[d].ticket
        /\ \A k \in Keys : bets'[k].status # "none" =>
              \/ bets[k].status # "none" /\ bets'[k].ticket = bets[k].ticket
              \/ call[c].at # "start" /\ bets'[k].ticket = call[c].ticket
    BY <1>3, CallsKeepAdvice
  <2> QED
    BY <1>1, <2>1 DEF AdviceInv
<1>4. CASE UNCHANGED placeVars
  BY <1>1, <1>4 DEF AdviceInv, placeVars
<1>5. ASSUME NEW b \in Buttons, NEW id \in DOMAIN snapshots, Click(b, id)
      PROVE  AdviceInv'
  BY <1>2, <1>5, PipelineAssumption DEF Click, KeysOf
<1>6. ASSUME NEW j \in Jobs, PlaceCandidate(j)
      PROVE  AdviceInv'
  <2>1. queue[j] \in Seq(Ids) /\ queue[j] # <<>>
    BY <1>6 DEF PlaceCandidate, PipeShape
  <2>2. Head(queue[j]) \in DOMAIN snapshots
    BY <2>1, HeadTailProperties, IdsAreDomain
  <2> QED
    BY <1>2, <1>6, <2>2, PipelineAssumption DEF PlaceCandidate, KeysOf
<1>7. ASSUME NEW j \in Jobs, KillRun(j)
      PROVE  AdviceInv'
  BY <1>3, <1>4, <1>7, PipelineAssumption DEF KillRun
<1>8. ASSUME NEW r \in Requests, Recommend(r) \/ PersistSnapshot(r) \/ AbortPersist(r)
      PROVE  UNCHANGED placeVars
  BY <1>8 DEF Recommend, PersistSnapshot, AbortPersist
<1>9. ASSUME NEW j \in Jobs, ListPlaceable(j) \/ SkipCandidate(j)
      PROVE  UNCHANGED placeVars
  BY <1>9 DEF ListPlaceable, SkipCandidate
<1>10. CASE MinutePasses \/ UNCHANGED pipeVars
  BY <1>4, <1>10 DEF MinutePasses, pipeVars
<1> QED
  BY <1>3, <1>4, <1>5, <1>6, <1>7, <1>8, <1>9, <1>10 DEF PipeNext, ContinuePlace

-----------------------------------------------------------------------------
PipeInv == PlacementTypeOK /\ Safe /\ PipeShape /\ AdviceInv

(* The invariant of the pipeline.                                          *)
LEMMA PipeInvariant == PipeSpec => []PipeInv
<1>1. PipeInit => PipeInv
  <2>1. PipeInit => PlaceInit
    BY DEF PipeInit
  <2>2. PipeInit => AdviceInv
    BY DEF PipeInit, PlaceInit, TablesInit, NoRow, AdviceInv
  <2> QED
    BY <2>1, <2>2, TypeInit, SafeInit, ShapeAtFirst DEF PipeInv
<1>2. PipeInv /\ [PipeNext]_pipeVars => PipeInv'
  <2> SUFFICES ASSUME PipeInv, [PipeNext]_pipeVars PROVE PipeInv'
    OBVIOUS
  <2>1. PipeShape'
    BY ShapeIsKept DEF PipeInv, pipeVars, PipeShape, SnapshotRows, Ids
  <2>2. PlacementTypeOK' /\ Safe'
    BY PlacesAsPlacement, TypeStep, SafeStep DEF PipeInv
  <2> QED
    BY <2>1, <2>2, AdviceStep DEF PipeInv
<1> QED
  BY <1>1, <1>2, PTL DEF PipeSpec

(* Every variable of the pipeline keeps its type: a queue names snapshots  *)
(* that exist, of minutes that have come.                                  *)
THEOREM PipelineTypeCorrect == PipeSpec => []PipelineTypeOK
<1>1. PipeInv => PipelineTypeOK
  BY ShapeMeans DEF PipeInv
<1> QED
  BY <1>1, PipeInvariant, PTL

(* Requests, clicks and runs of the job, in any number and order, make     *)
(* only behaviours of Place that Placement allows ...                      *)
THEOREM PipelinePlaces == PipeSpec => PlaceSpec
<1>1. PipeInit => PlaceInit
  BY DEF PipeInit
<1>2. PipeInv /\ [PipeNext]_pipeVars => [PlaceNext]_placeVars
  BY PlacesAsPlacement DEF PipeInv
<1> QED
  BY <1>1, <1>2, PipeInvariant, PTL DEF PipeSpec, PlaceSpec

(* ... so that here too the book is asked once for a key and the ledger    *)
(* withholds what the row says.                                            *)
THEOREM PipelinePlacesSafely == PipeSpec => []PlacementInv
  BY PipelinePlaces, SafePlacement, PTL

(* A bet is on the game, side, stake and price of the snapshot it names,   *)
(* under a key of that snapshot, however pages, clicks and runs race.      *)
THEOREM BetsAreAdvised == PipeSpec => []RowsSayWhatWasAdvised
<1>1. PipeInv => RowsSayWhatWasAdvised
  <2> SUFFICES ASSUME PipeInv, NEW k \in Keys, bets[k].status # "none"
               PROVE  LET id == bets[k].ticket.snapshot
                          o == snapshots[id].offer
                      IN  /\ id \in DOMAIN snapshots
                          /\ k \in {<<"job", o.game, o.market, o.book, id>>,
                                    <<"button", o.game, o.market, o.book, snapshots[id].minute>>}
                          /\ bets[k].ticket = TicketOf(id, k)
    BY DEF RowsSayWhatWasAdvised
  <2>1. Says(bets[k].ticket) /\ bets[k].ticket.key = k
    BY DEF PipeInv, AdviceInv, Safe, RowsComeFirst
  <2> QED
    BY <2>1 DEF Says, KeysOf, ButtonKey, JobKey, Key
<1> QED
  BY <1>1, PipeInvariant, PTL

(* The job's bets on a snapshot are one at most: overlapping, killed and   *)
(* repeated runs of it compute one key.                                    *)
THEOREM JobsBetOnce == PipeSpec => []JobBetsOnce
<1>1. PipeInv => JobBetsOnce
  <2> SUFFICES ASSUME PipeInv, NEW id \in DOMAIN snapshots
               PROVE  Cardinality({k \in Keys : bets[k].status # "none"
                                     /\ bets[k].ticket.snapshot = id /\ k[1] = "job"}) <= 1
    BY DEF JobBetsOnce
  <2> DEFINE Rowed == {k \in Keys : bets[k].status # "none" /\ bets[k].ticket.snapshot = id
                                    /\ k[1] = "job"}
  <2>1. ASSUME NEW k \in Rowed
        PROVE  k = JobKey(id)
    <3>1. Says(bets[k].ticket) /\ bets[k].ticket.key = k
      BY DEF PipeInv, AdviceInv, Safe, RowsComeFirst
    <3>2. k \in KeysOf(id) /\ k[1] = "job"
      BY <3>1 DEF Says
    <3>3. ButtonKey(id)[1] = "button"
      BY DEF ButtonKey, Key
    <3> QED
      BY <3>2, <3>3 DEF KeysOf
  <2>2. Rowed \subseteq {JobKey(id)}
    BY <2>1
  <2> HIDE DEF Rowed
  <2>3. IsFiniteSet({JobKey(id)}) /\ Cardinality({JobKey(id)}) = 1
    BY FS_Singleton
  <2>4. Cardinality(Rowed) <= 1
    BY <2>2, <2>3, FS_Subset
  <2> QED
    BY <2>4 DEF Rowed
<1> QED
  BY <1>1, PipeInvariant, PTL

(* The bets on a snapshot, of whatever status.                             *)
BetTwiceAtMost ==
  \A id \in DOMAIN snapshots :
    Cardinality({k \in Keys : bets[k].status # "none" /\ bets[k].ticket.snapshot = id}) <= 2

(* What holds of SnapshotBetOnce, which fails where a button and the job   *)
(* bet on one snapshot: more than those two bets there never are, however  *)
(* often it is clicked and however many runs find it placeable.            *)
THEOREM SnapshotsBetTwiceAtMost == PipeSpec => []BetTwiceAtMost
<1>1. PipeInv => BetTwiceAtMost
  <2> SUFFICES ASSUME PipeInv, NEW id \in DOMAIN snapshots
               PROVE  Cardinality({k \in Keys : bets[k].status # "none"
                                     /\ bets[k].ticket.snapshot = id}) <= 2
    BY DEF BetTwiceAtMost
  <2> DEFINE Rowed == {k \in Keys : bets[k].status # "none" /\ bets[k].ticket.snapshot = id}
  <2>1. ASSUME NEW k \in Rowed
        PROVE  k \in KeysOf(id)
    BY DEF PipeInv, AdviceInv, Safe, RowsComeFirst, Says
  <2>2. Rowed \subseteq {ButtonKey(id)} \cup {JobKey(id)}
    BY <2>1 DEF KeysOf
  <2> HIDE DEF Rowed
  <2>3. IsFiniteSet({ButtonKey(id)}) /\ Cardinality({ButtonKey(id)}) = 1
    BY FS_Singleton
  <2>4. /\ IsFiniteSet({ButtonKey(id)} \cup {JobKey(id)})
        /\ \/ Cardinality({ButtonKey(id)} \cup {JobKey(id)}) = 1
           \/ Cardinality({ButtonKey(id)} \cup {JobKey(id)}) = 2
    BY <2>3, FS_AddElement
  <2>5. PICK both : /\ both = {ButtonKey(id)} \cup {JobKey(id)} /\ IsFiniteSet(both)
                    /\ Cardinality(both) \in {1, 2}
    BY <2>4
  <2>6. /\ Cardinality(Rowed) \in Nat /\ Cardinality(Rowed) <= Cardinality(both)
    BY <2>2, <2>5, FS_Subset, FS_CardinalityType
  <2>7. Cardinality(Rowed) <= 2
    BY <2>5, <2>6
  <2> QED
    BY <2>7 DEF Rowed
<1> QED
  BY <1>1, PipeInvariant, PTL

=============================================================================
