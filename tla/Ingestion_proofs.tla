--------------------------- MODULE Ingestion_proofs ---------------------------
(***************************************************************************)
(* What odds_history is worth, for any pollers, sports and offers; what an *)
(* import of a file leaves, for any files; and what the import jobs do to  *)
(* each other and to their readers, for any workers, requests and sites.   *)
(*                                                                         *)
(* A row of odds is inserted or not by what a transaction finds of its     *)
(* outcome, so the argument is about one commit: where commits come in the *)
(* order of their stamps every row found is older than the rows that are   *)
(* added, and looking back to any earlier time finds what it found before. *)
(*                                                                         *)
(* An import of a file is about one line: the tables say of the rows come  *)
(* to so far what they say of the file in the end, whatever was there      *)
(* before.                                                                 *)
(*                                                                         *)
(* An import job is about one run: all that it holds is of its own         *)
(* arguments and, of weather, of games it has come to in order of time.    *)
(***************************************************************************)
EXTENDS Ingestion, Collections, SequenceTheorems, TLAPS

Places == {"idle", "fetching", "normalized", "finished"}
Commits == [at : Nat, seen : Seq(Offers)]
Works == [at : Places, seen : Seq(Offers), stamp : Nat, outcome : {"success", "failed"}]
Statuses == {"none", "running", "success", "failed"}

PollsTyped ==
  /\ offered \in [Games -> Offers]
  /\ now \in Nat
  /\ poll \in [Pollers -> Works]
  /\ \A p \in Pollers : Len(poll[p].seen) <= Len(Sports) /\ poll[p].stamp <= now
  /\ pollRuns \in [Pollers -> Statuses]

(* What is about to be stored has been stamped, and so has what is.        *)
StampsGiven ==
  /\ \A p \in Pollers : poll[p].at = "normalized" => poll[p].stamp >= 1
  /\ stored \in Seq(Commits)
  /\ \A s \in Polls : s.at \in 1..now /\ Len(s.seen) <= Len(Sports)

(* A run says success once it is over, and it is when its answer is in.    *)
SuccessIsStored ==
  \A p \in Pollers :
    /\ pollRuns[p] = "success" => poll[p].at = "idle" /\ \E s \in Polls : s.at = poll[p].stamp
    /\ poll[p].at = "finished" /\ poll[p].outcome = "success" => \E s \in Polls : s.at = poll[p].stamp

RowsSeen == \A r \in history : \E s \in Polls : r \in SnapshotRows(s.seen, s.at)

Archive == RowsSeen /\ NoRepeatedRow /\ ReplaysEveryPoll

IInv == PollsTyped /\ StampsGiven /\ SuccessIsStored /\ Archive

-----------------------------------------------------------------------------
(* The rows of an answer: one for each outcome of each game.               *)
LEMMA RowsOfAnswer ==
  ASSUME NEW seen \in Seq(Offers), Len(seen) <= Len(Sports), NEW at
  PROVE  /\ \A r \in SnapshotRows(seen, at) :
              /\ r.at = at /\ r.game \in Games /\ r.side \in OutcomeSides
              /\ \E o \in Offers : o.point = r.point /\ o[r.side] = r.price
         /\ \A r, q \in SnapshotRows(seen, at) : SameOutcome(r, q) => r = q
<1> DEFINE RowOf(i, s) == [game |-> Sports[i], side |-> s, point |-> seen[i].point, price |-> seen[i][s], at |-> at]
<1>1. DOMAIN seen = 1..Len(seen) /\ Len(seen) \in Nat /\ \A i \in DOMAIN seen : seen[i] \in Offers
  BY LenProperties, ElementOfSeq
<1>2. DOMAIN seen \subseteq DOMAIN Sports
  BY <1>1, OddsPollAssumption
<1>3. \A r \in SnapshotRows(seen, at) : \E i \in DOMAIN seen, s \in OutcomeSides : r = RowOf(i, s)
  BY DEF SnapshotRows
<1>4. ASSUME NEW r \in SnapshotRows(seen, at)
      PROVE  /\ r.at = at /\ r.game \in Games /\ r.side \in OutcomeSides
             /\ \E o \in Offers : o.point = r.point /\ o[r.side] = r.price
  <2>1. PICK i \in DOMAIN seen, s \in OutcomeSides : r = RowOf(i, s)
    BY <1>3
  <2> QED
    BY <1>1, <1>2, <2>1 DEF Games
<1>5. ASSUME NEW r \in SnapshotRows(seen, at), NEW q \in SnapshotRows(seen, at), SameOutcome(r, q)
      PROVE  r = q
  <2>1. PICK i \in DOMAIN seen, s \in OutcomeSides : r = RowOf(i, s)
    BY <1>3
  <2>2. PICK j \in DOMAIN seen, t \in OutcomeSides : q = RowOf(j, t)
    BY <1>3
  <2>3. Sports[i] = Sports[j] /\ s = t
    BY <1>5, <2>1, <2>2 DEF SameOutcome
  <2>4. i = j
    BY <1>2, <2>3, OddsPollAssumption
  <2> QED
    BY <2>1, <2>2, <2>3, <2>4
<1> QED
  BY <1>4, <1>5

(* The rows of the archive have the stamps and the offers of some poll.    *)
LEMMA RowsTyped ==
  ASSUME PollsTyped, StampsGiven, RowsSeen, NEW r \in history
  PROVE  /\ r.at \in 1..now /\ r.game \in Games /\ r.side \in OutcomeSides
         /\ \E o \in Offers : o.point = r.point /\ o[r.side] = r.price
<1>1. PICK s \in Polls : r \in SnapshotRows(s.seen, s.at)
  BY DEF RowsSeen
<1>2. s.seen \in Seq(Offers) /\ Len(s.seen) <= Len(Sports) /\ s.at \in 1..now
  <2>1. PICK i \in DOMAIN stored : s = stored[i]
    BY <1>1 DEF Polls
  <2>2. stored[i] \in Commits
    BY <2>1, LenProperties, ElementOfSeq DEF StampsGiven
  <2> QED
    BY <1>1, <2>1, <2>2 DEF StampsGiven, Commits
<1> QED
  BY <1>1, <1>2, RowsOfAnswer

(* A commit adds a poll after the others.                                  *)
LEMMA CommitAdds ==
  ASSUME StampsGiven, NEW s \in Commits, stored' = Append(stored, s)
  PROVE  /\ stored' \in Seq(Commits)
         /\ Polls' = Polls \cup {s}
         /\ CommitsInOrder' => CommitsInOrder /\ \A t \in Polls : t.at < s.at
<1>1. /\ stored \in Seq(Commits) /\ Len(stored) \in Nat /\ DOMAIN stored = 1..Len(stored)
      /\ stored' \in Seq(Commits) /\ DOMAIN stored' = 1..(Len(stored) + 1)
      /\ \A i \in DOMAIN stored : stored'[i] = stored[i]
      /\ stored'[Len(stored) + 1] = s
  BY AppendProperties, LenProperties DEF StampsGiven
<1>2. Polls' = Polls \cup {s}
  <2>1. ASSUME NEW x \in Polls' PROVE x \in Polls \cup {s}
    <3>1. PICK i \in DOMAIN stored' : x = stored'[i]
      BY DEF Polls
    <3>2. i \in DOMAIN stored \/ i = Len(stored) + 1
      BY <1>1, <3>1
    <3> QED
      BY <1>1, <3>1, <3>2 DEF Polls
  <2>2. ASSUME NEW x \in Polls PROVE x \in Polls'
    <3>1. PICK i \in DOMAIN stored : x = stored[i]
      BY DEF Polls
    <3>2. i \in DOMAIN stored' /\ x = stored'[i]
      BY <1>1, <3>1
    <3> QED
      BY <3>2 DEF Polls
  <2>3. s \in Polls'
    <3>1. Len(stored) + 1 \in DOMAIN stored'
      BY <1>1
    <3> QED
      BY <1>1, <3>1 DEF Polls
  <2> QED
    BY <2>1, <2>2, <2>3
<1>3. ASSUME CommitsInOrder' PROVE CommitsInOrder /\ \A t \in Polls : t.at < s.at
  <2>1. \A i, j \in DOMAIN stored' : i < j => stored'[i].at < stored'[j].at
    BY <1>3 DEF CommitsInOrder
  <2>2. CommitsInOrder
    BY <1>1, <2>1 DEF CommitsInOrder
  <2>3. ASSUME NEW t \in Polls PROVE t.at < s.at
    <3>1. PICK i \in DOMAIN stored : t = stored[i]
      BY DEF Polls
    <3> QED
      BY <1>1, <2>1, <3>1
  <2> QED
    BY <2>2, <2>3
<1> QED
  BY <1>1, <1>2, <1>3

-----------------------------------------------------------------------------
(* A commit keeps the archive lossless and condensed.                      *)
LEMMA StoreKeepsArchive ==
  ASSUME IInv, NEW p \in Pollers, Store(p)
  PROVE  Archive'
<1> DEFINE seen == poll[p].seen
           at == poll[p].stamp
           rows == SnapshotRows(seen, at)
           commit == [at |-> at, seen |-> seen]
<1>1. seen \in Seq(Offers) /\ Len(seen) <= Len(Sports) /\ at \in Nat /\ commit \in Commits
  BY DEF IInv, PollsTyped, Commits, Works
<1>2. history' = history \cup Fresh(rows) /\ Fresh(rows) \subseteq rows /\ stored' = Append(stored, commit)
  BY DEF Store, Fresh
<1>3. /\ Polls' = Polls \cup {commit}
      /\ CommitsInOrder' => CommitsInOrder /\ \A t \in Polls : t.at < at
  BY <1>1, <1>2, CommitAdds DEF IInv
<1>4. /\ \A r \in rows : r.at = at
      /\ \A r, q \in rows : SameOutcome(r, q) => r = q
  BY <1>1, RowsOfAnswer
<1>5. RowsSeen'
  <2>1. ASSUME NEW r \in history PROVE \E s \in Polls' : r \in SnapshotRows(s.seen, s.at)
    BY <1>3 DEF IInv, Archive, RowsSeen
  <2>2. ASSUME NEW r \in Fresh(rows) PROVE \E s \in Polls' : r \in SnapshotRows(s.seen, s.at)
    <3>1. commit \in Polls' /\ r \in SnapshotRows(commit.seen, commit.at)
      BY <1>2, <1>3
    <3> QED
      BY <3>1
  <2> QED
    BY <1>2, <2>1, <2>2 DEF RowsSeen, SnapshotRows
<1> SUFFICES ASSUME CommitsInOrder' PROVE NoRepeatedRow' /\ ReplaysEveryPoll'
  BY <1>5 DEF Archive, NoRepeatedRow, ReplaysEveryPoll
<1>6. CommitsInOrder /\ \A t \in Polls : t.at < at
  BY <1>3
<1>7. \A r \in history : r.at \in Int /\ r.at < at
  <2>1. ASSUME NEW r \in history PROVE r.at \in Int /\ r.at < at
    <3>1. r.at \in 1..now
      BY RowsTyped DEF IInv, Archive
    <3>2. PICK s \in Polls : r \in SnapshotRows(s.seen, s.at)
      BY DEF IInv, Archive, RowsSeen
    <3>3. r.at = s.at
      BY <3>2 DEF SnapshotRows
    <3> QED
      BY <1>6, <3>1, <3>3
  <2> QED
    BY <2>1
<1> HIDE DEF rows, commit, at, seen
<1>8. ASSUME NEW t \in Int, t < at
      PROVE  /\ {q \in history' : q.at <= t} = {q \in history : q.at <= t}
             /\ {q \in history' : q.at < t} = {q \in history : q.at < t}
  BY <1>1, <1>2, <1>4, <1>7, <1>8
<1>9. {q \in history' : q.at < at} = history /\ {q \in history' : q.at <= at} = history'
  BY <1>1, <1>2, <1>4, <1>7
<1>10. NoRepeatedRow'
  <2>1. ASSUME NEW r \in history PROVE ~Unchanged(r, {q \in history' : q.at < r.at})
    BY <1>6, <1>7, <1>8 DEF IInv, Archive, NoRepeatedRow
  <2>2. ASSUME NEW r \in Fresh(rows) PROVE ~Unchanged(r, {q \in history' : q.at < r.at})
    BY <1>2, <1>4, <1>9 DEF Fresh
  <2> QED
    BY <1>2, <2>1, <2>2 DEF NoRepeatedRow, Unchanged, Newest, Rows, SameOutcome
<1>11. ASSUME NEW r \in rows PROVE Unchanged(r, history')
  <2>1. CASE r \in Fresh(rows)
    <3>1. r \in Newest(Rows(r, history'))
      BY <1>1, <1>2, <1>4, <1>7, <2>1 DEF Newest, Rows, SameOutcome
    <3> QED
      BY <3>1 DEF Unchanged
  <2>2. CASE r \notin Fresh(rows)
    <3>1. Unchanged(r, history)
      BY <1>11, <2>2 DEF Fresh
    <3>2. Rows(r, history') = Rows(r, history)
      BY <1>2, <1>4, <1>11, <2>2 DEF Rows
    <3> QED
      BY <3>1, <3>2 DEF Unchanged
  <2> QED
    BY <2>1, <2>2
<1>12. ReplaysEveryPoll'
  <2>1. ASSUME NEW s \in Polls, NEW r \in SnapshotRows(s.seen, s.at)
        PROVE  Unchanged(r, {q \in history' : q.at <= s.at})
    <3>1. s.at \in Int /\ s.at < at
      BY <1>6 DEF IInv, StampsGiven
    <3> QED
      BY <1>6, <1>8, <3>1 DEF IInv, Archive, ReplaysEveryPoll
  <2>2. ASSUME NEW r \in rows PROVE Unchanged(r, {q \in history' : q.at <= at})
    BY <1>9, <1>11
  <2>3. ASSUME NEW s \in Polls', NEW r \in SnapshotRows(s.seen, s.at)
        PROVE  Unchanged(r, {q \in history' : q.at <= s.at})
    <3>1. CASE s = commit
      BY <2>2, <2>3, <3>1 DEF commit, rows
    <3> QED
      BY <1>3, <2>1, <2>3, <3>1
  <2> QED
    BY <2>3 DEF ReplaysEveryPoll, SnapshotRows, Unchanged, Newest, Rows, SameOutcome
<1> QED
  BY <1>10, <1>12

(* Whatever leaves odds_history and the polls alone keeps the archive.     *)
LEMMA ArchiveStays == ASSUME IInv, UNCHANGED <<history, stored>> PROVE Archive'
  BY DEF IInv, Archive, RowsSeen, NoRepeatedRow, ReplaysEveryPoll, CommitsInOrder, Polls, SnapshotRows,
     Unchanged, Newest, Rows, SameOutcome

-----------------------------------------------------------------------------
(* The initial state satisfies the invariant.                              *)
LEMMA InitInv == Init => IInv
<1> SUFFICES ASSUME Init PROVE IInv
  OBVIOUS
<1>1. <<>> \in Seq(Offers) /\ Len(<<>>) = 0 /\ stored \in Seq(Commits) /\ DOMAIN stored = {}
  BY EmptySeq, LenProperties DEF Init
<1>2. PollsTyped
  BY <1>1, OddsPollAssumption DEF Init, PollsTyped, Idle, Places, Works, Statuses
<1>3. Polls = {} /\ history = {}
  BY <1>1 DEF Polls, Init
<1>4. StampsGiven /\ SuccessIsStored
  BY <1>1, <1>3 DEF Init, Idle, StampsGiven, SuccessIsStored
<1>5. Archive
  BY <1>3 DEF Archive, RowsSeen, NoRepeatedRow, ReplaysEveryPoll
<1> QED
  BY <1>2, <1>4, <1>5 DEF IInv

(* A step of one poller that leaves the archive and the polls alone.       *)
Steps(p, pass, status) ==
  /\ UNCHANGED <<offered, history, stored>>
  /\ poll' = [poll EXCEPT ![p] = pass] /\ pollRuns' = [pollRuns EXCEPT ![p] = status]
  /\ pass \in Works /\ status \in Statuses
  /\ now' \in Nat /\ now' >= now /\ pass.stamp <= now' /\ Len(pass.seen) <= Len(Sports)
  /\ pass.at = "normalized" => pass.stamp >= 1
  /\ status = "success" => pass.at = "idle" /\ \E s \in Polls : s.at = pass.stamp
  /\ pass.at = "finished" /\ pass.outcome = "success" => \E s \in Polls : s.at = pass.stamp

(* A step of one poller that touches no row keeps the invariant.           *)
LEMMA StepOfOne ==
  ASSUME IInv, NEW p \in Pollers, NEW pass, NEW status, Steps(p, pass, status)
  PROVE  IInv'
<1> USE DEF Steps
<1>1. Polls' = Polls
  BY DEF Polls
<1>2. \A q \in Pollers : /\ poll'[q] = IF q = p THEN pass ELSE poll[q]
                         /\ pollRuns'[q] = IF q = p THEN status ELSE pollRuns[q]
  BY DEF IInv, PollsTyped
<1>3. \A q \in Pollers : poll[q].stamp \in Nat /\ Len(poll[q].seen) <= Len(Sports) /\ poll[q].stamp <= now
  BY DEF IInv, PollsTyped, Works
<1>4. now \in Nat
  BY DEF IInv, PollsTyped
<1>5. PollsTyped'
  <2>1. \A q \in Pollers : Len(poll'[q].seen) <= Len(Sports) /\ poll'[q].stamp <= now'
    BY <1>2, <1>3, <1>4
  <2> QED
    BY <2>1 DEF IInv, PollsTyped
<1>6. StampsGiven'
  <2>1. \A s \in Polls : s.at \in 1..now' /\ Len(s.seen) <= Len(Sports)
    BY <1>4 DEF IInv, StampsGiven
  <2> QED
    BY <1>1, <1>2, <2>1 DEF IInv, StampsGiven
<1>7. SuccessIsStored'
  BY <1>1, <1>2 DEF IInv, SuccessIsStored
<1> QED
  BY <1>5, <1>6, <1>7, ArchiveStays DEF IInv

(* Every step keeps the invariant ...                                      *)
LEMMA NextInv == IInv /\ [Next]_vars => IInv'
<1> SUFFICES ASSUME IInv, [Next]_vars PROVE IInv'
  OBVIOUS
<1>t. /\ now \in Nat /\ poll \in [Pollers -> Works]
      /\ \A p \in Pollers : /\ poll[p] \in Works /\ pollRuns[p] \in Statuses
                           /\ poll[p].stamp \in Nat /\ poll[p].seen \in Seq(Offers)
                           /\ Len(poll[p].seen) <= Len(Sports) /\ poll[p].stamp <= now
                           /\ pollRuns = [pollRuns EXCEPT ![p] = pollRuns[p]]
  BY DEF IInv, PollsTyped, Works
<1>s. SuccessIsStored
  BY DEF IInv
<1>1. ASSUME NEW g \in Games, NEW offer \in Offers, BookMoves(g, offer) PROVE IInv'
  <2>1. PollsTyped'
    BY <1>1 DEF BookMoves, IInv, PollsTyped
  <2>2. StampsGiven' /\ SuccessIsStored'
    BY <1>1 DEF BookMoves, IInv, StampsGiven, SuccessIsStored, Polls
  <2> QED
    BY <1>1, <2>1, <2>2, ArchiveStays DEF BookMoves, IInv
<1>2. ASSUME NEW p \in Pollers, StartRun(p) PROVE IInv'
  <2> DEFINE pass == [Idle EXCEPT !.at = "fetching"]
  <2>1. pass \in Works /\ pass.at = "fetching" /\ pass.stamp = 0 /\ Len(pass.seen) = 0
    BY EmptySeq DEF Idle, Places, Works
  <2>2. /\ poll' = [poll EXCEPT ![p] = pass] /\ pollRuns' = [pollRuns EXCEPT ![p] = "running"]
        /\ "running" \in Statuses /\ now' = now /\ UNCHANGED <<offered, history, stored>>
    BY <1>2 DEF StartRun, Statuses
  <2>3. Len(pass.seen) <= Len(Sports)
    BY <2>1, OddsPollAssumption
  <2> HIDE DEF pass
  <2>9. Steps(p, pass, "running")
    BY <1>t, <2>1, <2>2, <2>3 DEF Steps
  <2> QED
    BY <2>9, StepOfOne
<1>3. ASSUME NEW p \in Pollers, FetchSport(p) PROVE IInv'
  <2> DEFINE seen == Append(poll[p].seen, offered[Sports[Len(poll[p].seen) + 1]])
             pass == [poll[p] EXCEPT !.seen = seen]
  <2>1. poll[p].at = "fetching" /\ poll[p].seen \in Seq(Offers) /\ Len(poll[p].seen) \in Nat
        /\ Len(poll[p].seen) < Len(Sports)
    BY <1>t, <1>3, LenProperties DEF FetchSport
  <2>2. offered[Sports[Len(poll[p].seen) + 1]] \in Offers
    <3>1. Len(poll[p].seen) + 1 \in DOMAIN Sports
      BY <2>1, OddsPollAssumption
    <3> QED
      BY <3>1 DEF Games, IInv, PollsTyped
  <2>3. seen \in Seq(Offers) /\ Len(seen) <= Len(Sports)
    BY <2>1, <2>2, AppendProperties, OddsPollAssumption
  <2> HIDE DEF seen
  <2>4. pass \in Works /\ pass.at = "fetching" /\ pass.stamp = poll[p].stamp /\ pass.seen = seen
    BY <1>t, <2>1, <2>3 DEF Works
  <2>5. /\ poll' = [poll EXCEPT ![p] = pass] /\ pollRuns' = [pollRuns EXCEPT ![p] = pollRuns[p]]
        /\ now' = now /\ UNCHANGED <<offered, history, stored>>
    BY <1>t, <1>3 DEF FetchSport, seen
  <2>6. pollRuns[p] # "success"
    BY <1>s, <2>1 DEF SuccessIsStored
  <2> HIDE DEF pass
  <2>9. Steps(p, pass, pollRuns[p])
    BY <1>t, <2>3, <2>4, <2>5, <2>6 DEF Steps
  <2> QED
    BY <2>9, StepOfOne
<1>4. ASSUME NEW p \in Pollers, FetchFails(p) \/ StoreFails(p) PROVE IInv'
  <2> DEFINE pass == [poll[p] EXCEPT !.at = "finished", !.outcome = "failed"]
  <2>1. pass \in Works /\ pass.at = "finished" /\ pass.outcome = "failed" /\ pass.stamp = poll[p].stamp
        /\ pass.seen = poll[p].seen
    BY <1>t DEF Places, Works
  <2>2. /\ poll' = [poll EXCEPT ![p] = pass] /\ pollRuns' = [pollRuns EXCEPT ![p] = pollRuns[p]]
        /\ now' = now /\ UNCHANGED <<offered, history, stored>>
    BY <1>t, <1>4 DEF FetchFails, StoreFails
  <2>3. pollRuns[p] # "success"
    BY <1>s, <1>4 DEF SuccessIsStored, FetchFails, StoreFails
  <2> HIDE DEF pass
  <2>9. Steps(p, pass, pollRuns[p])
    BY <1>t, <2>1, <2>2, <2>3 DEF Steps
  <2> QED
    BY <2>9, StepOfOne
<1>5. ASSUME NEW p \in Pollers, Normalize(p) PROVE IInv'
  <2> DEFINE pass == [poll[p] EXCEPT !.at = "normalized", !.stamp = now + 1]
  <2>0. now + 1 \in Nat /\ now + 1 >= 1 /\ now + 1 >= now
    BY <1>t
  <2>1. pass \in Works /\ pass.at = "normalized" /\ pass.stamp = now + 1 /\ pass.seen = poll[p].seen
    BY <1>t, <2>0 DEF Places, Works
  <2>2. /\ poll' = [poll EXCEPT ![p] = pass] /\ pollRuns' = [pollRuns EXCEPT ![p] = pollRuns[p]]
        /\ now' = now + 1 /\ UNCHANGED <<offered, history, stored>>
    BY <1>t, <1>5 DEF Normalize
  <2>3. pollRuns[p] # "success"
    BY <1>s, <1>5 DEF SuccessIsStored, Normalize
  <2> HIDE DEF pass
  <2>9. Steps(p, pass, pollRuns[p])
    BY <1>t, <2>0, <2>1, <2>2, <2>3 DEF Steps
  <2> QED
    BY <2>9, StepOfOne
<1>6. ASSUME NEW p \in Pollers, Store(p) PROVE IInv'
  <2> DEFINE commit == [at |-> poll[p].stamp, seen |-> poll[p].seen]
  <2>1. /\ poll[p].at = "normalized" /\ stored' = Append(stored, commit)
        /\ offered' = offered /\ pollRuns' = pollRuns /\ now' = now
    BY <1>6 DEF Store
  <2>2. PICK outcome \in {"success", "failed"} :
          poll' = [poll EXCEPT ![p] = [poll[p] EXCEPT !.at = "finished", !.outcome = outcome]]
    BY <1>6 DEF Store
  <2>3. commit \in Commits /\ commit.at \in 1..now /\ Len(commit.seen) <= Len(Sports) /\ commit.at = poll[p].stamp
    BY <1>t, <2>1 DEF IInv, StampsGiven, Commits, Works
  <2> HIDE DEF commit
  <2>4. stored' \in Seq(Commits) /\ Polls' = Polls \cup {commit}
    BY <2>1, <2>3, CommitAdds DEF IInv
  <2>5. \A q \in Pollers : /\ poll'[q].stamp = poll[q].stamp /\ poll'[q].seen = poll[q].seen
                           /\ q # p => poll'[q] = poll[q]
                           /\ q = p => poll'[q].at = "finished"
    BY <1>t, <2>2 DEF Works
  <2>6. PollsTyped'
    <3>1. poll' \in [Pollers -> Works]
      BY <1>t, <2>2 DEF Places, Works
    <3> QED
      BY <1>t, <2>1, <2>5, <3>1 DEF IInv, PollsTyped
  <2>7. StampsGiven'
    BY <2>1, <2>3, <2>4, <2>5 DEF IInv, StampsGiven
  <2>8. SuccessIsStored'
    <3>1. pollRuns[p] # "success"
      BY <1>s, <2>1 DEF SuccessIsStored
    <3>2. \E s \in Polls' : s.at = poll'[p].stamp
      BY <2>3, <2>4, <2>5
    <3>3. \A q \in Pollers : (\E s \in Polls : s.at = poll[q].stamp) => \E s \in Polls' : s.at = poll'[q].stamp
      BY <2>4, <2>5
    <3> QED
      BY <1>s, <2>1, <2>5, <3>1, <3>2, <3>3 DEF SuccessIsStored
  <2> QED
    BY <1>6, <2>6, <2>7, <2>8, StoreKeepsArchive DEF IInv
<1>7. ASSUME NEW p \in Pollers, CompletePollRun(p) \/ Interrupt(p) PROVE IInv'
  <2> DEFINE pass == [poll[p] EXCEPT !.at = "idle"]
             status == IF CompletePollRun(p) THEN poll[p].outcome ELSE pollRuns[p]
  <2>1. pass \in Works /\ pass.at = "idle" /\ pass.stamp = poll[p].stamp /\ pass.seen = poll[p].seen
    BY <1>t DEF Places, Works
  <2>2. /\ poll' = [poll EXCEPT ![p] = pass] /\ pollRuns' = [pollRuns EXCEPT ![p] = status]
        /\ now' = now /\ UNCHANGED <<offered, history, stored>>
    BY <1>t, <1>7 DEF CompletePollRun, Interrupt
  <2>3. status \in Statuses
    BY <1>t DEF Works, Statuses
  <2>4. status = "success" => \E s \in Polls : s.at = pass.stamp
    BY <1>s, <1>7, <2>1 DEF SuccessIsStored, CompletePollRun, Interrupt
  <2> HIDE DEF pass, status
  <2>9. Steps(p, pass, status)
    BY <1>t, <2>1, <2>2, <2>3, <2>4 DEF Steps
  <2> QED
    BY <2>9, StepOfOne
<1>8. CASE UNCHANGED vars
  <2>1. PollsTyped'
    BY <1>8 DEF vars, IInv, PollsTyped
  <2>2. StampsGiven' /\ SuccessIsStored'
    BY <1>8 DEF vars, IInv, StampsGiven, SuccessIsStored, Polls
  <2> QED
    BY <1>8, <2>1, <2>2, ArchiveStays DEF vars, IInv
<1> QED
  BY <1>1, <1>2, <1>3, <1>4, <1>5, <1>6, <1>7, <1>8 DEF Next, PollStep

(* ... which therefore always holds.                                       *)
LEMMA Invariance == Spec => []IInv
  BY InitInv, NextInv, PTL DEF Spec

-----------------------------------------------------------------------------
(* Every variable of OddsPoll keeps its type.                              *)
THEOREM TypeCorrect == Spec => []OddsTypeOK
<1>1. IInv => OddsTypeOK
  <2> SUFFICES ASSUME IInv PROVE OddsTypeOK
    OBVIOUS
  <2>1. \A r \in history : /\ r.at \in 1..now /\ r.game \in Games /\ r.side \in OutcomeSides
                          /\ \E o \in Offers : o.point = r.point /\ o[r.side] = r.price
    BY RowsTyped DEF IInv, Archive
  <2>2. ASSUME NEW p \in Pollers
        PROVE  /\ poll[p].at \in Places /\ poll[p].outcome \in {"success", "failed"}
               /\ poll[p].seen \in UNION {[1..n -> Offers] : n \in 0..Len(Sports)}
               /\ poll[p].stamp \in 0..now
    <3>1. poll[p].seen \in Seq(Offers) /\ Len(poll[p].seen) <= Len(Sports) /\ Len(Sports) \in Nat
      BY OddsPollAssumption DEF IInv, PollsTyped, Works
    <3>2. PICK n \in 0..Len(Sports) : poll[p].seen \in [1..n -> Offers]
      <4>1. poll[p].seen \in [1..Len(poll[p].seen) -> Offers] /\ Len(poll[p].seen) \in Nat
        BY <3>1, LenProperties
      <4>2. Len(poll[p].seen) \in 0..Len(Sports)
        BY <3>1, <4>1
      <4> QED
        BY <4>1, <4>2
    <3>3. poll[p].seen \in UNION {[1..m -> Offers] : m \in 0..Len(Sports)}
      BY <3>2
    <3>4. poll[p].at \in Places /\ poll[p].outcome \in {"success", "failed"}
      BY DEF IInv, PollsTyped, Works
    <3>5. poll[p].stamp \in 0..now
      BY DEF IInv, PollsTyped, Works
    <3> QED
      BY <3>3, <3>4, <3>5
  <2> QED
    BY <2>1, <2>2 DEF IInv, PollsTyped, OddsTypeOK, Places, Statuses
<1> QED
  BY <1>1, Invariance, PTL

(* The archive is lossless for any number of pollers that commit in the    *)
(* order of their stamps, whatever fails or is interrupted between.        *)
THEOREM Lossless == Spec => []ReplaysEveryPoll
<1>1. IInv => ReplaysEveryPoll
  BY DEF IInv, Archive
<1> QED
  BY <1>1, Invariance, PTL

(* It is condensed: deduplication lets no price be repeated.               *)
THEOREM Condensed == Spec => []NoRepeatedRow
<1>1. IInv => NoRepeatedRow
  BY DEF IInv, Archive
<1> QED
  BY <1>1, Invariance, PTL

(* The latest odds are what the latest poll saw.                           *)
THEOREM Current == Spec => []LatestIsNewest
<1>1. IInv => LatestIsNewest
  <2> SUFFICES ASSUME IInv, CommitsInOrder,
                      NEW s \in LatestPolls, NEW r \in SnapshotRows(s.seen, s.at)
               PROVE  Unchanged(r, history)
    BY DEF LatestIsNewest
  <2>1. s \in Polls /\ \A other \in Polls : other.at <= s.at
    BY DEF LatestPolls
  <2>2. \A q \in history : \E other \in Polls : q.at = other.at
    BY DEF IInv, Archive, RowsSeen, SnapshotRows
  <2>3. {q \in history : q.at <= s.at} = history
    BY <2>1, <2>2
  <2>4. Unchanged(r, {q \in history : q.at <= s.at})
    BY <2>1 DEF IInv, Archive, ReplaysEveryPoll
  <2> QED
    BY <2>3, <2>4
<1> QED
  BY <1>1, Invariance, PTL

(* In short: the archive is exact.                                         *)
THEOREM ExactArchive == Spec => []ArchiveIsExact
  BY Lossless, Condensed, Current, PTL DEF ArchiveIsExact

(* Nothing is made up: a row was seen by a committed poll, and a run that  *)
(* says success has committed its answer, in whatever order they commit.   *)
THEOREM Truthful == Spec => []RowsWereSeen
<1>1. IInv => RowsWereSeen
  BY DEF IInv, SuccessIsStored, Archive, RowsSeen, RowsWereSeen
<1> QED
  BY <1>1, Invariance, PTL

-----------------------------------------------------------------------------
(* Files.  A process knows its file by the kind and the version.           *)
Kinds == StatKinds \cup OddsKinds
Csv(kind, imp) == CsvFiles[kind][imp.version]
LineAt(kind, imp, i) == Csv(kind, imp).lines[i]
Length(kind, imp) == Len(Csv(kind, imp).lines)
Says(kind, imp, i) == Read(kind, imp.filter, Csv(kind, imp), LineAt(kind, imp, i))
RowsTo(kind, imp, end) == RowsBefore(kind, imp.filter, Csv(kind, imp), end)
HasQuotes(kind, imp) == kind \in OddsKinds /\ (kind = "odds" \/ Csv(kind, imp).priced)
QuotesAt(kind, imp, i) == BuildOddsSnapshots(kind, LineAt(kind, imp, i))
Quotations(kind) ==
  UNION {UNION {{BuildOddsSnapshots(kind, CsvFiles[kind][version].lines[i])[n] : n \in 1..6} :
                  i \in DOMAIN CsvFiles[kind][version].lines} : version \in DOMAIN CsvFiles[kind]}

Ats == {"none", "reading", "quoting", "bad", "done", "failed", "killed"}

IsImport(kind, imp) ==
  imp \in [at : Ats, version : DOMAIN CsvFiles[kind], filter : Filters \cup {0},
           line : Nat \ {0}, count : Nat, quotes : Seq(Quotations(kind))]

(* What a process knows of its file: it has come past no bad line, it has  *)
(* counted the rows, and it stops where the file ends or goes bad.         *)
HasRead(kind, imp) ==
  /\ imp.line <= Length(kind, imp) + 1
  /\ \A i \in 1..imp.line - 1 : Says(kind, imp, i) # "bad"
  /\ imp.count = Cardinality(RowsTo(kind, imp, imp.line))
  /\ ~Csv(kind, imp).columns => imp.line = 1 /\ imp.at \in {"none", "bad"}
  /\ imp.at = "done" => imp.line = Length(kind, imp) + 1
  /\ (imp.at = "bad" /\ Csv(kind, imp).columns) =>
       imp.line <= Length(kind, imp) /\ Says(kind, imp, imp.line) = "bad"

(* The quotes at hand are the last of those of the row being imported.     *)
HoldsQuotes(kind, imp) ==
  IF imp.at = "quoting"
  THEN /\ imp.line <= Length(kind, imp) /\ Says(kind, imp, imp.line) = "row" /\ HasQuotes(kind, imp)
       /\ \E n \in 1..6 : imp.quotes = SubSeq(QuotesAt(kind, imp, imp.line), n, 6)
  ELSE imp.quotes = <<>>

-----------------------------------------------------------------------------
(* Rows are counted one by one. *)
LEMMA RowsCount ==
  ASSUME NEW kind, NEW imp, NEW end \in Nat \ {0}
  PROVE  /\ RowsTo(kind, imp, end) \subseteq 1..end - 1
         /\ IsFiniteSet(RowsTo(kind, imp, end))
         /\ Cardinality(RowsTo(kind, imp, end)) \in 0..end - 1
         /\ RowsTo(kind, imp, end + 1) =
              RowsTo(kind, imp, end) \cup (IF Says(kind, imp, end) = "row" THEN {end} ELSE {})
         /\ Says(kind, imp, end) = "row" =>
              Cardinality(RowsTo(kind, imp, end + 1)) = Cardinality(RowsTo(kind, imp, end)) + 1
<1>1. RowsTo(kind, imp, end) \subseteq 1..end - 1 /\ end \notin RowsTo(kind, imp, end)
  BY DEF RowsTo, RowsBefore
<1>2. IsFiniteSet(1..end - 1) /\ Cardinality(1..end - 1) = end - 1
  BY FS_Interval
<1>3. /\ IsFiniteSet(RowsTo(kind, imp, end))
      /\ Cardinality(RowsTo(kind, imp, end)) \in Nat
      /\ Cardinality(RowsTo(kind, imp, end)) <= end - 1
  BY <1>1, <1>2, FS_Subset, FS_CardinalityType
<1>4. RowsTo(kind, imp, end + 1) =
        RowsTo(kind, imp, end) \cup (IF Says(kind, imp, end) = "row" THEN {end} ELSE {})
  BY DEF RowsTo, RowsBefore, Says, LineAt
<1> QED
  BY <1>1, <1>3, <1>4, FS_AddElement

(* Rows of an odds file are six quotes, of one game, each of a slot of its *)
(* own.                                                                    *)
SameSlot(a, b) == a.game = b.game /\ a.market = b.market /\ a.side = b.side

(* Six in a tuple are a sequence of six. *)
LEMMA SixInARow ==
  ASSUME NEW S, NEW q, q = <<q[1], q[2], q[3], q[4], q[5], q[6]>>, \A n \in 1..6 : q[n] \in S
  PROVE  q \in Seq(S) /\ Len(q) = 6
<1> DEFINE s == <<q[1], q[2], q[3], q[4], q[5], q[6]>>
<1>1. q[1] \in S /\ q[2] \in S /\ q[3] \in S /\ q[4] \in S /\ q[5] \in S /\ q[6] \in S
  OBVIOUS
<1>2. \A a, b, c, d, e, f \in S : <<a, b, c, d, e, f>> \in Seq(S) /\ Len(<<a, b, c, d, e, f>>) = 6
  OBVIOUS
<1>3. s \in Seq(S) /\ Len(s) = 6
  BY <1>1, <1>2
<1> QED
  BY <1>3

(* Six quotes, of one game, on six slots. *)
LEMMA SixQuotes ==
  ASSUME NEW kind \in Kinds, NEW imp, imp.version \in DOMAIN CsvFiles[kind],
         NEW i \in 1..Length(kind, imp)
  PROVE  /\ QuotesAt(kind, imp, i) \in Seq(Quotations(kind))
         /\ Len(QuotesAt(kind, imp, i)) = 6
         /\ \A n \in 1..6 : QuotesAt(kind, imp, i)[n].game = GameOf(LineAt(kind, imp, i))
         /\ \A m, n \in 1..6 : SameSlot(QuotesAt(kind, imp, i)[m], QuotesAt(kind, imp, i)[n]) => m = n
<1>1. Csv(kind, imp).lines \in Seq({Csv(kind, imp).lines[j] : j \in DOMAIN Csv(kind, imp).lines})
  BY FilesAssumption DEF Kinds, Csv
<1>2. i \in DOMAIN Csv(kind, imp).lines
  BY <1>1, LenProperties DEF Length
<1>3. \A n \in 1..6 : QuotesAt(kind, imp, i)[n] \in Quotations(kind)
  BY <1>2 DEF QuotesAt, Quotations, LineAt, Csv
<1> DEFINE q == QuotesAt(kind, imp, i)
           g == GameOf(LineAt(kind, imp, i))
<1>4. /\ q = <<q[1], q[2], q[3], q[4], q[5], q[6]>>
      /\ \A n \in 1..6 : q[n].game = g
      /\ q[1].market = "h2h" /\ q[2].market = "h2h" /\ q[3].market = "spreads"
      /\ q[4].market = "spreads" /\ q[5].market = "totals" /\ q[6].market = "totals"
      /\ q[1].side = "home" /\ q[2].side = "away" /\ q[3].side = "home"
      /\ q[4].side = "away" /\ q[5].side = "over" /\ q[6].side = "under"
  <2> HIDE DEF g
  <2>1. \A line : /\ BuildOddsSnapshots(kind, line) =
                       <<BuildOddsSnapshots(kind, line)[1], BuildOddsSnapshots(kind, line)[2],
                         BuildOddsSnapshots(kind, line)[3], BuildOddsSnapshots(kind, line)[4],
                         BuildOddsSnapshots(kind, line)[5], BuildOddsSnapshots(kind, line)[6]>>
    BY DEF BuildOddsSnapshots
  <2>2. \A line : \A n \in 1..6 : BuildOddsSnapshots(kind, line)[n].game = GameOf(line)
    BY DEF BuildOddsSnapshots
  <2>3. \A line :
          LET quotes == BuildOddsSnapshots(kind, line)
          IN  /\ quotes[1].market = "h2h" /\ quotes[2].market = "h2h" /\ quotes[3].market = "spreads"
              /\ quotes[4].market = "spreads" /\ quotes[5].market = "totals" /\ quotes[6].market = "totals"
              /\ quotes[1].side = "home" /\ quotes[2].side = "away" /\ quotes[3].side = "home"
              /\ quotes[4].side = "away" /\ quotes[5].side = "over" /\ quotes[6].side = "under"
    BY DEF BuildOddsSnapshots
  <2>4. q = BuildOddsSnapshots(kind, LineAt(kind, imp, i))
    BY DEF QuotesAt
  <2> DEFINE line == LineAt(kind, imp, i)
  <2> HIDE DEF q, line
  <2> QED
    BY <2>1, <2>2, <2>3, <2>4 DEF g, line
<1>5. q \in Seq(Quotations(kind)) /\ Len(q) = 6
  <2> HIDE DEF q
  <2> QED
    BY <1>3, <1>4, SixInARow DEF q
<1> QED
  BY <1>4, <1>5 DEF SameSlot

(* A process at its start, before and after it has been begun.             *)
LEMMA StartsWell ==
  ASSUME NEW kind \in Kinds, NEW imp, IsImport(kind, imp), imp.line = 1, imp.count = 0, imp.quotes = <<>>,
         \/ imp.at = "none"
         \/ imp.at = IF Csv(kind, imp).columns THEN "reading" ELSE "bad"
  PROVE  HasRead(kind, imp) /\ HoldsQuotes(kind, imp)
<1>1. Csv(kind, imp).lines \in Seq({Csv(kind, imp).lines[j] : j \in DOMAIN Csv(kind, imp).lines})
  BY FilesAssumption DEF Kinds, Csv, IsImport
<1>2. Length(kind, imp) \in Nat
  BY <1>1, LenProperties DEF Length
<1>3. RowsTo(kind, imp, 1) = {}
  BY RowsCount
<1>4. Csv(kind, imp).columns \in BOOLEAN
  BY FilesAssumption DEF Kinds, Csv, IsImport
<1>5. imp.count = Cardinality(RowsTo(kind, imp, imp.line))
  BY <1>3, FS_EmptySet
<1>6. imp.at # "quoting" /\ imp.at # "done" /\ ~(imp.at = "bad" /\ Csv(kind, imp).columns)
  BY <1>4
<1> QED
  BY <1>2, <1>4, <1>5, <1>6 DEF HasRead, HoldsQuotes

-----------------------------------------------------------------------------
(* The steps of a process, and what they do to its knowledge of the file.  *)
KnowsFile(kind, imp) == IsImport(kind, imp) /\ HasRead(kind, imp) /\ HoldsQuotes(kind, imp)
PastLine(imp) == [imp EXCEPT !.line = @ + 1]
PastRow(imp) == [imp EXCEPT !.at = "reading", !.line = @ + 1, !.count = @ + 1, !.quotes = <<>>]
Ended(imp, at) == [imp EXCEPT !.at = at]
Broken(imp, at) == [imp EXCEPT !.at = at, !.quotes = <<>>]
Quoting(imp, quotes) == [imp EXCEPT !.at = "quoting", !.quotes = quotes]
PastQuote(imp) == [imp EXCEPT !.quotes = Tail(@)]

OnLine(kind, imp, verdict) ==
  imp.line <= Length(kind, imp) /\ Says(kind, imp, imp.line) = verdict

(* A file has so many lines. *)
LEMMA LengthIsNat ==
  ASSUME NEW kind \in Kinds, NEW imp, imp.version \in DOMAIN CsvFiles[kind]
  PROVE  Length(kind, imp) \in Nat
<1>1. Csv(kind, imp).lines \in Seq({Csv(kind, imp).lines[j] : j \in DOMAIN Csv(kind, imp).lines})
  BY FilesAssumption DEF Kinds, Csv
<1> QED
  BY <1>1, LenProperties DEF Length

(* The quote at hand is one of the six, and the rest are those after it.   *)
LEMMA QuoteAtHand ==
  ASSUME NEW kind \in Kinds, NEW imp, KnowsFile(kind, imp), imp.at = "quoting"
  PROVE  \E n \in 1..6 : /\ imp.quotes = SubSeq(QuotesAt(kind, imp, imp.line), n, 6)
                         /\ Len(imp.quotes) = 7 - n
                         /\ Head(imp.quotes) = QuotesAt(kind, imp, imp.line)[n]
                         /\ Head(imp.quotes) \in Quotations(kind)
                         /\ imp.quotes # <<>>
                         /\ Len(imp.quotes) # 1 =>
                              n + 1 \in 1..6 /\ Tail(imp.quotes) = SubSeq(QuotesAt(kind, imp, imp.line), n + 1, 6)
<1> DEFINE q == QuotesAt(kind, imp, imp.line)
<1>1. PICK n \in 1..6 : imp.quotes = SubSeq(q, n, 6)
  BY DEF KnowsFile, HoldsQuotes
<1>2. imp.version \in DOMAIN CsvFiles[kind] /\ imp.line \in 1..Length(kind, imp)
  <2>1. imp.line \in Nat \ {0} /\ imp.version \in DOMAIN CsvFiles[kind] /\ imp.line <= Length(kind, imp)
    BY DEF KnowsFile, IsImport, HoldsQuotes
  <2> QED
    BY <2>1, LengthIsNat
<1>3. q \in Seq(Quotations(kind)) /\ Len(q) = 6
  BY <1>2, SixQuotes
<1> HIDE DEF q
<1>4. \A m \in 1..6 : q[m] \in Quotations(kind)
  BY <1>3, ElementOfSeq
<1>5. Len(SubSeq(q, n, 6)) = 7 - n
  BY <1>4, SubSeqProperties
<1>6. Head(SubSeq(q, n, 6)) = q[n] /\ Tail(SubSeq(q, n, 6)) = SubSeq(q, n + 1, 6)
  BY <1>3, HeadTailOfSubSeq
<1>7. imp.quotes # <<>>
  <2>1. Len(<<>>) = 0
    OBVIOUS
  <2>2. Len(SubSeq(q, n, 6)) # 0
    BY <1>5
  <2> QED
    BY <1>1, <2>1, <2>2, Zenon
<1>8. 7 - n # 1 => n + 1 \in 1..6
  OBVIOUS
<1>9. Len(imp.quotes) = 7 - n
  BY <1>1, <1>5, Zenon
<1> QED
  BY <1>1, <1>4, <1>6, <1>7, <1>8, <1>9 DEF q

(* Past a line that is skipped it knows what it knew. *)
LEMMA SkipKnows ==
  ASSUME NEW kind \in Kinds, NEW imp, KnowsFile(kind, imp), imp.at = "reading",
         OnLine(kind, imp, "skip"), NEW next, next = PastLine(imp)
  PROVE  KnowsFile(kind, next)
<1>1. /\ IsImport(kind, imp) /\ imp.line \in Nat \ {0} /\ Length(kind, imp) \in Nat
      /\ imp.line <= Length(kind, imp)
  BY LengthIsNat DEF KnowsFile, IsImport, OnLine
<1>2. IsImport(kind, next)
  BY <1>1 DEF IsImport, PastLine
<1>3. /\ next.at = "reading" /\ next.line = imp.line + 1 /\ next.count = imp.count /\ next.quotes = imp.quotes
      /\ next.version = imp.version /\ next.filter = imp.filter
  BY <1>1 DEF IsImport, PastLine
<1>4. /\ Csv(kind, next) = Csv(kind, imp) /\ Length(kind, next) = Length(kind, imp)
      /\ \A i : Says(kind, next, i) = Says(kind, imp, i)
      /\ \A i : RowsTo(kind, next, i) = RowsTo(kind, imp, i)
  BY <1>3 DEF Csv, Length, Says, LineAt, RowsTo
<1>5. RowsTo(kind, imp, imp.line + 1) = RowsTo(kind, imp, imp.line)
  <2>1. Says(kind, imp, imp.line) # "row"
    BY DEF OnLine
  <2>2. imp.line \in Nat \ {0}
    BY <1>1
  <2>3. RowsTo(kind, imp, imp.line + 1) =
          RowsTo(kind, imp, imp.line) \cup (IF Says(kind, imp, imp.line) = "row" THEN {imp.line} ELSE {})
    BY <2>2, RowsCount
  <2> QED
    BY <2>1, <2>3
<1>6. HasRead(kind, next)
  BY <1>1, <1>3, <1>4, <1>5 DEF KnowsFile, HasRead, OnLine
<1> QED
  BY <1>2, <1>3, <1>6 DEF KnowsFile, HoldsQuotes

(* Past a row it has counted one more. *)
LEMMA RowKnows ==
  ASSUME NEW kind \in Kinds, NEW imp, KnowsFile(kind, imp), imp.at \in {"reading", "quoting"},
         OnLine(kind, imp, "row"), NEW next, next = PastRow(imp)
  PROVE  KnowsFile(kind, next)
<1>1. /\ IsImport(kind, imp) /\ imp.line \in Nat \ {0} /\ Length(kind, imp) \in Nat
      /\ imp.line <= Length(kind, imp) /\ imp.count \in Nat
  BY LengthIsNat DEF KnowsFile, IsImport, OnLine
<1>2. IsImport(kind, next)
  <2>1. <<>> \in Seq(Quotations(kind))
    BY EmptySeq
  <2>2. imp.line + 1 \in Nat \ {0} /\ imp.count + 1 \in Nat /\ "reading" \in Ats
    BY <1>1 DEF Ats
  <2>3. IsImport(kind, imp)
    BY <1>1
  <2> QED
    BY <2>1, <2>2, <2>3 DEF IsImport, PastRow
<1>3. /\ next.at = "reading" /\ next.line = imp.line + 1 /\ next.count = imp.count + 1 /\ next.quotes = <<>>
      /\ next.version = imp.version /\ next.filter = imp.filter
  BY <1>1 DEF IsImport, PastRow
<1>4. /\ Csv(kind, next) = Csv(kind, imp) /\ Length(kind, next) = Length(kind, imp)
      /\ \A i : Says(kind, next, i) = Says(kind, imp, i)
      /\ \A i : RowsTo(kind, next, i) = RowsTo(kind, imp, i)
  BY <1>3 DEF Csv, Length, Says, LineAt, RowsTo
<1>5. Cardinality(RowsTo(kind, imp, imp.line + 1)) = Cardinality(RowsTo(kind, imp, imp.line)) + 1
  BY <1>1, RowsCount DEF OnLine
<1>6. HasRead(kind, next)
  BY <1>1, <1>3, <1>4, <1>5 DEF KnowsFile, HasRead, OnLine
<1> QED
  BY <1>2, <1>3, <1>6 DEF KnowsFile, HoldsQuotes

(* Where it stops it knows why: the file is bad, or over, or it was broken off. *)
LEMMA StopKnows ==
  ASSUME NEW kind \in Kinds, NEW imp, KnowsFile(kind, imp), NEW next,
         \/ imp.at = "reading" /\ OnLine(kind, imp, "bad") /\ next = Ended(imp, "bad")
         \/ imp.at = "reading" /\ imp.line > Length(kind, imp) /\ next = Ended(imp, "done")
         \/ imp.at \in {"reading", "quoting"} /\ next = Broken(imp, "failed")
         \/ imp.at \in {"reading", "quoting"} /\ next = Broken(imp, "killed")
  PROVE  KnowsFile(kind, next)
<1>1. /\ IsImport(kind, imp) /\ imp.line \in Nat \ {0} /\ Length(kind, imp) \in Nat
      /\ imp.line <= Length(kind, imp) + 1
  BY LengthIsNat DEF KnowsFile, IsImport, HasRead
<1>2. IsImport(kind, next)
  <2>1. <<>> \in Seq(Quotations(kind))
    BY EmptySeq
  <2> QED
    BY <1>1, <2>1 DEF IsImport, Ats, Ended, Broken
<1>3. /\ next.line = imp.line /\ next.count = imp.count
      /\ next.version = imp.version /\ next.filter = imp.filter
      /\ next.quotes = <<>>
      /\ \/ next.at = "bad" /\ OnLine(kind, imp, "bad")
         \/ next.at = "done" /\ imp.line > Length(kind, imp)
         \/ next.at \in {"failed", "killed"}
  BY <1>1 DEF IsImport, KnowsFile, HoldsQuotes, Ended, Broken
<1>4. /\ Csv(kind, next) = Csv(kind, imp) /\ Length(kind, next) = Length(kind, imp)
      /\ \A i : Says(kind, next, i) = Says(kind, imp, i)
      /\ \A i : RowsTo(kind, next, i) = RowsTo(kind, imp, i)
  BY <1>3 DEF Csv, Length, Says, LineAt, RowsTo
<1>5. Csv(kind, imp).columns
  BY DEF KnowsFile, HasRead
<1>6. HasRead(kind, next)
  BY <1>1, <1>3, <1>4, <1>5 DEF KnowsFile, HasRead, OnLine
<1> QED
  BY <1>2, <1>3, <1>6 DEF KnowsFile, HoldsQuotes

(* With a row at hand, and past a quote of it, the quotes left are the last of six. *)
LEMMA QuotingKnows ==
  ASSUME NEW kind \in Kinds, NEW imp, KnowsFile(kind, imp), NEW next,
         \/ /\ imp.at = "reading" /\ OnLine(kind, imp, "row") /\ HasQuotes(kind, imp)
            /\ next = Quoting(imp, QuotesAt(kind, imp, imp.line))
         \/ /\ imp.at = "quoting" /\ Len(imp.quotes) # 1
            /\ next = PastQuote(imp)
  PROVE  KnowsFile(kind, next)
<1>1. /\ IsImport(kind, imp) /\ imp.line \in Nat \ {0} /\ Length(kind, imp) \in Nat
      /\ OnLine(kind, imp, "row") /\ HasQuotes(kind, imp) /\ imp.version \in DOMAIN CsvFiles[kind]
  BY LengthIsNat DEF KnowsFile, IsImport, OnLine, HoldsQuotes
<1> DEFINE q == QuotesAt(kind, imp, imp.line)
<1>2. q \in Seq(Quotations(kind)) /\ Len(q) = 6
  BY <1>1, SixQuotes DEF OnLine
<1>3. /\ next.at = "quoting" /\ next.line = imp.line /\ next.count = imp.count
      /\ next.version = imp.version /\ next.filter = imp.filter
  BY <1>1 DEF IsImport, Quoting, PastQuote
<1> HIDE DEF q
<1>4. \E n \in 1..6 : next.quotes = SubSeq(q, n, 6)
  <2>1. CASE imp.at = "reading"
    <3>1. next.quotes = q
      BY <2>1, <1>1 DEF IsImport, q, Quoting
    <3>2. q = SubSeq(q, 1, 6)
      BY <1>2, SubSeqFull
    <3> QED
      BY <3>1, <3>2
  <2>2. CASE imp.at = "quoting"
    <3>1. next.quotes = Tail(imp.quotes) /\ Len(imp.quotes) # 1
      BY <2>2, <1>1 DEF IsImport, PastQuote
    <3>2. \E n \in 1..6 : n + 1 \in 1..6 /\ Tail(imp.quotes) = SubSeq(q, n + 1, 6)
      BY <2>2, <3>1, QuoteAtHand DEF q
    <3> QED
      BY <3>1, <3>2
  <2> QED
    BY <2>1, <2>2
<1>5. next.quotes \in Seq(Quotations(kind))
  <2>1. \A m \in 1..6 : q[m] \in Quotations(kind)
    BY <1>2, ElementOfSeq
  <2> QED
    BY <1>4, <2>1, SubSeqProperties
<1>6. IsImport(kind, next)
  BY <1>1, <1>3, <1>5 DEF IsImport, Ats, Quoting, PastQuote
<1>7. /\ Csv(kind, next) = Csv(kind, imp) /\ Length(kind, next) = Length(kind, imp)
      /\ \A i : Says(kind, next, i) = Says(kind, imp, i)
      /\ \A i : RowsTo(kind, next, i) = RowsTo(kind, imp, i)
      /\ \A i : QuotesAt(kind, next, i) = QuotesAt(kind, imp, i)
      /\ HasQuotes(kind, next)
  BY <1>1, <1>3 DEF Csv, Length, Says, LineAt, RowsTo, QuotesAt, HasQuotes
<1>8. Csv(kind, imp).columns
  BY DEF KnowsFile, HasRead
<1>9. HasRead(kind, next)
  BY <1>1, <1>3, <1>7, <1>8 DEF KnowsFile, HasRead, OnLine
<1>10. HoldsQuotes(kind, next)
  BY <1>1, <1>3, <1>4, <1>7 DEF HoldsQuotes, OnLine, q
<1> QED
  BY <1>6, <1>9, <1>10 DEF KnowsFile

-----------------------------------------------------------------------------
(* The process of Import in these terms.                                   *)
LEMMA Terms ==
  /\ \A verdict : AtLine(verdict) <=> import.at = "reading" /\ OnLine(fileKind, import, verdict)
  /\ RowDone = PastRow(import)
  /\ Line = LineAt(fileKind, import, import.line)
  /\ FileOf(import.version) = Csv(fileKind, import)
  /\ SnapshotsOf(Line) = QuotesAt(fileKind, import, import.line)
<1>1. FileOf(import.version) = Csv(fileKind, import)
  BY DEF FileOf, Csv
<1>2. Line = LineAt(fileKind, import, import.line)
  BY <1>1 DEF Line, LineAt
<1>3. \A verdict : AtLine(verdict) <=> import.at = "reading" /\ OnLine(fileKind, import, verdict)
  BY <1>1, <1>2 DEF AtLine, Verdict, OnLine, Says, Length
<1> QED
  BY <1>1, <1>2, <1>3 DEF RowDone, PastRow, SnapshotsOf, QuotesAt

(* What is known of the variables at any time.                             *)
ImportShape ==
  /\ fileKind \in Kinds /\ published \in DOMAIN CsvFiles[fileKind]
  /\ imports \in Nat
  /\ archive \in Seq(Quotations(fileKind))
  /\ KnowsFile(fileKind, import)

(* The steps that move the process along its file. *)
Walks ==
  \/ import.at = "reading" /\ OnLine(fileKind, import, "skip") /\ import' = PastLine(import)
  \/ import.at = "reading" /\ OnLine(fileKind, import, "bad") /\ import' = Ended(import, "bad")
  \/ import.at = "reading" /\ import.line > Length(fileKind, import) /\ import' = Ended(import, "done")
  \/ import.at \in {"reading", "quoting"} /\ import' = Broken(import, "failed")
  \/ import.at \in {"reading", "quoting"} /\ import' = Broken(import, "killed")

TakesRow ==
  /\ import.at = "reading" /\ OnLine(fileKind, import, "row")
  /\ \/ import' = PastRow(import) /\ ~HasQuotes(fileKind, import)
     \/ import' = Quoting(import, QuotesAt(fileKind, import, import.line)) /\ HasQuotes(fileKind, import)

TakesQuote ==
  /\ import.at = "quoting"
  /\ import' = IF Len(import.quotes) = 1 THEN PastRow(import) ELSE PastQuote(import)

(* A step of Import in these terms: only ImportStats, ImportGame and       *)
(* InsertOddsSnapshot write to a table.                                    *)
ImportStep ==
  /\ fileKind' = fileKind
  /\ \/ /\ UNCHANGED <<figures, fixtures, archive>>
        /\ \/ import' = import /\ published' \in DOMAIN CsvFiles[fileKind] /\ imports' = imports
           \/ \E filter \in Filters : BeginImport(filter)
           \/ Walks /\ UNCHANGED <<published, imports>>
     \/ TakesRow /\ UNCHANGED <<published, imports>> /\ (ImportStats \/ ImportGame)
     \/ TakesQuote /\ UNCHANGED <<published, imports>> /\ InsertOddsSnapshot

(* Every step is one of these. *)
LEMMA StepsOfImport ==
  ASSUME ImportShape, [ImportNext]_importVars
  PROVE  ImportStep
<1>1. ASSUME NEW version \in DOMAIN CsvFiles[fileKind], Publish(version) PROVE ImportStep
  BY <1>1 DEF Publish, ImportStep
<1>2. ASSUME NEW filter \in Filters, BeginImport(filter) PROVE ImportStep
  BY <1>2 DEF BeginImport, ImportStep
<1>3. CASE SkipLine
  <2>1. Walks
    BY <1>3, Terms DEF SkipLine, Walks, PastLine
  <2> QED
    BY <1>3, <2>1 DEF SkipLine, ImportStep
<1>4. CASE BadLine
  <2>1. Walks
    BY <1>4, Terms DEF BadLine, Walks, Ended
  <2> QED
    BY <1>4, <2>1 DEF BadLine, ImportStep
<1>5. CASE ImportStats
  <2>1. TakesRow
    BY <1>5, Terms DEF ImportStats, TakesRow, HasQuotes, StatKinds, OddsKinds
  <2> QED
    BY <1>5, <2>1 DEF ImportStats, ImportStep
<1>6. CASE ImportGame
  <2>1. TakesRow
    BY <1>6, Terms DEF ImportGame, TakesRow, HasQuotes, Quoting
  <2> QED
    BY <1>6, <2>1 DEF ImportGame, ImportStep
<1>7. CASE InsertOddsSnapshot
  <2>1. TakesQuote
    BY <1>7, Terms DEF InsertOddsSnapshot, TakesQuote, PastQuote
  <2> QED
    BY <1>7, <2>1 DEF InsertOddsSnapshot, ImportStep
<1>8. CASE EndOfFile
  <2>1. Walks
    BY <1>8, Terms DEF EndOfFile, Walks, Ended, Length
  <2> QED
    BY <1>8, <2>1 DEF EndOfFile, ImportStep
<1>9. CASE StatementFails
  <2>1. Walks
    BY <1>9, Terms DEF StatementFails, Walks, Broken
  <2> QED
    BY <1>9, <2>1 DEF StatementFails, ImportStep
<1>10. CASE KillImport
  <2>1. Walks
    BY <1>10 DEF KillImport, IsRunning, Walks, Broken
  <2> QED
    BY <1>10, <2>1 DEF KillImport, ImportStep
<1>11. CASE UNCHANGED importVars
  BY <1>11 DEF importVars, ImportShape, ImportStep
<1>12. CASE ImportNext
  BY <1>1, <1>2, <1>3, <1>4, <1>5, <1>6, <1>7, <1>8, <1>9, <1>10, <1>12 DEF ImportNext
<1> QED
  BY <1>11, <1>12

(* The process that is begun is at the first line of the file of today.    *)
LEMMA Begun ==
  ASSUME ImportShape, NEW filter \in Filters, BeginImport(filter)
  PROVE  /\ import.at \notin {"reading", "quoting"}
         /\ IsImport(fileKind, import') /\ KnowsFile(fileKind, import')
         /\ import'.line = 1 /\ import'.count = 0 /\ import'.quotes = <<>> /\ import'.at \in {"reading", "bad"}
         /\ imports' = imports + 1 /\ published' = published
<1> DEFINE at == IF CsvFiles[fileKind][published].columns THEN "reading" ELSE "bad"
<1>1. import' = [at |-> at, version |-> published, filter |-> filter, line |-> 1, count |-> 0, quotes |-> <<>>]
  BY DEF BeginImport, NoImport, FileOf
<1>2. <<>> \in Seq(Quotations(fileKind))
  BY EmptySeq
<1>3. IsImport(fileKind, import')
  BY <1>1, <1>2 DEF IsImport, ImportShape, Ats
<1>4. import'.at = IF Csv(fileKind, import').columns THEN "reading" ELSE "bad"
  BY <1>1 DEF Csv
<1>5. import'.line = 1 /\ import'.count = 0 /\ import'.quotes = <<>> /\ import'.at \in {"reading", "bad"}
  BY <1>1
<1>6. KnowsFile(fileKind, import')
  BY <1>3, <1>4, <1>5, StartsWell DEF ImportShape, KnowsFile
<1> QED
  BY <1>3, <1>5, <1>6 DEF BeginImport, IsRunning

(* Before anything was imported. *)
LEMMA ShapeInit == ImportInit => ImportShape
<1> SUFFICES ASSUME ImportInit PROVE ImportShape
  OBVIOUS
<1>1. fileKind \in Kinds /\ 1 \in DOMAIN CsvFiles[fileKind]
  BY FilesAssumption DEF ImportInit, Kinds
<1>2. <<>> \in Seq(Quotations(fileKind))
  BY EmptySeq
<1>3. IsImport(fileKind, import)
  BY <1>1, <1>2 DEF ImportInit, NoImport, IsImport, Ats
<1>4. KnowsFile(fileKind, import)
  BY <1>1, <1>3, StartsWell DEF ImportInit, NoImport, KnowsFile
<1> QED
  BY <1>1, <1>2, <1>4 DEF ImportInit, ImportShape

(* Every step keeps the shape. *)
LEMMA ShapeStep == ImportShape /\ [ImportNext]_importVars => ImportShape'
<1> SUFFICES ASSUME ImportShape, [ImportNext]_importVars PROVE ImportShape'
  OBVIOUS
<1>1. fileKind' = fileKind /\ fileKind \in Kinds
  BY StepsOfImport DEF ImportShape, ImportStep
<1>2. published' \in DOMAIN CsvFiles[fileKind] /\ imports' \in Nat
  BY StepsOfImport, Begun DEF ImportShape, ImportStep
<1>3. KnowsFile(fileKind, import')
  <2>1. CASE import' = import
    BY <2>1 DEF ImportShape
  <2>2. CASE \E filter \in Filters : BeginImport(filter)
    BY <2>2, Begun
  <2>3. CASE Walks
    <3>1. ASSUME import' = PastLine(import), import.at = "reading", OnLine(fileKind, import, "skip")
          PROVE  KnowsFile(fileKind, import')
      BY <1>1, <3>1, SkipKnows DEF ImportShape
    <3>2. ASSUME import' # PastLine(import) PROVE KnowsFile(fileKind, import')
      BY <1>1, <2>3, <3>2, StopKnows DEF ImportShape, Walks
    <3> QED
      BY <2>3, <3>1, <3>2, <1>1, StopKnows DEF ImportShape, Walks
  <2>4. CASE TakesRow
    BY <1>1, <2>4, RowKnows, QuotingKnows DEF ImportShape, TakesRow
  <2>5. CASE TakesQuote
    <3>1. OnLine(fileKind, import, "row") /\ KnowsFile(fileKind, import)
      BY <2>5 DEF TakesQuote, ImportShape, KnowsFile, HoldsQuotes, OnLine
    <3> QED
      BY <1>1, <2>5, <3>1, RowKnows, QuotingKnows DEF TakesQuote
  <2> QED
    BY <2>1, <2>2, <2>3, <2>4, <2>5, StepsOfImport DEF ImportStep
<1>4. archive' \in Seq(Quotations(fileKind))
  <2>1. CASE InsertOddsSnapshot
    <3>1. Head(import.quotes) \in Quotations(fileKind)
      BY <1>1, <2>1, QuoteAtHand DEF InsertOddsSnapshot, ImportShape
    <3> QED
      BY <2>1, <3>1, AppendProperties DEF InsertOddsSnapshot, ImportShape
  <2>2. CASE ~InsertOddsSnapshot
    <3>1. archive' = archive
      BY <2>2, StepsOfImport DEF ImportStats, ImportGame, ImportStep
    <3> QED
      BY <3>1 DEF ImportShape
  <2> QED
    BY <2>1, <2>2
<1> QED
  BY <1>1, <1>2, <1>3, <1>4 DEF ImportShape

(* The process reads its file to where it stops, and holds the quotes of its row. *)
THEOREM ImportShaped == ImportSpec => []ImportShape
<1> QED
  BY ShapeInit, ShapeStep, PTL DEF ImportSpec

-----------------------------------------------------------------------------
(* Where the process reads is the same file as long as its version and     *)
(* filter are the same, as they are until another begins.                  *)
SameFile(kind, imp, next) ==
  /\ Csv(kind, next) = Csv(kind, imp) /\ Length(kind, next) = Length(kind, imp)
  /\ HasQuotes(kind, next) = HasQuotes(kind, imp)
  /\ \A i : /\ Says(kind, next, i) = Says(kind, imp, i)
            /\ LineAt(kind, next, i) = LineAt(kind, imp, i)
            /\ RowsTo(kind, next, i) = RowsTo(kind, imp, i)
            /\ QuotesAt(kind, next, i) = QuotesAt(kind, imp, i)

(* A file is known by its version, and read by the filter. *)
LEMMA FileStays ==
  ASSUME NEW kind, NEW imp, NEW next, next.version = imp.version, next.filter = imp.filter
  PROVE  SameFile(kind, imp, next)
BY DEF SameFile, Csv, Length, Says, LineAt, RowsTo, QuotesAt, HasQuotes

(* What the steps leave of the process. *)
LEMMA StepsKeepFile ==
  ASSUME ImportShape
  PROVE  /\ Walks => /\ SameFile(fileKind, import, import')
                     /\ \/ /\ import'.line = import.line + 1 /\ OnLine(fileKind, import, "skip")
                           /\ import.at = "reading" /\ import'.at = "reading"
                        \/ /\ import'.line = import.line /\ import'.at \notin {"reading", "quoting"}
                           /\ import'.at = "done" => import.at = "reading"
         /\ TakesRow => /\ SameFile(fileKind, import, import') /\ import.at = "reading"
                        /\ IF HasQuotes(fileKind, import)
                            THEN /\ import'.at = "quoting" /\ import'.line = import.line
                                 /\ import'.quotes = QuotesAt(fileKind, import, import.line)
                            ELSE import'.at = "reading" /\ import'.line = import.line + 1
         /\ TakesQuote => /\ SameFile(fileKind, import, import') /\ import.at = "quoting"
                          /\ IF Len(import.quotes) = 1
                              THEN import'.at = "reading" /\ import'.line = import.line + 1
                              ELSE /\ import'.at = "quoting" /\ import'.line = import.line
                                   /\ import'.quotes = Tail(import.quotes)
<1>1. IsImport(fileKind, import)
  BY DEF ImportShape, KnowsFile
<1>2. /\ PastLine(import).version = import.version /\ PastLine(import).filter = import.filter
      /\ PastLine(import).line = import.line + 1 /\ PastLine(import).at = import.at
  BY <1>1 DEF IsImport, PastLine
<1>3. /\ PastRow(import).version = import.version /\ PastRow(import).filter = import.filter
      /\ PastRow(import).line = import.line + 1 /\ PastRow(import).at = "reading"
  BY <1>1 DEF IsImport, PastRow
<1>4. \A at : /\ Ended(import, at).version = import.version /\ Ended(import, at).filter = import.filter
              /\ Ended(import, at).line = import.line /\ Ended(import, at).at = at
  BY <1>1 DEF IsImport, Ended
<1>5. \A at : /\ Broken(import, at).version = import.version /\ Broken(import, at).filter = import.filter
              /\ Broken(import, at).line = import.line /\ Broken(import, at).at = at
  BY <1>1 DEF IsImport, Broken
<1>6. \A quotes : /\ Quoting(import, quotes).version = import.version /\ Quoting(import, quotes).filter = import.filter
                  /\ Quoting(import, quotes).line = import.line /\ Quoting(import, quotes).at = "quoting"
                  /\ Quoting(import, quotes).quotes = quotes
  BY <1>1 DEF IsImport, Quoting
<1>7. /\ PastQuote(import).version = import.version /\ PastQuote(import).filter = import.filter
      /\ PastQuote(import).line = import.line /\ PastQuote(import).at = import.at
      /\ PastQuote(import).quotes = Tail(import.quotes)
  BY <1>1 DEF IsImport, PastQuote
<1>8. ASSUME Walks
      PROVE  /\ import'.version = import.version /\ import'.filter = import.filter
             /\ \/ /\ import'.line = import.line + 1 /\ OnLine(fileKind, import, "skip")
                   /\ import.at = "reading" /\ import'.at = "reading"
                \/ /\ import'.line = import.line /\ import'.at \notin {"reading", "quoting"}
                   /\ import'.at = "done" => import.at = "reading"
  <2>1. /\ "bad" \notin {"reading", "quoting"} /\ "done" \notin {"reading", "quoting"}
        /\ "failed" \notin {"reading", "quoting"} /\ "killed" \notin {"reading", "quoting"}
    OBVIOUS
  <2> QED
    BY <1>2, <1>4, <1>5, <1>8, <2>1 DEF Walks
<1>9. ASSUME TakesRow PROVE import'.version = import.version /\ import'.filter = import.filter
  BY <1>3, <1>6, <1>9 DEF TakesRow
<1>10. ASSUME TakesQuote PROVE import'.version = import.version /\ import'.filter = import.filter
  BY <1>3, <1>7, <1>10 DEF TakesQuote
<1> QED
  BY <1>3, <1>6, <1>7, <1>8, <1>9, <1>10, FileStays DEF TakesRow, TakesQuote

-----------------------------------------------------------------------------
(* The dry run stops where the process does. *)
LEMMA DryRunStops ==
  ASSUME ImportShape
  PROVE  \E end \in 1..Length(fileKind, import) + 1 :
           /\ end <= Length(fileKind, import) => Says(fileKind, import, end) = "bad"
           /\ \A j \in 1..end - 1 : Says(fileKind, import, j) # "bad"
           /\ DryRun(import.filter, FileOf(import.version)) =
                [ok |-> Csv(fileKind, import).columns /\ end > Length(fileKind, import),
                 count |-> IF Csv(fileKind, import).columns THEN Cardinality(RowsTo(fileKind, import, end)) ELSE 0]
<1> DEFINE n == Length(fileKind, import)
           Stop(i) == /\ i <= n => Says(fileKind, import, i) = "bad"
                      /\ \A j \in 1..i - 1 : Says(fileKind, import, j) # "bad"
           end == CHOOSE i \in 1..n + 1 : Stop(i)
           stops == {i \in 1..n + 1 : i <= n => Says(fileKind, import, i) = "bad"}
           before == {p \in (1..n + 1) \X (1..n + 1) : p[1] <= p[2]}
<1>1. n \in Nat
  BY LengthIsNat DEF ImportShape, KnowsFile, IsImport
<1> HIDE DEF stops, before
<1>2. \E i \in 1..n + 1 : Stop(i)
  <2>1. IsFiniteSet(1..n + 1)
    BY <1>1, FS_Interval
  <2>2. LinearOn(before, 1..n + 1)
    BY <1>1 DEF LinearOn, before
  <2>3. stops \in SUBSET (1..n + 1) /\ n + 1 \in stops
    BY <1>1 DEF stops
  <2>4. PICK i \in stops : \A j \in stops : <<i, j>> \in before
    <3>1. \A T \in SUBSET (1..n + 1) : T # {} => \E i \in T : \A j \in T : <<i, j>> \in before
      BY <2>1, <2>2, FirstExists
    <3> QED
      BY <2>3, <3>1
  <2>5. i \in 1..n + 1 /\ \A j \in stops : i <= j
    BY <2>3, <2>4 DEF before
  <2>6. ASSUME NEW j \in 1..i - 1 PROVE Says(fileKind, import, j) # "bad"
    BY <1>1, <2>5 DEF stops
  <2> QED
    BY <2>4, <2>5, <2>6 DEF stops
<1>3. end \in 1..n + 1 /\ Stop(end)
  BY <1>2
<1>4. DryRun(import.filter, FileOf(import.version)) =
        [ok |-> Csv(fileKind, import).columns /\ end > n,
         count |-> IF Csv(fileKind, import).columns THEN Cardinality(RowsTo(fileKind, import, end)) ELSE 0]
  BY Terms DEF DryRun, RowsTo, Length, Says, LineAt
<1> HIDE DEF end
<1> QED
  BY <1>3, <1>4

(* The process stops where the dry run did, having counted the same rows. *)
LEMMA ForetoldRight == ImportShape => DryRunForetells
<1> SUFFICES ASSUME ImportShape PROVE DryRunForetells
  OBVIOUS
<1> DEFINE n == Length(fileKind, import)
           told == Foretold(import.filter, FileOf(import.version))
           columns == Csv(fileKind, import).columns
<1>1. PICK end \in 1..n + 1 :
        /\ end <= n => Says(fileKind, import, end) = "bad"
        /\ \A j \in 1..end - 1 : Says(fileKind, import, j) # "bad"
        /\ DryRun(import.filter, FileOf(import.version)) =
             [ok |-> columns /\ end > n,
              count |-> IF columns THEN Cardinality(RowsTo(fileKind, import, end)) ELSE 0]
  BY DryRunStops
<1>2. /\ told.ok = (columns /\ end > n)
      /\ told.count = IF columns THEN Cardinality(RowsTo(fileKind, import, end)) ELSE 0
  BY <1>1 DEF Foretold
<1> HIDE DEF told, columns
<1>3. n \in Nat /\ import.line \in Nat \ {0} /\ HasRead(fileKind, import) /\ end \in Nat \ {0}
  BY LengthIsNat DEF ImportShape, KnowsFile, IsImport
<1>4. /\ import.line <= n + 1
      /\ \A i \in 1..import.line - 1 : Says(fileKind, import, i) # "bad"
      /\ import.count = Cardinality(RowsTo(fileKind, import, import.line))
      /\ ~columns => import.line = 1 /\ import.at \in {"none", "bad"}
      /\ import.at = "done" => import.line = n + 1
      /\ (import.at = "bad" /\ columns) => import.line <= n /\ Says(fileKind, import, import.line) = "bad"
  BY <1>3 DEF HasRead, columns
<1> HIDE DEF n
<1>5. import.line <= end
  <2> SUFFICES ASSUME end < import.line PROVE FALSE
    BY <1>3
  <2>1. end <= n /\ end \in 1..import.line - 1
    BY <1>3, <1>4
  <2> QED
    BY <1>1, <1>4, <2>1
<1>6. import.at = "done" => end = n + 1 /\ import.line = end
  BY <1>1, <1>3, <1>4, <1>5
<1>7. import.at = "bad" /\ columns => import.line = end /\ end <= n
  <2> SUFFICES ASSUME import.at = "bad", columns, import.line < end PROVE FALSE
    BY <1>3, <1>4, <1>5
  <2>1. import.line \in 1..end - 1
    BY <1>3
  <2> QED
    BY <1>1, <1>4, <2>1
<1>8. import.at = "done" => columns
  BY <1>4
<1>9. Cardinality(RowsTo(fileKind, import, import.line)) <= Cardinality(RowsTo(fileKind, import, end))
  <2>1. RowsTo(fileKind, import, import.line) \subseteq RowsTo(fileKind, import, end)
    BY <1>3, <1>5 DEF RowsTo, RowsBefore
  <2> QED
    BY <1>3, <2>1, RowsCount, FS_Subset
<1>10. ~columns => import.count = 0
  <2>1. RowsTo(fileKind, import, 1) = {}
    BY RowsCount
  <2> QED
    BY <1>4, <2>1, FS_EmptySet
<1>11. columns \in BOOLEAN
  BY FilesAssumption DEF ImportShape, KnowsFile, IsImport, Kinds, Csv, columns
<1>12. (import.at = "done" => told.ok) /\ (import.at = "bad" => ~told.ok)
  <2>1. CASE import.at = "done"
    <3>1. columns /\ end > n
      BY <1>3, <1>6, <1>8, <2>1
    <3>2. told.ok
      BY <1>2, <3>1
    <3> QED
      BY <2>1, <3>2
  <2>2. CASE import.at = "bad"
    <3>1. ~(columns /\ end > n)
      BY <1>3, <1>7, <2>2
    <3>2. ~told.ok
      BY <1>2, <3>1
    <3> QED
      BY <2>2, <3>2
  <2> QED
    BY <2>1, <2>2
<1>13. import.at \in {"done", "bad"} => import.count = told.count
  BY <1>2, <1>4, <1>6, <1>7, <1>8, <1>10
<1>14. import.count <= told.count
  <2>1. import.count \in Nat
    BY DEF ImportShape, KnowsFile, IsImport
  <2>2. CASE columns
    BY <1>2, <1>4, <1>9, <2>2
  <2>3. CASE ~columns
    BY <1>2, <1>10, <2>3
  <2> QED
    BY <2>2, <2>3
<1> QED
  BY <1>12, <1>13, <1>14 DEF DryRunForetells, told

-----------------------------------------------------------------------------
(* Figures: of every key read so far the table has the figure of the last  *)
(* row with it.                                                            *)
KeyAt(kind, imp, i) == KeyOf(kind, LineAt(kind, imp, i))
LastOfKey(kind, imp, i) ==
  \A j \in RowsTo(kind, imp, imp.line) : j > i => KeyAt(kind, imp, j) # KeyAt(kind, imp, i)

FiguresFollow ==
  fileKind \in StatKinds =>
    \A i \in RowsTo(fileKind, import, import.line) : LastOfKey(fileKind, import, i) =>
      /\ KeyAt(fileKind, import, i) \in DOMAIN figures
      /\ figures[KeyAt(fileKind, import, i)] = LineAt(fileKind, import, i).val

(* At the first line no row has been read. *)
LEMMA NothingRead ==
  ASSUME NEW kind, NEW imp, imp.line = 1
  PROVE  RowsTo(kind, imp, imp.line) = {}
  BY RowsCount

(* No row read, nothing to say of figures. *)
LEMMA FiguresInit == ImportInit => FiguresFollow
<1> SUFFICES ASSUME ImportInit PROVE FiguresFollow
  OBVIOUS
<1>1. import.line = 1
  BY DEF ImportInit, NoImport
<1> QED
  BY <1>1, NothingRead DEF FiguresFollow

(* A row read later has the key; the others keep their figures. *)
LEMMA FiguresStep == ImportShape /\ FiguresFollow /\ [ImportNext]_importVars => FiguresFollow'
<1> SUFFICES ASSUME ImportShape, FiguresFollow, [ImportNext]_importVars, fileKind \in StatKinds
             PROVE  FiguresFollow'
  BY StepsOfImport DEF FiguresFollow, ImportStep
<1>1. fileKind' = fileKind /\ ImportStep
  BY StepsOfImport DEF ImportStep
<1>2. ~HasQuotes(fileKind, import) /\ ~InsertOddsSnapshot /\ ~ImportGame
  <2>1. fileKind \notin OddsKinds
    BY DEF StatKinds, OddsKinds
  <2> QED
    BY <2>1 DEF HasQuotes, InsertOddsSnapshot, ImportGame, ImportShape, KnowsFile, HoldsQuotes
<1>3. import.line \in Nat \ {0}
  BY DEF ImportShape, KnowsFile, IsImport
<1>4. ASSUME UNCHANGED figures, SameFile(fileKind, import, import'),
             RowsTo(fileKind, import, import'.line) = RowsTo(fileKind, import, import.line)
      PROVE  FiguresFollow'
  <2>1. /\ RowsTo(fileKind, import', import'.line) = RowsTo(fileKind, import, import.line)
        /\ \A i : KeyAt(fileKind, import', i) = KeyAt(fileKind, import, i)
        /\ \A i : LineAt(fileKind, import', i) = LineAt(fileKind, import, i)
    BY <1>4 DEF SameFile, KeyAt
  <2> QED
    BY <1>1, <1>4, <2>1 DEF FiguresFollow, LastOfKey
<1>5. CASE import' = import /\ UNCHANGED figures
  BY <1>1, <1>5 DEF FiguresFollow
<1>6. CASE \E filter \in Filters : BeginImport(filter)
  <2>1. import'.line = 1
    BY <1>6, Begun
  <2> QED
    BY <2>1, NothingRead DEF FiguresFollow
<1>7. CASE Walks /\ UNCHANGED figures
  <2>1. /\ SameFile(fileKind, import, import')
        /\ \/ import'.line = import.line + 1 /\ Says(fileKind, import, import.line) = "skip"
           \/ import'.line = import.line
    BY <1>7, StepsKeepFile DEF OnLine
  <2>2. RowsTo(fileKind, import, import'.line) = RowsTo(fileKind, import, import.line)
    <3>1. ASSUME Says(fileKind, import, import.line) = "skip"
          PROVE  RowsTo(fileKind, import, import.line + 1) = RowsTo(fileKind, import, import.line)
      <4>1. RowsTo(fileKind, import, import.line + 1) =
              RowsTo(fileKind, import, import.line) \cup
                (IF Says(fileKind, import, import.line) = "row" THEN {import.line} ELSE {})
        BY <1>3, RowsCount
      <4> QED
        BY <3>1, <4>1
    <3> QED
      BY <2>1, <3>1
  <2> QED
    BY <1>4, <1>7, <2>1, <2>2
<1>8. CASE TakesRow /\ ImportStats
  <2> DEFINE key == KeyAt(fileKind, import, import.line)
             line == LineAt(fileKind, import, import.line)
  <2>1. SameFile(fileKind, import, import') /\ import'.line = import.line + 1
    BY <1>2, <1>8, StepsKeepFile
  <2>2. Says(fileKind, import, import.line) = "row"
    BY <1>8 DEF TakesRow, OnLine
  <2>3. figures' = [k \in DOMAIN figures \cup {key} |-> IF k = key THEN line.val ELSE figures[k]]
    BY <1>8, Terms DEF ImportStats, UpsertFigure, Upserted, KeyAt
  <2>4. RowsTo(fileKind, import', import'.line) = RowsTo(fileKind, import, import.line) \cup {import.line}
    <3>1. RowsTo(fileKind, import, import.line + 1) =
            RowsTo(fileKind, import, import.line) \cup
              (IF Says(fileKind, import, import.line) = "row" THEN {import.line} ELSE {})
      BY <1>3, RowsCount
    <3> QED
      BY <2>1, <2>2, <3>1 DEF SameFile
  <2>5. /\ \A i : KeyAt(fileKind, import', i) = KeyAt(fileKind, import, i)
        /\ \A i : LineAt(fileKind, import', i) = LineAt(fileKind, import, i)
    BY <2>1 DEF SameFile, KeyAt
  <2> SUFFICES ASSUME NEW i \in RowsTo(fileKind, import, import.line) \cup {import.line},
                      LastOfKey(fileKind, import', i)
               PROVE  /\ KeyAt(fileKind, import, i) \in DOMAIN figures'
                      /\ figures'[KeyAt(fileKind, import, i)] = LineAt(fileKind, import, i).val
    BY <1>1, <2>4, <2>5 DEF FiguresFollow
  <2>6. CASE i = import.line
    BY <2>3, <2>6
  <2>7. CASE i # import.line
    <3>1. i \in RowsTo(fileKind, import, import.line) /\ i < import.line
      BY <1>3, <2>7, RowsCount
    <3>2. KeyAt(fileKind, import, i) # key /\ LastOfKey(fileKind, import, i)
      BY <2>4, <2>5, <3>1 DEF LastOfKey
    <3> HIDE DEF key, line
    <3>3. /\ KeyAt(fileKind, import, i) \in DOMAIN figures
          /\ figures[KeyAt(fileKind, import, i)] = LineAt(fileKind, import, i).val
      BY <3>1, <3>2 DEF FiguresFollow
    <3> QED
      BY <2>3, <3>2, <3>3
  <2> QED
    BY <2>6, <2>7
<1> QED
  BY <1>1, <1>2, <1>5, <1>6, <1>7, <1>8 DEF ImportStep

(* At the end of the file the rows read are all its rows. *)
LEMMA FiguresRight == ImportShape /\ FiguresFollow => ImportedIsTheFile
<1> SUFFICES ASSUME ImportShape, FiguresFollow, fileKind \in StatKinds, import.at = "done"
             PROVE  ImportedIsTheFile
  BY DEF ImportedIsTheFile
<1>1. RowsOfFile(import.filter, FileOf(import.version)) = RowsTo(fileKind, import, import.line)
  BY Terms DEF RowsOfFile, RowsTo, Length, ImportShape, KnowsFile, HasRead
<1>2. \A i : FileOf(import.version).lines[i] = LineAt(fileKind, import, i)
  BY Terms DEF LineAt
<1> QED
  BY <1>1, <1>2 DEF FiguresFollow, LastOfKey, KeyAt, ImportedIsTheFile

-----------------------------------------------------------------------------
(* Closing prices.  A quote is filed when it is in the archive and nothing *)
(* on its slot has been inserted after it.                                 *)
Filed(quotes, q) ==
  \E p \in DOMAIN quotes : quotes[p] = q /\ \A j \in DOMAIN quotes : j > p => ~SameSlot(quotes[j], q)

(* What is inserted is filed, and what was stays so unless that is on its slot. *)
LEMMA FiledStays ==
  ASSUME NEW S, NEW quotes \in Seq(S), NEW new \in S, NEW q
  PROVE  /\ Filed(Append(quotes, new), new)
         /\ Filed(quotes, q) /\ ~SameSlot(new, q) => Filed(Append(quotes, new), q)
<1> DEFINE more == Append(quotes, new)
<1>1. /\ Len(quotes) \in Nat /\ DOMAIN quotes = 1..Len(quotes)
      /\ DOMAIN more = 1..Len(quotes) + 1 /\ more[Len(quotes) + 1] = new
      /\ \A i \in 1..Len(quotes) : more[i] = quotes[i]
  BY AppendProperties, LenProperties
<1> HIDE DEF more
<1>2. Filed(more, new)
  <2>1. Len(quotes) + 1 \in DOMAIN more /\ \A j \in DOMAIN more : ~(j > Len(quotes) + 1)
    BY <1>1
  <2> QED
    BY <1>1, <2>1 DEF Filed
<1>3. ASSUME Filed(quotes, q), ~SameSlot(new, q) PROVE Filed(more, q)
  <2>1. PICK p \in DOMAIN quotes :
          quotes[p] = q /\ \A j \in DOMAIN quotes : j > p => ~SameSlot(quotes[j], q)
    BY <1>3 DEF Filed
  <2>2. p \in DOMAIN more /\ more[p] = q
    BY <1>1, <2>1
  <2>3. ASSUME NEW j \in DOMAIN more, j > p PROVE ~SameSlot(more[j], q)
    <3>1. CASE j = Len(quotes) + 1
      BY <1>1, <1>3, <3>1
    <3>2. CASE j # Len(quotes) + 1
      <4>1. j \in DOMAIN quotes /\ more[j] = quotes[j]
        BY <1>1, <3>2
      <4> QED
        BY <2>1, <2>3, <4>1
    <3> QED
      BY <3>1, <3>2
  <2> QED
    BY <2>2, <2>3 DEF Filed
<1> QED
  BY <1>2, <1>3 DEF more

(* Of the rows come to, the last of a game has filed what it has inserted. *)
RowsReached(kind, imp) ==
  RowsTo(kind, imp, imp.line) \cup (IF imp.at = "quoting" THEN {imp.line} ELSE {})
GameAt(kind, imp, i) == GameOf(LineAt(kind, imp, i))
LastOfGame(kind, imp, i) ==
  \A j \in RowsReached(kind, imp) : j > i => GameAt(kind, imp, j) # GameAt(kind, imp, i)
Inserted(imp, i) == IF i < imp.line THEN 1..6 ELSE 1..6 - Len(imp.quotes)

QuotesFollow ==
  HasQuotes(fileKind, import) /\ import.at \in {"reading", "quoting", "done"} =>
    \A i \in RowsReached(fileKind, import) : LastOfGame(fileKind, import, i) =>
      \A n \in Inserted(import, i) : Filed(archive, QuotesAt(fileKind, import, i)[n])

(* No process, nothing filed. *)
LEMMA QuotesInit == ImportInit => QuotesFollow
  BY DEF ImportInit, NoImport, QuotesFollow

(* A quote inserted is filed; it unfiles none but of its own game, whose row comes later. *)
LEMMA QuotesStep == ImportShape /\ QuotesFollow /\ [ImportNext]_importVars => QuotesFollow'
<1> SUFFICES ASSUME ImportShape, QuotesFollow, [ImportNext]_importVars PROVE QuotesFollow'
  OBVIOUS
<1>1. fileKind' = fileKind /\ fileKind \in Kinds /\ ImportStep
  BY StepsOfImport DEF ImportStep, ImportShape
<1>2. import.line \in Nat \ {0} /\ import.version \in DOMAIN CsvFiles[fileKind]
  BY DEF ImportShape, KnowsFile, IsImport
<1>3. \A i \in RowsTo(fileKind, import, import.line) : i \in Nat /\ i < import.line
  BY <1>2, RowsCount
<1>4. RowsTo(fileKind, import, import.line + 1) =
        RowsTo(fileKind, import, import.line) \cup
          (IF Says(fileKind, import, import.line) = "row" THEN {import.line} ELSE {})
  BY <1>2, RowsCount
<1>5. ASSUME SameFile(fileKind, import, import')
      PROVE  /\ RowsReached(fileKind, import') = RowsTo(fileKind, import, import'.line) \cup
                                              (IF import'.at = "quoting" THEN {import'.line} ELSE {})
             /\ \A i : GameAt(fileKind, import', i) = GameAt(fileKind, import, i)
             /\ \A i : QuotesAt(fileKind, import', i) = QuotesAt(fileKind, import, i)
             /\ HasQuotes(fileKind, import') = HasQuotes(fileKind, import)
  BY <1>5 DEF SameFile, RowsReached, GameAt
<1>6. CASE import' = import /\ UNCHANGED archive
  BY <1>1, <1>6 DEF QuotesFollow
<1>7. CASE \E filter \in Filters : BeginImport(filter)
  <2>1. import'.line = 1 /\ import'.at # "quoting"
    BY <1>7, Begun
  <2> QED
    BY <2>1, NothingRead DEF QuotesFollow, RowsReached
<1>8. CASE Walks /\ UNCHANGED archive
  <2>1. /\ SameFile(fileKind, import, import')
        /\ \/ /\ import'.line = import.line + 1 /\ Says(fileKind, import, import.line) = "skip"
              /\ import.at = "reading" /\ import'.at = "reading"
           \/ /\ import'.line = import.line /\ import'.at \notin {"reading", "quoting"}
              /\ import'.at = "done" => import.at = "reading"
    BY <1>8, StepsKeepFile DEF OnLine
  <2> SUFFICES ASSUME import'.at \in {"reading", "quoting", "done"}, HasQuotes(fileKind, import)
               PROVE  QuotesFollow'
    BY <1>1, <1>5, <2>1 DEF QuotesFollow
  <2>2. /\ import.at = "reading" /\ import'.at # "quoting"
        /\ RowsTo(fileKind, import, import'.line) = RowsTo(fileKind, import, import.line)
        /\ import'.line \in {import.line, import.line + 1}
    BY <1>4, <2>1
  <2>3. RowsReached(fileKind, import') = RowsReached(fileKind, import)
    BY <1>5, <2>1, <2>2 DEF RowsReached
  <2>4. \A i \in RowsReached(fileKind, import) : Inserted(import', i) = 1..6 /\ Inserted(import, i) = 1..6
    BY <1>2, <1>3, <2>2 DEF RowsReached, Inserted
  <2>5. \A i : LastOfGame(fileKind, import', i) <=> LastOfGame(fileKind, import, i)
    BY <1>5, <2>1, <2>3 DEF LastOfGame
  <2> QED
    BY <1>1, <1>5, <1>8, <2>1, <2>2, <2>3, <2>4, <2>5 DEF QuotesFollow
<1>9. CASE TakesRow /\ UNCHANGED archive
  <2>1. SameFile(fileKind, import, import') /\ import.at = "reading"
    BY <1>9, StepsKeepFile
  <2> SUFFICES ASSUME HasQuotes(fileKind, import)
               PROVE  QuotesFollow'
    BY <1>1, <1>5, <2>1 DEF QuotesFollow
  <2>2. /\ import'.at = "quoting" /\ import'.line = import.line
        /\ import'.quotes = QuotesAt(fileKind, import, import.line)
    BY <1>9, StepsKeepFile
  <2>3. Len(import'.quotes) = 6
    <3>1. import.line \in 1..Length(fileKind, import)
      BY <1>1, <1>2, <1>9, LengthIsNat DEF TakesRow, OnLine
    <3> QED
      BY <1>1, <1>2, <2>2, <3>1, SixQuotes
  <2>4. RowsReached(fileKind, import') = RowsReached(fileKind, import) \cup {import.line}
    BY <1>5, <2>1, <2>2 DEF RowsReached
  <2>5. \A i : LastOfGame(fileKind, import', i) => LastOfGame(fileKind, import, i)
    BY <1>5, <2>1, <2>4 DEF LastOfGame
  <2>6. Inserted(import', import.line) = {}
    BY <1>2, <2>2, <2>3 DEF Inserted
  <2>7. \A i \in RowsReached(fileKind, import) : Inserted(import', i) = Inserted(import, i) /\ i # import.line
    BY <1>2, <1>3, <2>1, <2>2 DEF RowsReached, Inserted
  <2> QED
    BY <1>1, <1>5, <1>9, <2>1, <2>2, <2>4, <2>5, <2>6, <2>7 DEF QuotesFollow
<1>10. CASE TakesQuote /\ InsertOddsSnapshot
  <2> DEFINE quotes(i) == QuotesAt(fileKind, import, i)
  <2>1. SameFile(fileKind, import, import') /\ import.at = "quoting" /\ HasQuotes(fileKind, import)
    BY <1>10, StepsKeepFile DEF ImportShape, KnowsFile, HoldsQuotes
  <2>2. PICK n \in 1..6 : /\ Len(import.quotes) = 7 - n
                          /\ Head(import.quotes) = quotes(import.line)[n]
                          /\ Head(import.quotes) \in Quotations(fileKind)
                          /\ Len(import.quotes) # 1 =>
                               Tail(import.quotes) = SubSeq(QuotesAt(fileKind, import, import.line), n + 1, 6)
                          /\ import.quotes # <<>>
    BY <1>1, <2>1, QuoteAtHand DEF ImportShape
  <2>3. archive' = Append(archive, quotes(import.line)[n]) /\ archive \in Seq(Quotations(fileKind))
    BY <1>10, <2>2 DEF InsertOddsSnapshot, ImportShape
  <2>4. import.line \in 1..Length(fileKind, import) /\ Says(fileKind, import, import.line) = "row"
    BY <1>1, <1>2, <2>1, LengthIsNat DEF ImportShape, KnowsFile, HoldsQuotes
  <2>5. RowsReached(fileKind, import) = RowsTo(fileKind, import, import.line) \cup {import.line}
    BY <2>1 DEF RowsReached
  <2>6. /\ RowsReached(fileKind, import') = RowsReached(fileKind, import)
        /\ \A i \in RowsReached(fileKind, import) :
             Inserted(import', i) = IF i = import.line THEN 1..n ELSE 1..6
    <3>1. CASE Len(import.quotes) = 1
      <4>1. import'.at = "reading" /\ import'.line = import.line + 1
        BY <1>10, <3>1, StepsKeepFile
      <4>2. n = 6
        <5>1. Len(import.quotes) = 7 - n
          BY <2>2
        <5>2. 7 - n = 1 => n = 6
          OBVIOUS
        <5> QED
          BY <3>1, <5>1, <5>2, Zenon
      <4> QED
        BY <1>2, <1>3, <1>4, <1>5, <2>1, <2>4, <2>5, <4>1, <4>2 DEF Inserted
    <3>2. CASE Len(import.quotes) # 1
      <4>1. import'.at = "quoting" /\ import'.line = import.line /\ import'.quotes = Tail(import.quotes)
        BY <1>10, <3>2, StepsKeepFile
      <4>2. Len(import'.quotes) = 6 - n
        <5>1. import.quotes \in Seq(Quotations(fileKind))
          BY DEF ImportShape, KnowsFile, IsImport
        <5> QED
          BY <2>2, <4>1, <5>1, HeadTailProperties
      <4> QED
        BY <1>2, <1>3, <1>5, <2>1, <2>5, <4>1, <4>2 DEF Inserted
    <3> QED
      BY <3>1, <3>2
  <2>7. \A i \in RowsReached(fileKind, import) : Inserted(import, i) = IF i = import.line THEN 1..n - 1 ELSE 1..6
    BY <1>2, <1>3, <2>2, <2>5 DEF Inserted
  <2>8. \A i : LastOfGame(fileKind, import', i) <=> LastOfGame(fileKind, import, i)
    BY <1>5, <2>1, <2>6 DEF LastOfGame
  <2>9. /\ \A m \in 1..6 : quotes(import.line)[m].game = GameAt(fileKind, import, import.line)
        /\ \A m \in 1..6 : SameSlot(quotes(import.line)[n], quotes(import.line)[m]) => m = n
    BY <1>1, <1>2, <2>4, SixQuotes DEF GameAt
  <2>10. /\ Filed(archive', quotes(import.line)[n])
         /\ \A q : Filed(archive, q) /\ ~SameSlot(quotes(import.line)[n], q) => Filed(archive', q)
    BY <2>2, <2>3, FiledStays
  <2>11. ASSUME NEW i \in RowsReached(fileKind, import), LastOfGame(fileKind, import, i),
                NEW m \in Inserted(import', i)
         PROVE  Filed(archive', quotes(i)[m])
    <3>1. CASE i = import.line /\ m = n
      BY <2>10, <3>1
    <3>2. CASE i = import.line /\ m # n
      <4>1. m \in Inserted(import, i) /\ m \in 1..6
        BY <2>6, <2>7, <2>11, <3>2
      <4>2. Filed(archive, quotes(i)[m])
        BY <2>1, <2>11, <4>1 DEF QuotesFollow
      <4> QED
        BY <2>9, <2>10, <3>2, <4>1, <4>2
    <3>3. CASE i # import.line
      <4>1. m \in Inserted(import, i) /\ m \in 1..6 /\ i < import.line /\ i \in RowsTo(fileKind, import, import.line)
        BY <1>3, <2>5, <2>6, <2>7, <2>11, <3>3
      <4>2. Filed(archive, quotes(i)[m])
        BY <2>1, <2>11, <4>1 DEF QuotesFollow
      <4>3. GameAt(fileKind, import, import.line) # GameAt(fileKind, import, i)
        BY <2>5, <2>11, <4>1 DEF LastOfGame
      <4>4. quotes(i)[m].game = GameAt(fileKind, import, i)
        <5>1. i \in 1..Length(fileKind, import)
          <6>1. i \in 1..import.line - 1
            BY <1>2, <4>1, RowsCount
          <6>2. Length(fileKind, import) \in Nat
            BY <1>1, <1>2, LengthIsNat
          <6> QED
            BY <1>2, <2>4, <6>1, <6>2
        <5> QED
          BY <1>1, <1>2, <4>1, <5>1, SixQuotes DEF GameAt
      <4>5. quotes(import.line)[n].game = GameAt(fileKind, import, import.line)
        BY <2>9
      <4> QED
        BY <2>10, <4>2, <4>3, <4>4, <4>5 DEF SameSlot
    <3> QED
      BY <3>1, <3>2, <3>3
  <2> QED
    BY <1>1, <1>5, <2>1, <2>6, <2>8, <2>11 DEF QuotesFollow
<1>11. TakesRow /\ (ImportStats \/ ImportGame) => UNCHANGED archive
  BY DEF ImportStats, ImportGame
<1> QED
  BY <1>1, <1>6, <1>7, <1>8, <1>9, <1>10, <1>11 DEF ImportStep

(* When a quote is said to be of is a number. *)
LEMMA QuotesAreTimed ==
  ASSUME fileKind \in OddsKinds, NEW q \in Quotations(fileKind)
  PROVE  q.at \in Int
<1>1. PICK version \in DOMAIN CsvFiles[fileKind] : \E i \in DOMAIN CsvFiles[fileKind][version].lines :
        \E n \in 1..6 : q = BuildOddsSnapshots(fileKind, CsvFiles[fileKind][version].lines[i])[n]
  BY DEF Quotations
<1> PICK i \in DOMAIN CsvFiles[fileKind][version].lines :
        \E n \in 1..6 : q = BuildOddsSnapshots(fileKind, CsvFiles[fileKind][version].lines[i])[n]
  BY <1>1
<1>2. PICK n \in 1..6 : q = BuildOddsSnapshots(fileKind, CsvFiles[fileKind][version].lines[i])[n]
  OBVIOUS
<1> DEFINE line == CsvFiles[fileKind][version].lines[i]
<1>3. line.day \in Int /\ line.start \in Int
  BY FilesAssumption
<1> HIDE DEF line
<1>4. Commence(fileKind, line) - 1 \in Int
  BY <1>3 DEF Commence
<1>5. BuildOddsSnapshots(fileKind, line)[n].at = Commence(fileKind, line) - 1
  BY DEF BuildOddsSnapshots
<1> QED
  BY <1>4, <1>5, <1>2 DEF line

(* Of what has a time and a place, the later before the earlier and, of    *)
(* the same time, the last before the first.                               *)
LaterFirst(A, when) ==
  {p \in A \X A : when[p[2]] < when[p[1]] \/ (when[p[2]] = when[p[1]] /\ p[2] <= p[1])}

(* That is an order. *)
LEMMA LaterFirstOrders ==
  ASSUME NEW A \in SUBSET Nat, NEW when \in [A -> Int]
  PROVE  LinearOn(LaterFirst(A, when), A)
BY DEF LaterFirst, LinearOn

(* Of the rows on a slot one is the last captured and inserted.            *)
LEMMA QuotesRight == ImportShape /\ QuotesFollow => ClosingIsTheFiles
<1> SUFFICES ASSUME ImportShape, QuotesFollow, fileKind \in OddsKinds, import.at = "done",
                    fileKind = "odds" \/ FileOf(import.version).priced,
                    NEW i \in RowsOfFile(import.filter, FileOf(import.version)),
                    \A j \in RowsOfFile(import.filter, FileOf(import.version)) :
                      j > i => GameOf(FileOf(import.version).lines[j]) # GameOf(FileOf(import.version).lines[i]),
                    NEW n \in 1..6
             PROVE  LET quote == BuildOddsSnapshots(fileKind, FileOf(import.version).lines[i])[n]
                        closing == ClosingOf(quote.game, quote.market, quote.side)
                    IN  \/ \E c \in closing : archive[c].price = quote.price /\ archive[c].point = quote.point
                        \/ \E c \in closing : archive[c].at > quote.at
  BY DEF ClosingIsTheFiles
<1> DEFINE quote == QuotesAt(fileKind, import, i)[n]
           slot == {p \in DOMAIN archive : SameSlot(archive[p], quote)}
           when == [p \in DOMAIN archive |-> archive[p].at]
           before == LaterFirst(DOMAIN archive, when)
<1>1. FileOf(import.version).lines[i] = LineAt(fileKind, import, i)
  BY Terms DEF LineAt
<1>2. RowsOfFile(import.filter, FileOf(import.version)) = RowsReached(fileKind, import)
  BY Terms DEF RowsOfFile, RowsTo, RowsReached, Length, ImportShape, KnowsFile, HasRead
<1>3. HasQuotes(fileKind, import) /\ LastOfGame(fileKind, import, i)
  BY <1>2, Terms DEF HasQuotes, LastOfGame, GameAt, LineAt
<1>4. i \in 1..Length(fileKind, import) /\ Inserted(import, i) = 1..6
  <2>1. import.line \in Nat \ {0} /\ import.line = Length(fileKind, import) + 1
    BY DEF ImportShape, KnowsFile, IsImport, HasRead
  <2>2. i \in 1..import.line - 1
    BY <1>2, <2>1, RowsCount DEF RowsReached
  <2>3. Length(fileKind, import) \in Nat
    BY LengthIsNat DEF ImportShape, KnowsFile, IsImport
  <2> QED
    BY <2>1, <2>2, <2>3 DEF Inserted
<1>5. Filed(archive, quote)
  BY <1>2, <1>3, <1>4 DEF QuotesFollow
<1>6. quote = BuildOddsSnapshots(fileKind, FileOf(import.version).lines[i])[n]
  BY <1>1 DEF QuotesAt
<1>7. /\ archive \in Seq(Quotations(fileKind)) /\ IsFiniteSet(DOMAIN archive)
      /\ \A p \in DOMAIN archive : p \in Nat /\ archive[p].at \in Int
  <2>1. archive \in Seq(Quotations(fileKind))
    BY DEF ImportShape
  <2>2. DOMAIN archive = 1..Len(archive) /\ Len(archive) \in Nat
    BY <2>1, LenProperties
  <2>3. \A p \in DOMAIN archive : archive[p] \in Quotations(fileKind)
    BY <2>1, ElementOfSeq, <2>2
  <2>4. \A q \in Quotations(fileKind) : q.at \in Int
    BY QuotesAreTimed
  <2>5. IsFiniteSet(DOMAIN archive)
    BY <2>2, FS_Interval
  <2> QED
    BY <2>1, <2>2, <2>3, <2>4, <2>5
<1> HIDE DEF quote, before
<1>8. PICK c \in slot : \A p \in slot : <<c, p>> \in before
  <2>1. LinearOn(before, DOMAIN archive)
    <3>1. DOMAIN archive \in SUBSET Nat /\ when \in [DOMAIN archive -> Int]
      BY <1>7
    <3> HIDE DEF when
    <3> QED
      BY <3>1, LaterFirstOrders DEF before
  <2>2. slot # {} /\ slot \in SUBSET DOMAIN archive
    BY <1>5 DEF Filed, SameSlot
  <2>3. \A T \in SUBSET DOMAIN archive : T # {} => \E x \in T : \A y \in T : <<x, y>> \in before
    BY <1>7, <2>1, FirstExists
  <2> QED
    BY <2>2, <2>3
<1> HIDE DEF slot
<1>9. \A p \in slot : c \in slot /\ (archive[p].at < archive[c].at \/ (archive[p].at = archive[c].at /\ p <= c))
  BY <1>8 DEF before, LaterFirst, slot
<1>10. c \in ClosingOf(quote.game, quote.market, quote.side)
  BY <1>9 DEF ClosingOf, SameSlot, slot
<1>11. PICK p \in DOMAIN archive :
         archive[p] = quote /\ \A j \in DOMAIN archive : j > p => ~SameSlot(archive[j], quote)
  BY <1>5 DEF Filed
<1>12. p \in slot
  BY <1>11 DEF SameSlot, slot
<1>13. archive[c].at > quote.at \/ c = p
  <2>1. c \in Nat /\ p \in Nat /\ archive[c].at \in Int /\ archive[p].at \in Int
    BY <1>7, <1>12, <1>9 DEF slot
  <2>2. ~(c > p)
    BY <1>11, <1>12, <1>9 DEF slot
  <2>3. archive[p].at < archive[c].at \/ p <= c
    BY <1>12, <1>9
  <2> QED
    BY <1>11, <2>1, <2>2, <2>3
<1>14. \/ \E d \in ClosingOf(quote.game, quote.market, quote.side) :
             archive[d].price = quote.price /\ archive[d].point = quote.point
       \/ \E d \in ClosingOf(quote.game, quote.market, quote.side) : archive[d].at > quote.at
  BY <1>10, <1>11, <1>13
<1> QED
  BY <1>6, <1>14

-----------------------------------------------------------------------------
(* Copies.  A quote that is still to come in this process has one copy     *)
(* less: that is where a file that gives no quote twice is needed.         *)
Copies(rows, q) == {j \in DOMAIN rows : rows[j] = q}

Ahead(kind, imp, q) ==
  /\ imp.at \in {"reading", "quoting"}
  /\ \E i \in imp.line..Length(kind, imp) :
       /\ Says(kind, imp, i) = "row"
       /\ \E n \in 1..6 : /\ q = QuotesAt(kind, imp, i)[n]
                          /\ imp.at = "quoting" /\ i = imp.line => n + Len(imp.quotes) > 6

CopiesCounted ==
  \A q \in Quotations(fileKind) :
    Cardinality(Copies(archive, q)) + (IF Ahead(fileKind, import, q) THEN 1 ELSE 0) <= imports

NoQuoteTwice ==
  \A kind \in OddsKinds : \A version \in DOMAIN CsvFiles[kind] :
    LET file == CsvFiles[kind][version]
        rows == {i \in DOMAIN file.lines : Read(kind, 0, file, file.lines[i]) = "row"}
    IN  \A i, j \in rows : \A n \in 1..6 :
          BuildOddsSnapshots(kind, file.lines[i])[n] = BuildOddsSnapshots(kind, file.lines[j])[n] => i = j

(* An insert is a copy more of what it inserts. *)
LEMMA CopiesAreFinite ==
  ASSUME NEW S, NEW rows \in Seq(S), NEW new \in S, NEW q
  PROVE  /\ IsFiniteSet(Copies(rows, q)) /\ Cardinality(Copies(rows, q)) \in Nat
         /\ Cardinality(Copies(Append(rows, new), q)) =
              Cardinality(Copies(rows, q)) + (IF q = new THEN 1 ELSE 0)
<1> DEFINE more == Append(rows, new)
<1>1. /\ Len(rows) \in Nat /\ DOMAIN rows = 1..Len(rows)
      /\ DOMAIN more = 1..Len(rows) + 1 /\ more[Len(rows) + 1] = new
      /\ \A i \in 1..Len(rows) : more[i] = rows[i]
  BY AppendProperties, LenProperties
<1>2. IsFiniteSet(1..Len(rows)) /\ Copies(rows, q) \subseteq 1..Len(rows)
  BY <1>1, FS_Interval DEF Copies
<1>3. IsFiniteSet(Copies(rows, q)) /\ Cardinality(Copies(rows, q)) \in Nat
  BY <1>2, FS_Subset, FS_CardinalityType
<1> HIDE DEF more
<1>4. Copies(more, q) = Copies(rows, q) \cup (IF q = new THEN {Len(rows) + 1} ELSE {})
  BY <1>1 DEF Copies
<1>5. Len(rows) + 1 \notin Copies(rows, q)
  BY <1>1, <1>2
<1>6. CASE q = new
  BY <1>3, <1>4, <1>5, <1>6, FS_AddElement DEF more
<1>7. CASE q # new
  BY <1>3, <1>4, <1>7 DEF more
<1> QED
  BY <1>3, <1>6, <1>7

(* Rows of one file have no quote in common. *)
LEMMA RowsDiffer ==
  ASSUME NoQuoteTwice, ImportShape, HasQuotes(fileKind, import),
         NEW i \in 1..Length(fileKind, import), Says(fileKind, import, i) = "row",
         NEW j \in 1..Length(fileKind, import), Says(fileKind, import, j) = "row",
         NEW m \in 1..6, NEW n \in 1..6,
         QuotesAt(fileKind, import, i)[m] = QuotesAt(fileKind, import, j)[n]
  PROVE  i = j /\ m = n
<1>1. /\ fileKind \in OddsKinds /\ fileKind \in Kinds /\ import.version \in DOMAIN CsvFiles[fileKind]
  BY DEF HasQuotes, Kinds, ImportShape, KnowsFile, IsImport
<1>2. Csv(fileKind, import).lines \in Seq({Csv(fileKind, import).lines[k] : k \in DOMAIN Csv(fileKind, import).lines})
  BY <1>1, FilesAssumption DEF Kinds, Csv
<1>3. DOMAIN Csv(fileKind, import).lines = 1..Length(fileKind, import)
  BY <1>2, LenProperties DEF Length
<1>4. m = n
  <2>1. \A line : /\ BuildOddsSnapshots(fileKind, line)[1].market = "h2h" /\ BuildOddsSnapshots(fileKind, line)[1].side = "home"
                  /\ BuildOddsSnapshots(fileKind, line)[2].market = "h2h" /\ BuildOddsSnapshots(fileKind, line)[2].side = "away"
                  /\ BuildOddsSnapshots(fileKind, line)[3].market = "spreads" /\ BuildOddsSnapshots(fileKind, line)[3].side = "home"
                  /\ BuildOddsSnapshots(fileKind, line)[4].market = "spreads" /\ BuildOddsSnapshots(fileKind, line)[4].side = "away"
                  /\ BuildOddsSnapshots(fileKind, line)[5].market = "totals" /\ BuildOddsSnapshots(fileKind, line)[5].side = "over"
                  /\ BuildOddsSnapshots(fileKind, line)[6].market = "totals" /\ BuildOddsSnapshots(fileKind, line)[6].side = "under"
    BY DEF BuildOddsSnapshots
  <2> QED
    BY <2>1 DEF QuotesAt
<1>5. Read(fileKind, 0, Csv(fileKind, import), LineAt(fileKind, import, i)) = "row"
      /\ Read(fileKind, 0, Csv(fileKind, import), LineAt(fileKind, import, j)) = "row"
  BY <1>1 DEF Says, Read, OddsKinds
<1> DEFINE file == CsvFiles[fileKind][import.version]
<1>6. \A k, l \in {k \in DOMAIN file.lines : Read(fileKind, 0, file, file.lines[k]) = "row"} : \A o \in 1..6 :
        BuildOddsSnapshots(fileKind, file.lines[k])[o] = BuildOddsSnapshots(fileKind, file.lines[l])[o] => k = l
  BY <1>1 DEF NoQuoteTwice
<1>7. /\ i \in {k \in DOMAIN file.lines : Read(fileKind, 0, file, file.lines[k]) = "row"}
      /\ j \in {k \in DOMAIN file.lines : Read(fileKind, 0, file, file.lines[k]) = "row"}
  BY <1>3, <1>5 DEF LineAt, Csv
<1>8. BuildOddsSnapshots(fileKind, file.lines[i])[m] = BuildOddsSnapshots(fileKind, file.lines[j])[m]
  BY <1>4 DEF QuotesAt, LineAt, Csv
<1> QED
  BY <1>4, <1>6, <1>7, <1>8, Zenon

(* What a step leaves ahead.                                               *)
LEMMA AheadShrinks ==
  ASSUME ImportShape, NEW q
  PROVE  /\ Walks \/ TakesRow \/ TakesQuote => (Ahead(fileKind, import', q) => Ahead(fileKind, import, q))
         /\ TakesQuote /\ NoQuoteTwice /\ q = Head(import.quotes) =>
              Ahead(fileKind, import, q) /\ ~Ahead(fileKind, import', q)
<1>1. /\ fileKind \in Kinds /\ import.line \in Nat \ {0} /\ import.version \in DOMAIN CsvFiles[fileKind]
      /\ Length(fileKind, import) \in Nat
  BY LengthIsNat DEF ImportShape, KnowsFile, IsImport
<1>2. ASSUME SameFile(fileKind, import, import'), import.at \in {"reading", "quoting"},
             import'.line = import.line + 1, Ahead(fileKind, import', q)
      PROVE  Ahead(fileKind, import, q)
  <2>1. PICK i \in import.line + 1..Length(fileKind, import) :
          Says(fileKind, import, i) = "row" /\ \E n \in 1..6 : q = QuotesAt(fileKind, import, i)[n]
    BY <1>2 DEF Ahead, SameFile
  <2>2. i \in import.line..Length(fileKind, import) /\ i # import.line
    BY <1>1
  <2> QED
    BY <1>2, <2>1, <2>2 DEF Ahead
<1>3. ASSUME Walks, Ahead(fileKind, import', q) PROVE Ahead(fileKind, import, q)
  BY <1>2, <1>3, StepsKeepFile DEF Ahead
<1>4. ASSUME TakesRow, Ahead(fileKind, import', q) PROVE Ahead(fileKind, import, q)
  <2>1. SameFile(fileKind, import, import') /\ import.at = "reading"
    BY <1>4, StepsKeepFile
  <2>2. CASE HasQuotes(fileKind, import)
    <3>1. import'.line = import.line
      BY <1>4, <2>2, StepsKeepFile
    <3> QED
      BY <1>4, <2>1, <3>1 DEF Ahead, SameFile
  <2>3. CASE ~HasQuotes(fileKind, import)
    BY <1>2, <1>4, <2>1, <2>3, StepsKeepFile
  <2> QED
    BY <2>2, <2>3
<1>5. ASSUME TakesQuote
      PROVE  /\ Ahead(fileKind, import', q) => Ahead(fileKind, import, q)
             /\ NoQuoteTwice /\ q = Head(import.quotes) =>
                  Ahead(fileKind, import, q) /\ ~Ahead(fileKind, import', q)
  <2> DEFINE quotes(i) == QuotesAt(fileKind, import, i)
  <2>1. SameFile(fileKind, import, import') /\ import.at = "quoting" /\ HasQuotes(fileKind, import)
    BY <1>5, StepsKeepFile DEF ImportShape, KnowsFile, HoldsQuotes
  <2>2. PICK n \in 1..6 : /\ Len(import.quotes) = 7 - n
                          /\ Head(import.quotes) = quotes(import.line)[n]
                          /\ import.quotes # <<>>
    BY <1>1, <2>1, QuoteAtHand DEF ImportShape
  <2>3. import.line \in 1..Length(fileKind, import) /\ Says(fileKind, import, import.line) = "row"
    BY <1>1, <2>1 DEF ImportShape, KnowsFile, HoldsQuotes
  <2>4. import.quotes \in Seq(Quotations(fileKind))
    BY DEF ImportShape, KnowsFile, IsImport
  <2>5. \/ import'.at = "reading" /\ import'.line = import.line + 1
        \/ import'.at = "quoting" /\ import'.line = import.line /\ Len(import'.quotes) = 6 - n
    <3>1. CASE Len(import.quotes) = 1
      BY <1>5, <3>1, StepsKeepFile
    <3>2. CASE Len(import.quotes) # 1
      <4>1. import'.at = "quoting" /\ import'.line = import.line /\ import'.quotes = Tail(import.quotes)
        BY <1>5, <3>2, StepsKeepFile
      <4> QED
        BY <2>2, <2>4, <4>1, HeadTailProperties
    <3> QED
      BY <3>1, <3>2
  <2>6. ASSUME Ahead(fileKind, import', q)
        PROVE  \E i \in import.line..Length(fileKind, import) :
                 /\ Says(fileKind, import, i) = "row"
                 /\ \E m \in 1..6 : q = quotes(i)[m] /\ (i = import.line => m > n)
    <3>1. PICK i \in import'.line..Length(fileKind, import) :
            /\ Says(fileKind, import, i) = "row"
            /\ \E m \in 1..6 : /\ q = quotes(i)[m]
                               /\ import'.at = "quoting" /\ i = import'.line => m + Len(import'.quotes) > 6
      BY <2>1, <2>6 DEF Ahead, SameFile
    <3>2. PICK m \in 1..6 : /\ q = quotes(i)[m]
                            /\ import'.at = "quoting" /\ i = import'.line => m + Len(import'.quotes) > 6
      BY <3>1
    <3>3. i \in import.line..Length(fileKind, import) /\ (i = import.line => m > n)
      <4>1. CASE import'.line = import.line + 1
        <5>1. i \in import.line..Length(fileKind, import) /\ i # import.line
          BY <1>1, <3>1, <4>1
        <5> QED
          BY <5>1
      <4>2. CASE import'.at = "quoting" /\ import'.line = import.line /\ Len(import'.quotes) = 6 - n
        <5>1. i = import.line => m + (6 - n) > 6
          BY <3>2, <4>2
        <5> QED
          BY <3>1, <4>2, <5>1
      <4> QED
        BY <2>5, <4>1, <4>2
    <3> QED
      BY <3>1, <3>2, <3>3
  <2>7. ASSUME Ahead(fileKind, import', q) PROVE Ahead(fileKind, import, q)
    <3>1. \A m \in 1..6 : m > n => m + Len(import.quotes) > 6
      BY <2>2
    <3> QED
      BY <2>1, <2>6, <2>7, <3>1 DEF Ahead
  <2>8. Ahead(fileKind, import, Head(import.quotes))
    <3>1. n + Len(import.quotes) > 6
      BY <2>2
    <3>2. import.line \in import.line..Length(fileKind, import)
      BY <1>1, <2>3
    <3> QED
      BY <2>1, <2>2, <2>3, <3>1, <3>2 DEF Ahead
  <2>9. ASSUME NoQuoteTwice, q = Head(import.quotes), Ahead(fileKind, import', q) PROVE FALSE
    <3>1. PICK i \in import.line..Length(fileKind, import) :
            /\ Says(fileKind, import, i) = "row"
            /\ \E m \in 1..6 : q = quotes(i)[m] /\ (i = import.line => m > n)
      BY <2>6, <2>9
    <3>2. PICK m \in 1..6 : q = quotes(i)[m] /\ (i = import.line => m > n)
      BY <3>1
    <3>3. i \in 1..Length(fileKind, import)
      BY <1>1
    <3>4. quotes(i)[m] = quotes(import.line)[n]
      BY <2>2, <2>9, <3>2
    <3>5. m = n /\ i = import.line
      BY <2>1, <2>3, <2>9, <3>1, <3>3, <3>4, RowsDiffer
    <3> QED
      BY <3>2, <3>5
  <2> QED
    BY <2>7, <2>8, <2>9
<1> QED
  BY <1>3, <1>4, <1>5

(* Nothing imported, nothing copied. *)
LEMMA CopiesInit == ImportInit => CopiesCounted
<1> SUFFICES ASSUME ImportInit, NEW q PROVE Cardinality(Copies(archive, q)) = 0 /\ ~Ahead(fileKind, import, q) /\ imports = 0
  BY DEF CopiesCounted
<1>1. Copies(archive, q) = {}
  BY DEF ImportInit, Copies
<1> QED
  BY <1>1, FS_EmptySet DEF ImportInit, NoImport, Ahead

(* Only an insert adds a copy, and what it adds is not ahead any more. *)
LEMMA CopiesStep ==
  NoQuoteTwice /\ ImportShape /\ CopiesCounted /\ [ImportNext]_importVars => CopiesCounted'
<1> SUFFICES ASSUME NoQuoteTwice, ImportShape, CopiesCounted, [ImportNext]_importVars,
                    NEW q \in Quotations(fileKind)
             PROVE  Cardinality(Copies(archive', q)) + (IF Ahead(fileKind, import', q) THEN 1 ELSE 0) <= imports'
  BY StepsOfImport DEF CopiesCounted, ImportStep
<1>1. /\ ImportStep /\ imports \in Nat /\ archive \in Seq(Quotations(fileKind)) /\ fileKind \in Kinds
      /\ Cardinality(Copies(archive, q)) \in Nat
  BY StepsOfImport, CopiesAreFinite DEF ImportShape
<1>2. Cardinality(Copies(archive, q)) + (IF Ahead(fileKind, import, q) THEN 1 ELSE 0) <= imports
  BY DEF CopiesCounted
<1>3. CASE import' = import /\ UNCHANGED <<archive, imports>>
  BY <1>2, <1>3
<1>4. CASE UNCHANGED archive /\ \E filter \in Filters : BeginImport(filter)
  <2>1. imports' = imports + 1
    BY <1>4, Begun
  <2> QED
    BY <1>1, <1>2, <1>4, <2>1
<1>5. CASE (Walks \/ TakesRow) /\ UNCHANGED <<archive, imports>>
  <2>1. Ahead(fileKind, import', q) => Ahead(fileKind, import, q)
    BY <1>5, AheadShrinks
  <2> QED
    BY <1>1, <1>2, <1>5, <2>1
<1>6. CASE TakesQuote /\ InsertOddsSnapshot /\ UNCHANGED imports
  <2>1. /\ Ahead(fileKind, import', q) => Ahead(fileKind, import, q)
        /\ q = Head(import.quotes) => Ahead(fileKind, import, q) /\ ~Ahead(fileKind, import', q)
    BY <1>6, AheadShrinks
  <2>2. Head(import.quotes) \in Quotations(fileKind)
    BY <1>1, <1>6, QuoteAtHand DEF InsertOddsSnapshot, ImportShape
  <2>3. Cardinality(Copies(archive', q)) =
          Cardinality(Copies(archive, q)) + (IF q = Head(import.quotes) THEN 1 ELSE 0)
    BY <1>1, <1>6, <2>2, CopiesAreFinite DEF InsertOddsSnapshot
  <2> QED
    BY <1>1, <1>2, <1>6, <2>1, <2>3
<1>7. TakesRow /\ (ImportStats \/ ImportGame) => UNCHANGED archive
  BY DEF ImportStats, ImportGame
<1> QED
  BY <1>1, <1>3, <1>4, <1>5, <1>6, <1>7 DEF ImportStep

(* The copies are no more than the imports. *)
LEMMA CopiesRight == ImportShape /\ CopiesCounted => RepeatsAreImports
<1> SUFFICES ASSUME ImportShape, CopiesCounted, NEW i \in DOMAIN archive
             PROVE  Cardinality({j \in DOMAIN archive : archive[j] = archive[i]}) <= imports
  BY DEF RepeatsAreImports
<1>1. archive[i] \in Quotations(fileKind)
  BY ElementOfSeq, LenProperties DEF ImportShape
<1>2. Cardinality(Copies(archive, archive[i])) \in Nat /\ imports \in Nat
  BY <1>1, CopiesAreFinite DEF ImportShape
<1>3. Cardinality(Copies(archive, archive[i])) <= imports
  BY <1>1, <1>2 DEF CopiesCounted
<1> QED
  BY <1>3 DEF Copies

-----------------------------------------------------------------------------
(* Odds are of games that are there. *)
GamesAreThere ==
  /\ \A i \in DOMAIN archive : archive[i].game \in DOMAIN fixtures
  /\ import.at = "quoting" => GameOf(LineAt(fileKind, import, import.line)) \in DOMAIN fixtures
  /\ fileKind \in StatKinds => archive = <<>> /\ fixtures = <<>>

(* Nothing is imported yet. *)
LEMMA GamesInit == ImportInit => GamesAreThere
  BY DEF ImportInit, NoImport, GamesAreThere

(* A game is there before its odds. *)
LEMMA GamesStep == ImportShape /\ GamesAreThere /\ [ImportNext]_importVars => GamesAreThere'
<1> SUFFICES ASSUME ImportShape, GamesAreThere, [ImportNext]_importVars PROVE GamesAreThere'
  OBVIOUS
<1>1. fileKind' = fileKind /\ fileKind \in Kinds /\ ImportStep
  BY StepsOfImport DEF ImportStep, ImportShape
<1>2. CASE import' = import /\ UNCHANGED <<archive, fixtures>>
  BY <1>1, <1>2 DEF GamesAreThere
<1>3. CASE UNCHANGED <<archive, fixtures>> /\ \E filter \in Filters : BeginImport(filter)
  <2>1. import'.at # "quoting"
    BY <1>3, Begun
  <2> QED
    BY <1>1, <1>3, <2>1 DEF GamesAreThere
<1>4. CASE Walks /\ UNCHANGED <<archive, fixtures>>
  <2>1. import'.at # "quoting"
    BY <1>4, StepsKeepFile
  <2> QED
    BY <1>1, <1>4, <2>1 DEF GamesAreThere
<1>5. CASE TakesRow /\ ImportStats
  <2>1. fileKind \notin OddsKinds /\ UNCHANGED <<archive, fixtures>>
    BY <1>5 DEF ImportStats, StatKinds, OddsKinds
  <2>2. import'.at # "quoting"
    BY <1>5, <2>1, StepsKeepFile DEF HasQuotes
  <2> QED
    BY <1>1, <2>1, <2>2 DEF GamesAreThere
<1>6. CASE TakesRow /\ ImportGame
  <2> DEFINE game == GameOf(LineAt(fileKind, import, import.line))
  <2>1. DOMAIN fixtures' = DOMAIN fixtures \cup {game} /\ archive' = archive
    BY <1>6, Terms DEF ImportGame, Upserted
  <2>2. fileKind \notin StatKinds
    BY <1>6 DEF ImportGame, StatKinds, OddsKinds
  <2>3. import'.at = "quoting" => GameOf(LineAt(fileKind, import', import'.line)) = game
    BY <1>6, StepsKeepFile DEF SameFile
  <2> HIDE DEF game
  <2> QED
    BY <1>1, <2>1, <2>2, <2>3 DEF GamesAreThere
<1>7. CASE TakesQuote /\ InsertOddsSnapshot
  <2> DEFINE game == GameOf(LineAt(fileKind, import, import.line))
  <2>1. /\ SameFile(fileKind, import, import') /\ import.at = "quoting"
        /\ import'.at = "quoting" => import'.line = import.line
    BY <1>7, StepsKeepFile
  <2>2. game \in DOMAIN fixtures /\ fixtures' = fixtures
    BY <1>7, <2>1 DEF GamesAreThere, InsertOddsSnapshot
  <2>3. import'.at = "quoting" => GameOf(LineAt(fileKind, import', import'.line)) = game
    BY <2>1 DEF SameFile
  <2>4. fileKind \notin StatKinds
    BY <2>1 DEF ImportShape, KnowsFile, HoldsQuotes, HasQuotes, StatKinds, OddsKinds
  <2>5. Head(import.quotes).game = game
    <3>1. \E n \in 1..6 : Head(import.quotes) = QuotesAt(fileKind, import, import.line)[n]
      BY <1>1, <2>1, QuoteAtHand DEF ImportShape
    <3>2. /\ import.version \in DOMAIN CsvFiles[fileKind] /\ import.line \in Nat \ {0}
          /\ import.line <= Length(fileKind, import)
      BY <2>1 DEF ImportShape, KnowsFile, IsImport, HoldsQuotes
    <3>3. import.line \in 1..Length(fileKind, import)
      BY <1>1, <3>2, LengthIsNat
    <3> QED
      BY <1>1, <3>1, <3>2, <3>3, SixQuotes
  <2>6. /\ archive \in Seq(Quotations(fileKind)) /\ Head(import.quotes) \in Quotations(fileKind)
        /\ archive' = Append(archive, Head(import.quotes))
    BY <1>1, <1>7, <2>1, QuoteAtHand DEF InsertOddsSnapshot, ImportShape
  <2> HIDE DEF game
  <2>7. \A i \in DOMAIN archive' : archive'[i].game \in DOMAIN fixtures
    BY <2>2, <2>5, <2>6, AppendProperties, LenProperties DEF GamesAreThere
  <2> QED
    BY <1>1, <2>2, <2>3, <2>4, <2>7 DEF GamesAreThere
<1> QED
  BY <1>1, <1>2, <1>3, <1>4, <1>5, <1>6, <1>7 DEF ImportStep

(* What is whole follows from the shape. *)
LEMMA TypeRight == ImportShape /\ GamesAreThere => ImportTypeOK
<1> SUFFICES ASSUME ImportShape, GamesAreThere PROVE ImportTypeOK
  OBVIOUS
<1>1. import.line \in Nat \ {0} /\ fileKind \in Kinds
  BY DEF ImportShape, KnowsFile, IsImport
<1>2. import.count < import.line
  <2>1. import.count = Cardinality(RowsTo(fileKind, import, import.line))
    BY DEF ImportShape, KnowsFile, HasRead
  <2>2. Cardinality(RowsTo(fileKind, import, import.line)) \in 0..import.line - 1
    BY <1>1, RowsCount
  <2> QED
    BY <1>1, <2>1, <2>2
<1>3. import.at = "quoting" => import.quotes # <<>>
  BY <1>1, QuoteAtHand DEF ImportShape
<1>4. import.at # "quoting" => import.quotes = <<>>
  BY DEF ImportShape, KnowsFile, HoldsQuotes
<1> QED
  BY <1>2, <1>3, <1>4 DEF GamesAreThere, ImportTypeOK

-----------------------------------------------------------------------------
(* What is written is whole, wherever the process stops: odds only of      *)
(* games that are there, a process no further than it has counted.         *)
THEOREM ImportTypeCorrect == ImportSpec => []ImportTypeOK
<1> QED
  BY ShapeInit, ShapeStep, GamesInit, GamesStep, TypeRight, PTL DEF ImportSpec

(* Whatever was killed, failed or imported before, an import that is done  *)
(* leaves the figures of its file (the upserts of moneypuck_*_games).      *)
THEOREM FileLastsInFigures == ImportSpec => []ImportedIsTheFile
<1> QED
  BY ShapeInit, ShapeStep, FiguresInit, FiguresStep, FiguresRight, PTL DEF ImportSpec

(* And closing prices: the replay takes those of the file imported last,   *)
(* or of a later hour, though imports append (ListBacktestReplayRows).     *)
THEOREM FileLastsInClosings == ImportSpec => []ClosingIsTheFiles
<1> QED
  BY ShapeInit, ShapeStep, QuotesInit, QuotesStep, QuotesRight, PTL DEF ImportSpec

(* -dry-run says whether an import comes to the end of its file, and after *)
(* how many rows it stops.                                                 *)
THEOREM DryRunsForetell == ImportSpec => []DryRunForetells
<1> QED
  BY ShapeInit, ShapeStep, ForetoldRight, PTL DEF ImportSpec

(* All of it, and no more than a copy of a quote for every import begun:   *)
(* that needs files that give no quote in two rows.                        *)
THEOREM FilesDoPrevail ==
  ASSUME NoQuoteTwice
  PROVE  ImportSpec => []FilesPrevail
<1>1. CopiesCounted /\ ImportShape /\ [ImportNext]_importVars => CopiesCounted'
  BY CopiesStep
<1>2. ImportShape /\ FiguresFollow /\ QuotesFollow /\ CopiesCounted => FilesPrevail
  BY FiguresRight, QuotesRight, CopiesRight, ForetoldRight DEF FilesPrevail
<1> QED
  BY <1>1, <1>2, ShapeInit, ShapeStep, FiguresInit, FiguresStep, QuotesInit, QuotesStep, CopiesInit, PTL
     DEF ImportSpec

-----------------------------------------------------------------------------
(* Sequences, whatever they are of. *)
LEMMA SeqIsLong ==
  ASSUME NEW items, IsSeq(items)
  PROVE  /\ Len(items) \in Nat /\ DOMAIN items = 1..Len(items)
         /\ items = [i \in DOMAIN items |-> items[i]]
BY LenProperties DEF IsSeq

(* A function on 1..n is a sequence of that length. *)
LEMMA SeqOfLength ==
  ASSUME NEW n \in Nat, NEW items, items = [i \in 1..n |-> items[i]]
  PROVE  IsSeq(items) /\ Len(items) = n /\ DOMAIN items = 1..n
<1>1. DOMAIN items = 1..n
  OBVIOUS
<1>2. items \in [1..n -> {items[i] : i \in DOMAIN items}]
  BY <1>1
<1>3. items \in Seq({items[i] : i \in DOMAIN items})
  BY <1>2, IsASeq
<1> QED
  BY <1>1, <1>3, LenProperties DEF IsSeq

(* None, and one. *)
LEMMA EmptyIsSeq == IsSeq(<<>>) /\ Len(<<>>) = 0 /\ DOMAIN <<>> = {}
BY EmptySeq DEF IsSeq

LEMMA OneIsSeq == \A x : IsSeq(<<x>>) /\ Len(<<x>>) = 1 /\ <<x>>[1] = x /\ DOMAIN <<x>> = {1}
<1> TAKE x
<1> DEFINE s == <<x>>
<1>1. s = [i \in 1..1 |-> s[i]] /\ s[1] = x
  OBVIOUS
<1> HIDE DEF s
<1>2. IsSeq(s) /\ Len(s) = 1 /\ DOMAIN s = 1..1
  BY <1>1, SeqOfLength
<1> QED
  BY <1>1, <1>2 DEF s

(* One more at the end. *)
LEMMA AppendToSeq ==
  ASSUME NEW items, IsSeq(items), NEW x
  PROVE  /\ IsSeq(Append(items, x)) /\ Len(Append(items, x)) = Len(items) + 1
         /\ DOMAIN Append(items, x) = 1..Len(items) + 1 /\ Len(items) \in Nat
         /\ \A i \in 1..Len(items) + 1 :
              Append(items, x)[i] = IF i <= Len(items) THEN items[i] ELSE x
<1> DEFINE S == {items[i] : i \in DOMAIN items} \cup {x}
           more == Append(items, x)
<1>1. items = [i \in 1..Len(items) |-> items[i]] /\ Len(items) \in Nat /\ DOMAIN items = 1..Len(items)
  BY SeqIsLong
<1>2. items \in [1..Len(items) -> S]
  BY <1>1
<1> HIDE DEF S
<1>3. items \in Seq(S)
  BY <1>1, <1>2, IsASeq
<1>4. x \in S
  BY DEF S
<1>5. /\ more \in Seq(S) /\ Len(more) = Len(items) + 1 /\ DOMAIN more = 1..Len(items) + 1
      /\ \A i \in 1..Len(items) : more[i] = items[i]
      /\ more[Len(items) + 1] = x
  BY <1>3, <1>4, AppendProperties, LenProperties
<1> HIDE DEF more
<1>6. more = [i \in 1..Len(items) + 1 |-> more[i]]
  BY <1>5, LenProperties
<1>7. IsSeq(more)
  <2>1. Len(items) + 1 \in Nat
    BY <1>1
  <2> QED
    BY <1>6, <2>1, SeqOfLength
<1>8. \A i \in 1..Len(items) + 1 : more[i] = IF i <= Len(items) THEN items[i] ELSE x
  BY <1>1, <1>5
<1> QED
  BY <1>1, <1>5, <1>7, <1>8 DEF more

(* What follows the first. *)
LEMMA TailOfSeq ==
  ASSUME NEW items, IsSeq(items), items # <<>>
  PROVE  /\ IsSeq(Tail(items)) /\ Len(Tail(items)) = Len(items) - 1
         /\ Len(items) > 0 /\ 1 \in DOMAIN items /\ Head(items) = items[1]
         /\ DOMAIN Tail(items) = 1..Len(items) - 1
         /\ \A i \in 1..Len(items) - 1 : i + 1 \in DOMAIN items /\ Tail(items)[i] = items[i + 1]
<1> DEFINE S == {items[i] : i \in DOMAIN items}
<1>1. items \in Seq(S) /\ Len(items) \in Nat /\ DOMAIN items = 1..Len(items)
  BY SeqIsLong DEF IsSeq
<1>2. Len(items) > 0
  BY <1>1, EmptySeq
<1> HIDE DEF S
<1>3. /\ Tail(items) \in Seq(S) /\ Len(Tail(items)) = Len(items) - 1
      /\ \A i \in 1..Len(items) - 1 : Tail(items)[i] = items[i + 1]
  BY <1>1, HeadTailProperties
<1>4. DOMAIN Tail(items) = 1..Len(items) - 1 /\ Tail(items) = [i \in 1..Len(items) - 1 |-> Tail(items)[i]]
  BY <1>1, <1>2, <1>3, LenProperties
<1>n. Len(items) - 1 \in Nat
  BY <1>1, <1>2
<1> DEFINE rest == Tail(items)
<1>5. IsSeq(Tail(items))
  <2>1. rest = [i \in 1..Len(items) - 1 |-> rest[i]]
    BY <1>4
  <2> HIDE DEF rest
  <2>2. IsSeq(rest)
    BY <1>n, <2>1, SeqOfLength
  <2> QED
    BY <2>2 DEF rest
<1>6. Head(items) = items[1]
  BY <1>1
<1> QED
  BY <1>1, <1>2, <1>3, <1>4, <1>5, <1>6

(* An order is a sequence without repetition. *)
LEMMA OrdersAreSeqs ==
  ASSUME NEW S, IsFiniteSet(S), NEW order \in Orders(S)
  PROVE  /\ IsSeq(order) /\ \A i \in DOMAIN order : order[i] \in S
         /\ \A i, j \in DOMAIN order : i # j => order[i] # order[j]
<1>1. Cardinality(S) \in Nat
  BY FS_CardinalityType
<1>2. order \in [1..Cardinality(S) -> S] /\ \A i, j \in DOMAIN order : i # j => order[i] # order[j]
  BY DEF Orders
<1> QED
  BY <1>1, <1>2, SeqOfLength

(* What is kept of a sequence is one. *)
LEMMA KeptIsSeq ==
  ASSUME NEW items, IsSeq(items), NEW places \in SUBSET DOMAIN items, NEW kept \in Kept(items, places)
  PROVE  IsSeq(kept)
<1>1. IsFiniteSet(places)
  <2>1. DOMAIN items = 1..Len(items) /\ Len(items) \in Nat
    BY SeqIsLong
  <2>2. IsFiniteSet(1..Len(items))
    BY <2>1, FS_Interval
  <2> QED
    BY <2>1, <2>2, FS_Subset
<1>2. PICK order \in Orders(places) : kept = [i \in DOMAIN order |-> items[order[i]]]
  BY DEF Kept
<1>3. IsSeq(order)
  BY <1>1, OrdersAreSeqs
<1>4. DOMAIN order = 1..Len(order) /\ Len(order) \in Nat
  BY <1>3, SeqIsLong
<1> QED
  BY <1>2, <1>4, SeqOfLength

-----------------------------------------------------------------------------
(* The rows of a snapshot are of the job's arguments and of the days of    *)
(* the pages it was read from.                                             *)
AreFigures(found, day) == IsSeq(found) /\ \A i \in DOMAIN found : found[i].day = day

AreRows(rows, args, days) ==
  IsSeq(rows) /\ \A i \in DOMAIN rows : rows[i].key[2] = args /\ rows[i].row.day \in days

(* A row for each figure. *)
LEMMA RowsOfFigures ==
  ASSUME NEW found, NEW days, NEW day \in days, AreFigures(found, day), NEW rows, NEW args, NEW name,
         rows = [i \in DOMAIN found |-> ByArgs(name, args, found[i])]
  PROVE  AreRows(rows, args, days)
<1>1. Len(found) \in Nat /\ DOMAIN found = 1..Len(found)
  BY SeqIsLong DEF AreFigures
<1>2. IsSeq(rows)
  BY <1>1, SeqOfLength
<1>3. \A figure : ByArgs(name, args, figure).key[2] = args /\ ByArgs(name, args, figure).row.day = figure.day
  BY DEF ByArgs
<1> QED
  BY <1>1, <1>2, <1>3 DEF AreFigures, AreRows

(* The rows of one part and of the next. *)
LEMMA RowsOfBoth ==
  ASSUME NEW args, NEW r, NEW s, NEW days, AreRows(r, args, days), AreRows(s, args, days)
  PROVE  AreRows(r \o s, args, days)
<1> DEFINE S == {r[i] : i \in DOMAIN r} \cup {s[i] : i \in DOMAIN s}
<1>1. r \in Seq({r[i] : i \in DOMAIN r}) /\ s \in Seq({s[i] : i \in DOMAIN s})
  BY DEF AreRows, IsSeq
<1>2. r \in Seq(S) /\ s \in Seq(S)
  <2>1. /\ r = [i \in 1..Len(r) |-> r[i]] /\ Len(r) \in Nat /\ DOMAIN r = 1..Len(r)
        /\ s = [i \in 1..Len(s) |-> s[i]] /\ Len(s) \in Nat /\ DOMAIN s = 1..Len(s)
    BY SeqIsLong DEF AreRows
  <2>2. r \in [1..Len(r) -> S] /\ s \in [1..Len(s) -> S]
    BY <2>1
  <2> HIDE DEF S
  <2> QED
    BY <2>1, <2>2, IsASeq
<1> HIDE DEF S
<1>3. /\ r \o s \in Seq(S) /\ Len(r \o s) = Len(r) + Len(s) /\ Len(r) \in Nat /\ Len(s) \in Nat
      /\ DOMAIN r = 1..Len(r) /\ DOMAIN s = 1..Len(s)
      /\ \A i \in 1..Len(r) + Len(s) : (r \o s)[i] = IF i <= Len(r) THEN r[i] ELSE s[i - Len(r)]
  BY <1>2, ConcatProperties, LenProperties
<1>4. DOMAIN (r \o s) = 1..Len(r) + Len(s) /\ r \o s = [i \in 1..Len(r) + Len(s) |-> (r \o s)[i]]
  BY <1>3, LenProperties
<1>5. IsSeq(r \o s)
  BY <1>3, <1>4, SeqOfLength
<1>6. ASSUME NEW i \in 1..Len(r) + Len(s)
      PROVE  (r \o s)[i].key[2] = args /\ (r \o s)[i].row.day \in days
  <2>1. CASE i <= Len(r)
    BY <1>3, <2>1 DEF AreRows
  <2>2. CASE ~(i <= Len(r))
    <3>1. i - Len(r) \in DOMAIN s
      BY <1>3, <2>2
    <3> QED
      BY <1>3, <2>2, <3>1 DEF AreRows
  <2> QED
    BY <2>1, <2>2
<1> QED
  BY <1>4, <1>5, <1>6 DEF AreRows

-----------------------------------------------------------------------------
(* What a page says becomes figures of its day. *)
LEMMA FiguresOf ==
  ASSUME NEW items, IsSeq(items), NEW day, NEW found,
         DOMAIN found = DOMAIN items, found = [i \in DOMAIN found |-> found[i]],
         \A i \in DOMAIN found : found[i].day = day
  PROVE  AreFigures(found, day)
<1>1. Len(items) \in Nat /\ DOMAIN items = 1..Len(items)
  BY SeqIsLong
<1> QED
  BY <1>1, SeqOfLength DEF AreFigures

(* The teams of an answer, merged by id. *)
LEMMA MLBTeams ==
  ASSUME feed = "mlb", NEW part, part.n \in DOMAIN Answers[feed], NEW found \in FetchTeamStats(part)
  PROVE  AreFigures(found, part.day)
<1> DEFINE splits == Said(part).teams
           S == {splits[i].id : i \in DOMAIN splits} \ {0}
<1>1. IsSeq(splits)
  BY IngestAssumption DEF Said
<1>2. IsFiniteSet(S)
  <2>1. Len(splits) \in Nat /\ DOMAIN splits = 1..Len(splits)
    BY <1>1, SeqIsLong
  <2>2. IsFiniteSet(DOMAIN splits)
    BY <2>1, FS_Interval
  <2> DEFINE f == [i \in DOMAIN splits |-> splits[i].id]
             T == {f[i] : i \in DOMAIN splits}
  <2>3. T = {splits[i].id : i \in DOMAIN splits}
    OBVIOUS
  <2>4. f \in Surjection(DOMAIN splits, T)
    BY DEF Surjection
  <2> HIDE DEF f, T, splits
  <2>5. IsFiniteSet(T)
    BY <2>2, <2>4, FS_Surjection
  <2> QED
    BY <2>3, <2>5, FS_Subset
<1> DEFINE of(id, group) == LastOf(splits, {i \in DOMAIN splits : splits[i].id = id /\ splits[i].group = group})
           val(id) == <<of(id, "hitting"), of(id, "pitching")>>
           all(ids) == [i \in DOMAIN ids |-> [id |-> 10 * ids[i], day |-> part.day, val |-> val(ids[i])]]
<1>b. FetchTeamStats(part) = {all(ids) : ids \in Orders(S)}
  BY Zenon DEF FetchTeamStats
<1> HIDE DEF S, val
<1>3. PICK ids \in Orders(S) :
        /\ DOMAIN found = DOMAIN ids /\ found = [i \in DOMAIN found |-> found[i]]
        /\ \A i \in DOMAIN found : found[i].day = part.day
  BY <1>b
<1>4. IsSeq(ids)
  BY <1>2, <1>3, OrdersAreSeqs
<1> QED
  BY <1>3, <1>4, FiguresOf

(* Its starters. *)
LEMMA MLBPitchers ==
  ASSUME feed = "mlb", NEW part, part.n \in DOMAIN Answers[feed], NEW found \in FetchPitcherStats(part)
  PROVE  AreFigures(found, part.day)
<1> DEFINE pitchers == Said(part).pitchers
           S == {i \in DOMAIN pitchers : pitchers[i].id # 0 /\ pitchers[i].starts > 0}
<1>1. IsSeq(pitchers)
  BY IngestAssumption DEF Said
<1>3. PICK kept \in Kept(pitchers, S) :
        /\ DOMAIN found = DOMAIN kept /\ found = [i \in DOMAIN found |-> found[i]]
        /\ \A i \in DOMAIN found : found[i].day = part.day
  BY DEF FetchPitcherStats
<1>4. S \in SUBSET DOMAIN pitchers
  OBVIOUS
<1> HIDE DEF S, pitchers
<1>5. IsSeq(kept)
  BY <1>1, <1>3, <1>4, KeptIsSeq
<1> QED
  BY <1>3, <1>5, FiguresOf

(* The rows of an answer. *)
LEMMA NBATeams ==
  ASSUME feed = "nba", NEW part, part.n \in DOMAIN Answers[feed], NEW found \in MapNBATeamStats(part)
  PROVE  AreFigures(found, part.day)
<1> DEFINE rows == Said(part).rows
<1>1. IsSeq(rows)
  BY IngestAssumption DEF Said
<1>2. /\ DOMAIN found = DOMAIN rows /\ found = [i \in DOMAIN found |-> found[i]]
      /\ \A i \in DOMAIN found : found[i].day = part.day
  BY DEF MapNBATeamStats
<1> HIDE DEF rows
<1> QED
  BY <1>1, <1>2, FiguresOf

(* The standings that count. *)
LEMMA NHLTeams ==
  ASSUME feed = "nhl", NEW args, NEW part, part.n \in DOMAIN Answers[feed], NEW found \in FetchNHL(args, part)
  PROVE  AreFigures(found, part.day)
<1> DEFINE answer == Said(part)
           S == {i \in DOMAIN answer : answer[i].type = 2 /\ answer[i].season = args.season}
<1>1. IsSeq(answer)
  BY IngestAssumption DEF Said
<1>3. PICK kept \in Kept(answer, S) :
        /\ DOMAIN found = DOMAIN kept /\ found = [i \in DOMAIN found |-> found[i]]
        /\ \A i \in DOMAIN found : found[i].day = part.day
  BY DEF FetchNHL
<1>4. S \in SUBSET DOMAIN answer
  OBVIOUS
<1> HIDE DEF S, answer
<1>5. IsSeq(kept)
  BY <1>1, <1>3, <1>4, KeptIsSeq
<1> QED
  BY <1>3, <1>5, FiguresOf

(* The lines of the file, each with its standing. *)
LEMMA NFLTeams ==
  ASSUME feed = "nfl", NEW args, NEW csv, csv.n \in DOMAIN Answers[feed], NEW html,
         NEW found \in FetchNFL(args, csv, html)
  PROVE  AreFigures(found, csv.day)
<1> DEFINE rows == Said(csv).stats
           S == {i \in DOMAIN rows : rows[i].type = "REG"}
<1>1. IsSeq(rows)
  BY IngestAssumption DEF Said
<1> DEFINE standings == ParseStandingsHTML(html)
           known(id) == {i \in DOMAIN standings : Slug(standings[i].id) = Slug(id)}
           val(stat) == <<stat.val, LastOf(standings, known(stat.id))>>
           all(stats) == [i \in DOMAIN stats |-> [id |-> stats[i].id, day |-> csv.day, val |-> val(stats[i])]]
           whole(stats) == stats # <<>> /\ \A i \in DOMAIN stats : stats[i].counted /\ known(stats[i].id) # {}
<1>b. FetchNFL(args, csv, html) =
        {all(stats) : stats \in {t \in ParseTeamStatsCSV(csv) : args.kind = "regular" /\ whole(t)}}
  BY Zenon DEF FetchNFL
<1> HIDE DEF val, whole
<1>3. PICK kept \in ParseTeamStatsCSV(csv) :
        /\ DOMAIN found = DOMAIN kept /\ found = [i \in DOMAIN found |-> found[i]]
        /\ \A i \in DOMAIN found : found[i].day = csv.day
  BY <1>b
<1>4. S \in SUBSET DOMAIN rows /\ kept \in Kept(rows, S)
  BY <1>3 DEF ParseTeamStatsCSV
<1> HIDE DEF S, rows
<1>5. IsSeq(kept)
  BY <1>1, <1>4, KeptIsSeq
<1> QED
  BY <1>3, <1>5, FiguresOf

(* The lines of a report. *)
LEMMA Injuries ==
  ASSUME feed = "injuries", NEW args, NEW part, part.n \in DOMAIN Answers[feed],
         NEW found \in FetchRotowire(args, part)
  PROVE  AreFigures(found, part.day)
<1> DEFINE rows == Said(part)
<1>1. IsSeq(rows)
  BY IngestAssumption DEF Said
<1>2. /\ DOMAIN found = DOMAIN rows /\ found = [i \in DOMAIN found |-> found[i]]
      /\ \A i \in DOMAIN found : found[i].day = part.day
  BY DEF FetchRotowire
<1> HIDE DEF rows
<1> QED
  BY <1>1, <1>2, FiguresOf

(* So do the upserts: a snapshot's rows are of the arguments and the days. *)
LEMMA SnapshotsAreRows ==
  ASSUME feed \in Feeds \ {"weather"}, NEW args, NEW days, NEW parts, IsSeq(parts), Len(parts) = Parts,
         \A i \in DOMAIN parts : parts[i].day \in days /\ parts[i].n \in DOMAIN Answers[feed],
         NEW rows \in Snapshots(args, parts)
  PROVE  AreRows(rows, args, days)
<1>1. DOMAIN parts = 1..Parts
  BY SeqIsLong
<1>2. parts[1].day \in days /\ parts[1].n \in DOMAIN Answers[feed]
  BY <1>1 DEF Parts
<1>3. CASE feed = "mlb"
  <2>1. parts[2].day \in days /\ parts[2].n \in DOMAIN Answers[feed]
    BY <1>1, <1>3 DEF Parts
  <2>2. PICK s \in FetchTeamStats(parts[1]) \X FetchPitcherStats(parts[2]) :
          rows = [i \in DOMAIN s[1] |-> ByArgs("mlb_team_stats", args, s[1][i])]
                   \o [i \in DOMAIN s[2] |-> ByArgs("mlb_pitcher_stats", args, s[2][i])]
    BY <1>3 DEF Snapshots, RunMLB, Each, UpsertMLBTeamStats, UpsertMLBPitcherStats
  <2> DEFINE teams == [i \in DOMAIN s[1] |-> ByArgs("mlb_team_stats", args, s[1][i])]
             pitchers == [i \in DOMAIN s[2] |-> ByArgs("mlb_pitcher_stats", args, s[2][i])]
  <2>3. s[1] \in FetchTeamStats(parts[1]) /\ s[2] \in FetchPitcherStats(parts[2])
    OBVIOUS
  <2>4. AreFigures(s[1], parts[1].day)
    BY <1>2, <1>3, <2>3, MLBTeams
  <2>5. AreFigures(s[2], parts[2].day)
    BY <1>3, <2>1, <2>3, MLBPitchers
  <2>6. AreRows(teams, args, days)
    BY <1>2, <2>4, RowsOfFigures
  <2>7. AreRows(pitchers, args, days)
    BY <2>1, <2>5, RowsOfFigures
  <2>8. rows = teams \o pitchers
    BY <2>2
  <2> HIDE DEF teams, pitchers
  <2> QED
    BY <2>6, <2>7, <2>8, RowsOfBoth
<1>4. CASE feed = "nba"
  <2>1. PICK f \in MapNBATeamStats(parts[1]) : rows = [i \in DOMAIN f |-> ByArgs("nba_team_stats", args, f[i])]
    BY <1>4 DEF Snapshots, RunNBA, Each, UpsertNBATeamStats
  <2>2. AreFigures(f, parts[1].day)
    BY <1>2, <1>4, NBATeams
  <2> QED
    BY <1>2, <2>1, <2>2, RowsOfFigures
<1>5. CASE feed = "nhl"
  <2>1. PICK f \in FetchNHL(args, parts[1]) : rows = [i \in DOMAIN f |-> ByArgs("nhl_team_stats", args, f[i])]
    BY <1>5 DEF Snapshots, RunNHL, Each, UpsertNHLTeamStats
  <2>2. AreFigures(f, parts[1].day)
    BY <1>2, <1>5, NHLTeams
  <2> QED
    BY <1>2, <2>1, <2>2, RowsOfFigures
<1>6. CASE feed = "nfl"
  <2>1. PICK f \in FetchNFL(args, parts[1], parts[2]) :
          rows = [i \in DOMAIN f |-> ByArgs("nfl_team_stats", args, f[i])]
    BY <1>6 DEF Snapshots, RunNFL, Each, UpsertNFLTeamStats
  <2>2. AreFigures(f, parts[1].day)
    BY <1>2, <1>6, NFLTeams
  <2> QED
    BY <1>2, <2>1, <2>2, RowsOfFigures
<1>7. CASE feed = "injuries"
  <2>1. PICK f \in FetchRotowire(args, parts[1]) :
          rows = [i \in DOMAIN f |-> ByArgs("player_injury_reports", args, f[i])]
    BY <1>7 DEF Snapshots, RunInjuries, Each, UpsertPlayerInjuryReport
  <2>2. AreFigures(f, parts[1].day)
    BY <1>2, <1>7, Injuries
  <2> QED
    BY <1>2, <2>1, <2>2, RowsOfFigures
<1> QED
  BY <1>3, <1>4, <1>5, <1>6, <1>7 DEF Feeds, Leagues

-----------------------------------------------------------------------------
(* Arguments that are normalised stay what they are when they are          *)
(* normalised again, on whatever day.                                      *)
IsArgs(of, args) ==
  /\ args = [season |-> args.season, kind |-> args.kind, date |-> args.date]
  /\ args.date \in Days
  /\ IF of \in Leagues THEN args.season # 0 ELSE args.season = 0
  /\ IF of = "weather" THEN args.kind \in WeatherSports \cup {""} ELSE args.kind # ""

(* No day or season of the calendar looks unset. *)
LEMMA SeasonsAreThere ==
  ASSUME NEW day \in Days
  PROVE  day # 0 /\ Year(day) # 0 /\ InferNBASeason(day) # 0 /\ InferNHLSeason(day) # 0 /\ InferNFLSeason(day) # 0
BY IngestAssumption DEF Days, Year, Month, InferNBASeason, InferNHLSeason, InferNFLSeason

(* Normalising again changes nothing. *)
LEMMA NormalizedOnce ==
  ASSUME feed \in Feeds, NEW args, IsArgs(feed, args)
  PROVE  Arguments(args) = {args}
<1>1. args.date # 0
  BY SeasonsAreThere DEF IsArgs
<1>2. CASE feed \in Leagues
  BY <1>1, <1>2 DEF IsArgs, Arguments, Leagues, Else, StatDate,
     NormalizeMLBRequest, NormalizeNBARequest, NormalizeNHLRequest, NormalizeNFLRequest
<1>3. CASE feed = "injuries"
  BY <1>1, <1>3 DEF IsArgs, Arguments, Leagues, Else, StatDate, NormalizeInjuryRequest
<1>4. CASE feed = "weather"
  BY <1>1, <1>4 DEF IsArgs, Arguments, Leagues, Else, StatDate, NormalizeWeatherRequest
<1> QED
  BY <1>2, <1>3, <1>4 DEF Feeds

(* What a request is normalised to is normal. *)
LEMMA ArgumentsAreNormal ==
  ASSUME feed \in Feeds, today \in Days, NEW req \in Requests[feed], NEW args \in Arguments(req)
  PROVE  IsArgs(feed, args) /\ args.date \in {req.date, today}
<1> DEFINE date == StatDate(req)
<1>1. req.season \in Nat /\ req.date \in Days \cup {0}
  BY IngestAssumption
<1>2. date \in Days /\ date \in {req.date, today}
  BY <1>1, SeasonsAreThere DEF StatDate, Else
<1>3. Year(date) # 0 /\ InferNBASeason(date) # 0 /\ InferNHLSeason(date) # 0 /\ InferNFLSeason(date) # 0
  BY <1>2, SeasonsAreThere
<1> HIDE DEF date
<1>4. CASE feed = "mlb"
  <2>1. args = [season |-> Else(req.season, 0, Year(date)), kind |-> Else(req.kind, "", "regular"), date |-> date]
    BY <1>4 DEF Arguments, NormalizeMLBRequest, date
  <2> QED
    BY <1>2, <1>3, <1>4, <2>1 DEF IsArgs, Leagues, Else
<1>5. CASE feed = "nba"
  <2>1. args = [season |-> Else(req.season, 0, InferNBASeason(date)), kind |-> Else(req.kind, "", "regular"), date |-> date]
    BY <1>5 DEF Arguments, NormalizeNBARequest, date
  <2> QED
    BY <1>2, <1>3, <1>5, <2>1 DEF IsArgs, Leagues, Else
<1>6. CASE feed = "nhl"
  <2>1. args = [season |-> Else(req.season, 0, InferNHLSeason(date)), kind |-> Else(req.kind, "", "regular"), date |-> date]
    BY <1>6 DEF Arguments, NormalizeNHLRequest, date
  <2> QED
    BY <1>2, <1>3, <1>6, <2>1 DEF IsArgs, Leagues, Else
<1>7. CASE feed = "nfl"
  <2>1. args = [season |-> Else(req.season, 0, InferNFLSeason(date)), kind |-> Else(req.kind, "", "regular"), date |-> date]
    BY <1>7 DEF Arguments, NormalizeNFLRequest, date
  <2> QED
    BY <1>2, <1>3, <1>7, <2>1 DEF IsArgs, Leagues, Else
<1>8. CASE feed = "injuries"
  <2>1. args = [season |-> 0, kind |-> Else(req.kind, "", "nfl"), date |-> date]
    BY <1>8 DEF Arguments, NormalizeInjuryRequest, date
  <2> QED
    BY <1>2, <1>8, <2>1 DEF IsArgs, Leagues, Else
<1>9. CASE feed = "weather"
  <2>1. args = [season |-> 0, kind |-> req.kind, date |-> date] /\ args.kind \in WeatherSports \cup {""}
    BY <1>9 DEF Arguments, NormalizeWeatherRequest, date
  <2> QED
    BY <1>2, <1>9, <2>1 DEF IsArgs, Leagues
<1> QED
  BY <1>4, <1>5, <1>6, <1>7, <1>8, <1>9 DEF Feeds, Leagues

-----------------------------------------------------------------------------
(* What a run is in the middle of.  NoneAhead is a hypothesis of what days *)
(* rows are of: no job is asked for ahead of its day.                      *)
NoneAhead == \A of \in Feeds \ {"weather"} : \A req \in Requests[of] : req.date <= FirstDay

Dated(of, args, day) == IF of = "nhl" THEN day = args.date ELSE NoneAhead => day >= args.date

WeatherKey(game) == <<"game_weather_snapshots", NoArgs, game.id>>

IsNear(game, hour) ==
  IF game.at % Quarters >= Quarters - 2 /\ IsOutdoor(game) THEN 4 * hour <= game.at /\ game.at - 4 * hour < 4
  ELSE 4 * hour - game.at \in -1..2

IsRight(of, args, key, row) ==
  IF of = "weather" THEN \E game \in Fixtures : key = WeatherKey(game) /\ IsNear(game, row.val[1])
  ELSE key[2] = args /\ Dated(of, args, row.day)

IsFunc(f) == f = [x \in DOMAIN f |-> f[x]]

Run(at, job, args, parts, games, rows, wrote) ==
  [at |-> at, job |-> job, args |-> args, parts |-> parts, games |-> games, rows |-> rows, wrote |-> wrote]

IsRecord(r) == r = Run(r.at, r.job, r.args, r.parts, r.games, r.rows, r.wrote)
IsRun(r) == /\ IsRecord(r)
            /\ r.at \in {"idle", "fetch", "games", "write"}
            /\ IsSeq(r.parts) /\ IsSeq(r.games) /\ IsSeq(r.rows) /\ IsFunc(r.wrote)
            /\ r.at = "idle" => r = Resting
            /\ r.at # "idle" => r.args = r.job

HoldsPages(of, r) ==
  /\ Len(r.parts) < IF of \in {"mlb", "nfl"} THEN 2 ELSE 1
  /\ \A i \in DOMAIN r.parts : r.parts[i].n \in DOMAIN Answers[of] /\ Dated(of, r.args, r.parts[i].day)

HoldsRows(of, r) ==
  /\ \A i \in DOMAIN r.rows : IsRight(of, r.args, r.rows[i].key, r.rows[i].row)
  /\ \A key \in DOMAIN r.wrote : IsRight(of, r.args, key, r.wrote[key])

(* A run of weather goes by the time its games start.                      *)
GoesByTime(r) ==
  /\ \A i \in DOMAIN r.games : r.games[i] \in Fixtures
  /\ \A i, j \in DOMAIN r.games : i < j => r.games[i] # r.games[j] /\ r.games[i].at <= r.games[j].at
  /\ \A i \in DOMAIN r.games :
       /\ \A key \in DOMAIN r.wrote : key # WeatherKey(r.games[i]) /\ StartOf(key) <= r.games[i].at
       /\ \A j \in DOMAIN r.rows : r.rows[j].key # WeatherKey(r.games[i]) /\ StartOf(r.rows[j].key) <= r.games[i].at
  /\ Len(r.rows) <= 1
  /\ \A i \in DOMAIN r.rows : \A key \in DOMAIN r.wrote :
       key # r.rows[i].key /\ StartOf(key) <= StartOf(r.rows[i].key)

RunIsRight(of, r) ==
  /\ IsRun(r)
  /\ HoldsRows(of, r)
  /\ r.at = "fetch" => r.rows = <<>> /\ r.wrote = NoRows /\ HoldsPages(of, r)
  /\ r.at = "games" => r.rows = <<>>
  /\ IF of = "weather" THEN r.at # "fetch" /\ GoesByTime(r) ELSE r.at # "games" /\ r.games = <<>>

IsJob(of, job, state) ==
  /\ IsArgs(of, job)
  /\ state \in [state : States, requested : Days, tries : 0..MaxTries[of]]
  /\ state.state \in {"available", "retryable"} => state.tries < MaxTries[of]

WorldInv == feed \in Feeds /\ today \in Days /\ site \in [Days -> DOMAIN Answers[feed]]
QueueInv == /\ IsFunc(queue) /\ \A job \in DOMAIN queue : IsJob(feed, job, queue[job])
            /\ NoneAhead /\ feed # "weather" => \A job \in DOMAIN queue : job.date <= today
JobsInv ==
  /\ \A job \in DOMAIN queue :
       queue[job].state = "running" <=> \E w \in Workers : work[w].at # "idle" /\ work[w].job = job
  /\ \A w \in Workers : work[w].at # "idle" => work[w].job \in DOMAIN queue
  /\ \A w, other \in Workers :
       work[w].at # "idle" /\ work[other].at # "idle" /\ w # other => work[w].job # work[other].job
RunsInv == IsFunc(work) /\ DOMAIN work = Workers /\ \A w \in Workers : RunIsRight(feed, work[w])
TableInv == IsFunc(table) /\ \A key \in DOMAIN table : IsRight(feed, key[2], key, table[key])

IngestInv == WorldInv /\ QueueInv /\ JobsInv /\ RunsInv /\ TableInv

(* A run at rest has nothing in hand. *)
LEMMA RestIsRight == \A of : RunIsRight(of, Resting)
<1> TAKE of
<1>1. IsSeq(<<>>) /\ Len(<<>>) = 0 /\ DOMAIN <<>> = {}
  BY EmptyIsSeq
<1>2. /\ Resting.at = "idle" /\ Resting.parts = <<>> /\ Resting.games = <<>> /\ Resting.rows = <<>>
      /\ Resting.wrote = NoRows
      /\ Resting = Run(Resting.at, Resting.job, Resting.args, Resting.parts, Resting.games, Resting.rows, Resting.wrote)
  BY DEF Resting, Run
<1>3. IsFunc(NoRows) /\ DOMAIN NoRows = {}
  BY DEF IsFunc, NoRows
<1> HIDE DEF Resting
<1>4. IsRun(Resting)
  BY <1>1, <1>2, <1>3 DEF IsRun, IsRecord
<1>5. HoldsRows(of, Resting) /\ GoesByTime(Resting)
  BY <1>1, <1>2, <1>3 DEF HoldsRows, GoesByTime
<1> QED
  BY <1>2, <1>4, <1>5 DEF RunIsRight

(* Initially nothing is queued, run or written. *)
LEMMA IngestInitially == IngestInit => IngestInv
<1> SUFFICES ASSUME IngestInit PROVE IngestInv
  OBVIOUS
<1>1. WorldInv
  <2>1. feed \in Feeds /\ 1 \in DOMAIN Answers[feed]
    BY IngestAssumption DEF IngestInit
  <2>2. FirstDay \in Days
    BY IngestAssumption DEF Days
  <2> QED
    BY <2>1, <2>2 DEF IngestInit, WorldInv
<1>2. DOMAIN NoRows = {} /\ IsFunc(NoRows)
  BY DEF NoRows, IsFunc
<1>3. QueueInv /\ TableInv
  BY <1>2 DEF IngestInit, QueueInv, TableInv
<1>4. DOMAIN work = Workers /\ IsFunc(work) /\ \A w \in Workers : work[w] = Resting
  BY DEF IngestInit, IsFunc
<1>5. RunsInv
  BY <1>4, RestIsRight DEF RunsInv
<1>6. Resting.at = "idle"
  BY DEF Resting
<1>7. JobsInv
  BY <1>2, <1>4, <1>6 DEF IngestInit, JobsInv
<1> QED
  BY <1>1, <1>3, <1>5, <1>7 DEF IngestInv

-----------------------------------------------------------------------------
(* Updates of a run, one field after the other.                            *)
RunFields == {"at", "job", "args", "parts", "games", "rows", "wrote"}

(* What a run is made of. *)
LEMMA FieldsOfRun ==
  \A a, j, b, p, g, r, w :
    /\ IsRecord(Run(a, j, b, p, g, r, w))
    /\ Run(a, j, b, p, g, r, w).at = a
    /\ Run(a, j, b, p, g, r, w).job = j
    /\ Run(a, j, b, p, g, r, w).args = b
    /\ Run(a, j, b, p, g, r, w).parts = p
    /\ Run(a, j, b, p, g, r, w).games = g
    /\ Run(a, j, b, p, g, r, w).rows = r
    /\ Run(a, j, b, p, g, r, w).wrote = w
BY DEF Run, IsRecord

(* One field is set. *)
LEMMA SetField ==
  ASSUME NEW run, IsRecord(run), NEW x
  PROVE
    /\ [run EXCEPT !.at = x] = Run(x, run.job, run.args, run.parts, run.games, run.rows, run.wrote)
    /\ [run EXCEPT !.job = x] = Run(run.at, x, run.args, run.parts, run.games, run.rows, run.wrote)
    /\ [run EXCEPT !.args = x] = Run(run.at, run.job, x, run.parts, run.games, run.rows, run.wrote)
    /\ [run EXCEPT !.parts = x] = Run(run.at, run.job, run.args, x, run.games, run.rows, run.wrote)
    /\ [run EXCEPT !.games = x] = Run(run.at, run.job, run.args, run.parts, x, run.rows, run.wrote)
    /\ [run EXCEPT !.rows = x] = Run(run.at, run.job, run.args, run.parts, run.games, x, run.wrote)
    /\ [run EXCEPT !.wrote = x] = Run(run.at, run.job, run.args, run.parts, run.games, run.rows, x)
<1>1. DOMAIN run = RunFields /\ run = [f \in RunFields |-> run[f]]
  BY DEF Run, IsRecord, RunFields
<1>3. [run EXCEPT !.at = x] = Run(x, run.job, run.args, run.parts, run.games, run.rows, run.wrote)
  BY <1>1 DEF Run, RunFields
<1>4. [run EXCEPT !.job = x] = Run(run.at, x, run.args, run.parts, run.games, run.rows, run.wrote)
  BY <1>1 DEF Run, RunFields
<1>5. [run EXCEPT !.args = x] = Run(run.at, run.job, x, run.parts, run.games, run.rows, run.wrote)
  BY <1>1 DEF Run, RunFields
<1>6. [run EXCEPT !.parts = x] = Run(run.at, run.job, run.args, x, run.games, run.rows, run.wrote)
  BY <1>1 DEF Run, RunFields
<1>7. [run EXCEPT !.games = x] = Run(run.at, run.job, run.args, run.parts, x, run.rows, run.wrote)
  BY <1>1 DEF Run, RunFields
<1>8. [run EXCEPT !.rows = x] = Run(run.at, run.job, run.args, run.parts, run.games, x, run.wrote)
  BY <1>1 DEF Run, RunFields
<1>9. [run EXCEPT !.wrote = x] = Run(run.at, run.job, run.args, run.parts, run.games, run.rows, x)
  BY <1>1 DEF Run, RunFields
<1> QED
  BY <1>3, <1>4, <1>5, <1>6, <1>7, <1>8, <1>9

(* At the last page. *)
LEMMA FetchedRun ==
  ASSUME NEW run, IsRecord(run), NEW new
  PROVE  [run EXCEPT !.at = "write", !.parts = <<>>, !.rows = new] =
           Run("write", run.job, run.args, <<>>, run.games, new, run.wrote)
<1> DEFINE r1 == [run EXCEPT !.at = "write"]
           r2 == [r1 EXCEPT !.parts = <<>>]
           r3 == [r2 EXCEPT !.rows = new]
<1>0. [run EXCEPT !.at = "write", !.parts = <<>>, !.rows = new] = r3
  OBVIOUS
<1>1. r1 = Run("write", run.job, run.args, run.parts, run.games, run.rows, run.wrote)
  BY SetField
<1> HIDE DEF r1
<1>2. r2 = Run("write", run.job, run.args, <<>>, run.games, run.rows, run.wrote)
  <2>1. /\ IsRecord(r1) /\ r1.at = "write" /\ r1.job = run.job /\ r1.args = run.args
        /\ r1.parts = run.parts /\ r1.games = run.games /\ r1.rows = run.rows /\ r1.wrote = run.wrote
    BY <1>1, FieldsOfRun
  <2>2. r2 = Run(r1.at, r1.job, r1.args, <<>>, r1.games, r1.rows, r1.wrote)
    BY <2>1, SetField
  <2> QED
    BY <2>1, <2>2, Zenon
<1> HIDE DEF r2
<1>3. r3 = Run("write", run.job, run.args, <<>>, run.games, new, run.wrote)
  <2>1. /\ IsRecord(r2) /\ r2.at = "write" /\ r2.job = run.job /\ r2.args = run.args
        /\ r2.parts = <<>> /\ r2.games = run.games /\ r2.rows = run.rows /\ r2.wrote = run.wrote
    BY <1>2, FieldsOfRun
  <2>2. r3 = Run(r2.at, r2.job, r2.args, r2.parts, r2.games, new, r2.wrote)
    BY <2>1, SetField
  <2> QED
    BY <2>1, <2>2, Zenon
<1> HIDE DEF r3
<1> QED
  BY <1>0, <1>3

(* At a game. *)
LEMMA ListedRun ==
  ASSUME NEW run, IsRecord(run), NEW rest, NEW new
  PROVE  [run EXCEPT !.at = "write", !.games = rest, !.rows = new] =
           Run("write", run.job, run.args, run.parts, rest, new, run.wrote)
<1> DEFINE r1 == [run EXCEPT !.at = "write"]
           r2 == [r1 EXCEPT !.games = rest]
           r3 == [r2 EXCEPT !.rows = new]
<1>0. [run EXCEPT !.at = "write", !.games = rest, !.rows = new] = r3
  OBVIOUS
<1>1. r1 = Run("write", run.job, run.args, run.parts, run.games, run.rows, run.wrote)
  BY SetField
<1> HIDE DEF r1
<1>2. r2 = Run("write", run.job, run.args, run.parts, rest, run.rows, run.wrote)
  <2>1. /\ IsRecord(r1) /\ r1.at = "write" /\ r1.job = run.job /\ r1.args = run.args
        /\ r1.parts = run.parts /\ r1.games = run.games /\ r1.rows = run.rows /\ r1.wrote = run.wrote
    BY <1>1, FieldsOfRun
  <2>2. r2 = Run(r1.at, r1.job, r1.args, r1.parts, rest, r1.rows, r1.wrote)
    BY <2>1, SetField
  <2> QED
    BY <2>1, <2>2, Zenon
<1> HIDE DEF r2
<1>3. r3 = Run("write", run.job, run.args, run.parts, rest, new, run.wrote)
  <2>1. /\ IsRecord(r2) /\ r2.at = "write" /\ r2.job = run.job /\ r2.args = run.args
        /\ r2.parts = run.parts /\ r2.games = rest /\ r2.rows = run.rows /\ r2.wrote = run.wrote
    BY <1>2, FieldsOfRun
  <2>2. r3 = Run(r2.at, r2.job, r2.args, r2.parts, r2.games, new, r2.wrote)
    BY <2>1, SetField
  <2> QED
    BY <2>1, <2>2, Zenon
<1> HIDE DEF r3
<1> QED
  BY <1>0, <1>3

(* At a row. *)
LEMMA UpsertedRun ==
  ASSUME NEW run, IsRecord(run), NEW rest, NEW to
  PROVE  [run EXCEPT !.rows = rest, !.at = to] =
           Run(to, run.job, run.args, run.parts, run.games, rest, run.wrote)
<1> DEFINE r1 == [run EXCEPT !.rows = rest]
           r2 == [r1 EXCEPT !.at = to]
<1>0. [run EXCEPT !.rows = rest, !.at = to] = r2
  OBVIOUS
<1>1. r1 = Run(run.at, run.job, run.args, run.parts, run.games, rest, run.wrote)
  BY SetField
<1> HIDE DEF r1
<1>2. r2 = Run(to, run.job, run.args, run.parts, run.games, rest, run.wrote)
  <2>1. /\ IsRecord(r1) /\ r1.at = run.at /\ r1.job = run.job /\ r1.args = run.args
        /\ r1.parts = run.parts /\ r1.games = run.games /\ r1.rows = rest /\ r1.wrote = run.wrote
    BY <1>1, FieldsOfRun
  <2>2. r2 = Run(to, r1.job, r1.args, r1.parts, r1.games, r1.rows, r1.wrote)
    BY <2>1, SetField
  <2> QED
    BY <2>1, <2>2, Zenon
<1> HIDE DEF r2
<1> QED
  BY <1>0, <1>2

(* At the start. *)
LEMMA BegunRun ==
  ASSUME NEW run, IsRecord(run), NEW to, NEW what, NEW norm, NEW list
  PROVE  [run EXCEPT !.at = to, !.job = what, !.args = norm, !.games = list] =
           Run(to, what, norm, run.parts, list, run.rows, run.wrote)
<1> DEFINE r1 == [run EXCEPT !.at = to]
           r2 == [r1 EXCEPT !.job = what]
           r3 == [r2 EXCEPT !.args = norm]
           r4 == [r3 EXCEPT !.games = list]
<1>0. [run EXCEPT !.at = to, !.job = what, !.args = norm, !.games = list] = r4
  OBVIOUS
<1>1. r1 = Run(to, run.job, run.args, run.parts, run.games, run.rows, run.wrote)
  BY SetField
<1> HIDE DEF r1
<1>2. r2 = Run(to, what, run.args, run.parts, run.games, run.rows, run.wrote)
  <2>1. /\ IsRecord(r1) /\ r1.at = to /\ r1.job = run.job /\ r1.args = run.args
        /\ r1.parts = run.parts /\ r1.games = run.games /\ r1.rows = run.rows /\ r1.wrote = run.wrote
    BY <1>1, FieldsOfRun
  <2>2. r2 = Run(r1.at, what, r1.args, r1.parts, r1.games, r1.rows, r1.wrote)
    BY <2>1, SetField
  <2> QED
    BY <2>1, <2>2, Zenon
<1> HIDE DEF r2
<1>3. r3 = Run(to, what, norm, run.parts, run.games, run.rows, run.wrote)
  <2>1. /\ IsRecord(r2) /\ r2.at = to /\ r2.job = what /\ r2.args = run.args
        /\ r2.parts = run.parts /\ r2.games = run.games /\ r2.rows = run.rows /\ r2.wrote = run.wrote
    BY <1>2, FieldsOfRun
  <2>2. r3 = Run(r2.at, r2.job, norm, r2.parts, r2.games, r2.rows, r2.wrote)
    BY <2>1, SetField
  <2> QED
    BY <2>1, <2>2, Zenon
<1> HIDE DEF r3
<1>4. r4 = Run(to, what, norm, run.parts, list, run.rows, run.wrote)
  <2>1. /\ IsRecord(r3) /\ r3.at = to /\ r3.job = what /\ r3.args = norm
        /\ r3.parts = run.parts /\ r3.games = run.games /\ r3.rows = run.rows /\ r3.wrote = run.wrote
    BY <1>3, FieldsOfRun
  <2>2. r4 = Run(r3.at, r3.job, r3.args, r3.parts, list, r3.rows, r3.wrote)
    BY <2>1, SetField
  <2> QED
    BY <2>1, <2>2, Zenon
<1> HIDE DEF r4
<1> QED
  BY <1>0, <1>4

-----------------------------------------------------------------------------
(* Forecasts. *)
LEMMA HourIsNear ==
  ASSUME NEW game \in Fixtures, IsOutdoor(game),
         NEW c, c = ClosestHour({(game.at \div Quarters) * 24 + h : h \in 0..23}, game.at)
  PROVE  IsNear(game, c)
<1> DEFINE at == game.at
           d == at \div 96
           q == at % 96
           hours == {d * 24 + h : h \in 0..23}
           Gap(h) == IF 4 * h > at THEN 4 * h - at ELSE at - 4 * h
           Best(h) == \A other \in hours \ {h} : Gap(h) < Gap(other) \/ (Gap(h) = Gap(other) /\ other < h)
           best == d * 24 + (IF q >= 94 THEN 23 ELSE (q + 2) \div 4)
<1>1. at \in Nat
  BY IngestAssumption
<1>2. d \in Nat /\ q \in 0..95 /\ at = 96 * d + q
  BY <1>1
<1>3. c = CHOOSE h \in hours : Best(h)
  BY Zenon DEF ClosestHour, Quarters
<1>4. best \in hours /\ best \in Int
  <2>1. (IF q >= 94 THEN 23 ELSE (q + 2) \div 4) \in 0..23
    BY <1>2
  <2> QED
    BY <1>2, <2>1
<1>5. \A h \in hours : h \in Int /\ h >= 24 * d /\ h <= 24 * d + 23
  BY <1>2
<1>6. 4 * best - at \in -1..2 \/ (q >= 94 /\ best = 24 * d + 23)
  BY <1>2
<1> HIDE DEF d, q, best, hours
<1>7. Best(best)
  <2> SUFFICES ASSUME NEW other \in hours \ {best}
               PROVE  Gap(best) < Gap(other) \/ (Gap(best) = Gap(other) /\ other < best)
    OBVIOUS
  <2>1. other \in Int /\ other # best /\ other <= 24 * d + 23
    BY <1>5
  <2> QED
    BY <1>1, <1>2, <1>4, <1>6, <2>1
<1>8. c \in hours /\ Best(c)
  BY <1>3, <1>4, <1>7
<1>9. c = best
  <2> SUFFICES ASSUME c # best PROVE FALSE
    OBVIOUS
  <2>1. Gap(c) < Gap(best) \/ (Gap(c) = Gap(best) /\ best < c)
    BY <1>4, <1>8
  <2>2. Gap(best) < Gap(c) \/ (Gap(best) = Gap(c) /\ c < best)
    BY <1>7, <1>8
  <2> QED
    BY <1>1, <1>4, <1>5, <1>8, <2>1, <2>2
<1> HIDE DEF at
<1>10. IF q >= 94 THEN 4 * c <= at /\ at - 4 * c < 4 ELSE 4 * c - at \in -1..2
  <2>1. CASE q >= 94
    <3>1. c = 24 * d + 23
      BY <1>2, <1>9, <2>1 DEF best
    <3> QED
      BY <1>1, <1>2, <2>1, <3>1
  <2>2. CASE ~(q >= 94)
    BY <1>6, <1>9, <2>2
  <2> QED
    BY <2>1, <2>2
<1> QED
  BY <1>10 DEF IsNear, Quarters, q, at

(* A row of weather is of its game, and of an hour near the start. *)
LEMMA ForecastIsNear ==
  ASSUME WorldInv, feed = "weather", NEW game \in Fixtures, NEW new \in WeatherRows(game)
  PROVE  new.key = WeatherKey(game) /\ IsNear(game, new.row.val[1])
<1>1. site[today] \in DOMAIN Answers["weather"]
  BY DEF WorldInv
<1>2. CASE IsOutdoor(game)
  <2> DEFINE answer == Answers["weather"][site[today]]
             hours == {(game.at \div Quarters) * 24 + h : h \in answer.hours}
             c == ClosestHour(hours, game.at)
  <2>1. answer.hours \in {{}, 0..23}
    BY <1>1, IngestAssumption
  <2>2. hours # {} /\ new = UpsertGameWeatherSnapshot(game, c, <<ValueAt(answer.val)>>)
    BY <1>2, Zenon DEF WeatherRows, FetchForecast
  <2>3. answer.hours = 0..23
    BY <2>1, <2>2
  <2>4. IsNear(game, c)
    BY <1>2, <2>3, HourIsNear
  <2> HIDE DEF c, answer
  <2> QED
    BY <2>2, <2>4 DEF UpsertGameWeatherSnapshot, WeatherKey
<1>3. CASE ~IsOutdoor(game)
  <2> DEFINE hour == RoundToNearestHour(game.at)
  <2>1. new = UpsertGameWeatherSnapshot(game, hour, <<>>)
    BY <1>3 DEF WeatherRows, IndoorSnapshot
  <2>2. 4 * hour - game.at \in -1..2
    BY IngestAssumption DEF RoundToNearestHour
  <2>3. IsNear(game, hour)
    BY <1>3, <2>2 DEF IsNear
  <2> HIDE DEF hour
  <2> QED
    BY <2>1, <2>3 DEF UpsertGameWeatherSnapshot, WeatherKey
<1> QED
  BY <1>2, <1>3

-----------------------------------------------------------------------------
(* A run that goes on, ends or begins. *)
LEMMA RunGoesOn ==
  ASSUME IngestInv, NEW w \in Workers, NEW r, work' = [work EXCEPT ![w] = r], work[w].at # "idle",
         r.at # "idle", r.job = work[w].job, RunIsRight(feed, r),
         UNCHANGED <<feed, today, site, queue, table>>
  PROVE  IngestInv'
<1>1. /\ \A other \in Workers : work'[other] = IF other = w THEN r ELSE work[other]
      /\ DOMAIN work' = Workers /\ IsFunc(work')
  BY DEF IngestInv, RunsInv, IsFunc
<1>2. RunsInv'
  BY <1>1 DEF IngestInv, RunsInv
<1>3. JobsInv'
  BY <1>1 DEF IngestInv, JobsInv
<1>4. WorldInv' /\ QueueInv' /\ TableInv'
  BY DEF IngestInv, WorldInv, QueueInv, TableInv
<1> QED
  BY <1>2, <1>3, <1>4 DEF IngestInv

(* A run ends, and its job is completed, tried again or given up. *)
LEMMA RunEnds ==
  ASSUME IngestInv, NEW w \in Workers, work[w].at # "idle", work' = [work EXCEPT ![w] = Resting],
         NEW state \in {"retryable", "discarded", "completed"},
         state = "retryable" => queue[work[w].job].tries < MaxTries[feed],
         queue' = [queue EXCEPT ![work[w].job].state = state],
         TableInv', UNCHANGED <<feed, today, site>>
  PROVE  IngestInv'
<1> DEFINE job == work[w].job
<1>1. /\ \A other \in Workers : work'[other] = IF other = w THEN Resting ELSE work[other]
      /\ DOMAIN work' = Workers /\ IsFunc(work')
  BY DEF IngestInv, RunsInv, IsFunc
<1>2. RunsInv'
  BY <1>1, RestIsRight DEF IngestInv, RunsInv
<1>3. job \in DOMAIN queue
  BY DEF IngestInv, JobsInv
<1>4. queue \in [DOMAIN queue -> [state : States, requested : Days, tries : 0..MaxTries[feed]]]
  BY DEF IngestInv, QueueInv, IsJob, IsFunc
<1>5. /\ DOMAIN queue' = DOMAIN queue /\ IsFunc(queue')
      /\ \A j \in DOMAIN queue : j # job => queue'[j] = queue[j]
      /\ queue'[job].state = state /\ queue'[job].requested = queue[job].requested
      /\ queue'[job].tries = queue[job].tries
      /\ queue'[job] \in [state : States, requested : Days, tries : 0..MaxTries[feed]]
  BY <1>3, <1>4 DEF IsFunc, States
<1> HIDE DEF job
<1>6. QueueInv'
  BY <1>3, <1>5 DEF IngestInv, QueueInv, IsJob, job
<1>7. Resting.at = "idle"
  BY DEF Resting
<1>8. JobsInv'
  BY <1>1, <1>3, <1>5, <1>7 DEF IngestInv, JobsInv, job
<1>9. WorldInv'
  BY DEF IngestInv, WorldInv
<1> QED
  BY <1>2, <1>6, <1>8, <1>9 DEF IngestInv

(* A run begins, and its job is running. *)
LEMMA RunBegins ==
  ASSUME IngestInv, NEW w \in Workers, work[w].at = "idle", NEW job \in DOMAIN queue,
         queue[job].state \in {"available", "retryable"},
         queue' = [queue EXCEPT ![job] = [state |-> "running", requested |-> @.requested, tries |-> @.tries + 1]],
         NEW r, work' = [work EXCEPT ![w] = r], r.at # "idle", r.job = job, RunIsRight(feed, r),
         UNCHANGED <<feed, today, site, table>>
  PROVE  IngestInv'
<1>1. /\ \A other \in Workers : work'[other] = IF other = w THEN r ELSE work[other]
      /\ DOMAIN work' = Workers /\ IsFunc(work')
  BY DEF IngestInv, RunsInv, IsFunc
<1>2. RunsInv'
  BY <1>1 DEF IngestInv, RunsInv
<1>4. queue \in [DOMAIN queue -> [state : States, requested : Days, tries : 0..MaxTries[feed]]]
  BY DEF IngestInv, QueueInv, IsJob, IsFunc
<1>m. MaxTries[feed] \in Nat
  BY IngestAssumption DEF IngestInv, WorldInv
<1>n. queue[job].tries < MaxTries[feed] /\ queue[job].tries \in Nat
  BY <1>4, <1>m DEF IngestInv, QueueInv, IsJob
<1>5. /\ DOMAIN queue' = DOMAIN queue /\ IsFunc(queue')
      /\ \A j \in DOMAIN queue : j # job => queue'[j] = queue[j]
      /\ queue'[job].state = "running"
      /\ queue'[job] \in [state : States, requested : Days, tries : 0..MaxTries[feed]]
  <2> DEFINE new == [state |-> "running", requested |-> queue[job].requested, tries |-> queue[job].tries + 1]
  <2>1. new \in [state : States, requested : Days, tries : 0..MaxTries[feed]] /\ new.state = "running"
    BY <1>4, <1>m, <1>n DEF States
  <2>2. queue' = [queue EXCEPT ![job] = new]
    OBVIOUS
  <2> HIDE DEF new
  <2> QED
    BY <1>4, <2>1, <2>2 DEF IsFunc
<1>6. QueueInv'
  BY <1>5 DEF IngestInv, QueueInv, IsJob
<1>7. \A other \in Workers : work[other].at # "idle" => work[other].job # job
  BY DEF IngestInv, JobsInv
<1>8. JobsInv'
  BY <1>1, <1>5, <1>7 DEF IngestInv, JobsInv
<1>9. WorldInv' /\ TableInv'
  BY DEF IngestInv, WorldInv, TableInv
<1> QED
  BY <1>2, <1>6, <1>8, <1>9 DEF IngestInv

(* A failure ends a run. *)
LEMMA FailKeeps ==
  ASSUME IngestInv, NEW w \in Workers, Fail(w)
  PROVE  IngestInv'
<1> DEFINE state == IF queue[work[w].job].tries < MaxTries[feed] THEN "retryable" ELSE "discarded"
<1>1. /\ state \in {"retryable", "discarded", "completed"}
      /\ state = "retryable" => queue[work[w].job].tries < MaxTries[feed]
      /\ queue' = [queue EXCEPT ![work[w].job].state = state]
  BY DEF Fail
<1>2. /\ work[w].at # "idle" /\ work' = [work EXCEPT ![w] = Resting] /\ TableInv'
      /\ UNCHANGED <<feed, today, site>>
  BY DEF Fail, IngestInv, TableInv
<1> HIDE DEF state
<1> QED
  BY <1>1, <1>2, RunEnds

(* A run begins with nothing in hand but the games it lists. *)
Begins(job, games) == Run(IF feed = "weather" THEN "games" ELSE "fetch", job, job, <<>>, games, <<>>, NoRows)

(* What a start makes of the run. *)
LEMMA StartMakes ==
  ASSUME IngestInv, NEW w \in Workers, NEW job \in DOMAIN queue, Start(w, job)
  PROVE  \E games \in IF feed = "weather" THEN ListUpcomingWeatherGames(job, queue[job].requested) ELSE {<<>>} :
           work' = [work EXCEPT ![w] = Begins(job, games)]
<1> DEFINE to == IF feed = "weather" THEN "games" ELSE "fetch"
<1>0. PICK args \in Arguments(job) :
        \E games \in IF feed = "weather" THEN ListUpcomingWeatherGames(args, queue[job].requested) ELSE {<<>>} :
          work' = [work EXCEPT ![w] = [Resting EXCEPT !.at = IF feed = "weather" THEN "games" ELSE "fetch",
                                                      !.job = job, !.args = args, !.games = games]]
  BY Zenon DEF Start
<1>1. PICK games \in IF feed = "weather" THEN ListUpcomingWeatherGames(args, queue[job].requested) ELSE {<<>>} :
        work' = [work EXCEPT ![w] = [Resting EXCEPT !.at = to, !.job = job, !.args = args, !.games = games]]
  BY <1>0, Zenon
<1>2. args = job
  <2>1. feed \in Feeds /\ IsArgs(feed, job)
    BY DEF IngestInv, WorldInv, QueueInv, IsJob
  <2> QED
    BY <2>1, NormalizedOnce
<1>3. /\ IsRecord(Resting) /\ Resting.parts = <<>> /\ Resting.rows = <<>> /\ Resting.wrote = NoRows
  BY DEF Resting, IsRecord, Run
<1> HIDE DEF to, Resting
<1> DEFINE r == Run(to, job, job, <<>>, games, <<>>, NoRows)
<1>4. [Resting EXCEPT !.at = to, !.job = job, !.args = args, !.games = games] = r
  <2>1. IsRecord(Resting)
    BY <1>3
  <2>2. [Resting EXCEPT !.at = to, !.job = job, !.args = args, !.games = games] =
          Run(to, job, args, Resting.parts, games, Resting.rows, Resting.wrote)
    BY <2>1, BegunRun
  <2> QED
    BY <1>2, <1>3, <2>2, Zenon
<1>5. r = Begins(job, games)
  BY DEF Begins, to
<1> QED
  BY <1>1, <1>2, <1>4, <1>5, Zenon

(* It keeps the invariant. *)
LEMMA StartKeeps ==
  ASSUME IngestInv, NEW w \in Workers, NEW job \in DOMAIN queue, Start(w, job)
  PROVE  IngestInv'
<1> DEFINE to == IF feed = "weather" THEN "games" ELSE "fetch"
<1>1. PICK games \in IF feed = "weather" THEN ListUpcomingWeatherGames(job, queue[job].requested) ELSE {<<>>} :
        work' = [work EXCEPT ![w] = Begins(job, games)]
  BY StartMakes
<1> DEFINE r == Run(to, job, job, <<>>, games, <<>>, NoRows)
<1>4. Begins(job, games) = r
  BY DEF Begins
<1> HIDE DEF to
<1>5. /\ IsRecord(r) /\ r.at = to /\ r.job = job /\ r.args = job /\ r.parts = <<>>
      /\ r.games = games /\ r.rows = <<>> /\ r.wrote = NoRows
  BY FieldsOfRun
<1>6. work' = [work EXCEPT ![w] = r]
  BY <1>1, <1>4
<1> HIDE DEF r
<1>7. /\ to # "idle" /\ to \in {"idle", "fetch", "games", "write"}
      /\ IF feed = "weather" THEN to = "games" ELSE to = "fetch"
  BY DEF to
<1>8. DOMAIN NoRows = {} /\ IsFunc(NoRows)
  BY DEF NoRows, IsFunc
<1>9. IsSeq(<<>>) /\ Len(<<>>) = 0 /\ DOMAIN <<>> = {}
  BY EmptyIsSeq
<1>10. IsSeq(games) /\ (feed # "weather" => games = <<>>)
       /\ (feed = "weather" => \A i \in DOMAIN games : games[i] \in Fixtures)
       /\ (feed = "weather" =>
             \A i, j \in DOMAIN games : i < j => games[i] # games[j] /\ games[i].at <= games[j].at)
  <2>1. CASE feed # "weather"
    BY <1>9, <2>1
  <2>2. CASE feed = "weather"
    <3> DEFINE S == {g \in Fixtures : /\ g.sport \in SportsForRequest(job)
                                      /\ g.at >= WindowStart(job, queue[job].requested)
                                      /\ g.at < (job.date + 7) * Quarters}
    <3>1. games \in Orders(S) /\ \A i, j \in DOMAIN games : i < j => games[i].at <= games[j].at
      BY <2>2 DEF ListUpcomingWeatherGames
    <3>2. IsFiniteSet(S) /\ S \subseteq Fixtures
      BY IngestAssumption, FS_Subset
    <3> HIDE DEF S
    <3>3. /\ IsSeq(games) /\ \A i \in DOMAIN games : games[i] \in S
          /\ \A i, j \in DOMAIN games : i # j => games[i] # games[j]
      BY <3>1, <3>2, OrdersAreSeqs
    <3>4. DOMAIN games = 1..Len(games) /\ Len(games) \in Nat
      BY <3>3, SeqIsLong
    <3> QED
      BY <2>2, <3>1, <3>2, <3>3, <3>4
  <2> QED
    BY <2>1, <2>2
<1>11. IsRun(r) /\ HoldsRows(feed, r)
  BY <1>5, <1>7, <1>8, <1>9, <1>10 DEF IsRun, HoldsRows
<1>12. HoldsPages(feed, r)
  BY <1>5, <1>9 DEF HoldsPages
<1>13. feed = "weather" => GoesByTime(r)
  BY <1>5, <1>8, <1>9, <1>10 DEF GoesByTime
<1>14. RunIsRight(feed, r)
  BY <1>5, <1>7, <1>10, <1>11, <1>12, <1>13 DEF RunIsRight
<1>15. /\ work[w].at = "idle" /\ queue[job].state \in {"available", "retryable"}
       /\ queue' = [queue EXCEPT ![job] = [state |-> "running", requested |-> @.requested, tries |-> @.tries + 1]]
       /\ UNCHANGED <<feed, today, site, table>>
  BY DEF Start
<1> QED
  BY <1>5, <1>6, <1>7, <1>14, <1>15, RunBegins

(* A page that is fetched is of a day the job may have figures of.         *)
LEMMA PageIsDated ==
  ASSUME IngestInv, NEW w \in Workers, work[w].at = "fetch",
         NEW day, day = FetchDay(work[w].args)
  PROVE  site[day] \in DOMAIN Answers[feed] /\ Dated(feed, work[w].args, day)
<1>1. /\ work[w].job \in DOMAIN queue /\ work[w].args = work[w].job /\ feed # "weather"
  BY DEF IngestInv, JobsInv, RunsInv, RunIsRight, IsRun
<1>2. work[w].args.date \in Days
  BY <1>1 DEF IngestInv, QueueInv, IsJob, IsArgs
<1>3. NoneAhead => work[w].args.date <= today
  BY <1>1 DEF IngestInv, QueueInv
<1>4. today \in Days /\ site \in [Days -> DOMAIN Answers[feed]]
  BY DEF IngestInv, WorldInv
<1>5. today \in Nat /\ work[w].args.date \in Nat
  BY <1>2, <1>4, IngestAssumption DEF Days
<1> QED
  BY <1>2, <1>3, <1>4, <1>5 DEF FetchDay, Dated

(* A page is kept, or the last one makes rows. *)
LEMMA FetchKeeps ==
  ASSUME IngestInv, NEW w \in Workers, FetchPart(w)
  PROVE  IngestInv'
<1> DEFINE run == work[w]
           day == FetchDay(run.args)
           parts == Append(run.parts, [day |-> day, n |-> site[day]])
<1>1. /\ run.at = "fetch" /\ RunIsRight(feed, run) /\ IsRecord(run) /\ feed \in Feeds
  BY DEF FetchPart, IngestInv, RunsInv, RunIsRight, IsRun, WorldInv
<1>2. /\ IsSeq(run.parts) /\ IsSeq(run.games) /\ IsSeq(run.rows) /\ IsFunc(run.wrote)
      /\ run.args = run.job /\ run.rows = <<>> /\ run.wrote = NoRows /\ run.games = <<>>
      /\ feed # "weather" /\ HoldsPages(feed, run)
  BY <1>1 DEF RunIsRight, IsRun
<1>3. site[day] \in DOMAIN Answers[feed] /\ Dated(feed, run.args, day)
  BY <1>1, PageIsDated
<1> HIDE DEF day, run
<1>4. /\ IsSeq(parts) /\ Len(parts) = Len(run.parts) + 1 /\ Len(run.parts) \in Nat
      /\ \A i \in DOMAIN parts : parts[i].n \in DOMAIN Answers[feed] /\ Dated(feed, run.args, parts[i].day)
  <2> DEFINE page == [day |-> day, n |-> site[day]]
  <2>1. page.day = day /\ page.n = site[day]
    OBVIOUS
  <2>2. parts = Append(run.parts, page)
    OBVIOUS
  <2> HIDE DEF page
  <2>3. /\ IsSeq(parts) /\ Len(parts) = Len(run.parts) + 1 /\ Len(run.parts) \in Nat
        /\ DOMAIN parts = 1..Len(run.parts) + 1 /\ DOMAIN run.parts = 1..Len(run.parts)
        /\ \A i \in 1..Len(run.parts) + 1 : parts[i] = IF i <= Len(run.parts) THEN run.parts[i] ELSE page
    BY <1>2, <2>2, AppendToSeq, SeqIsLong
  <2> HIDE DEF parts
  <2>4. ASSUME NEW i \in DOMAIN parts
        PROVE  parts[i].n \in DOMAIN Answers[feed] /\ Dated(feed, run.args, parts[i].day)
    <3>1. CASE i <= Len(run.parts)
      <4>1. i \in DOMAIN run.parts /\ parts[i] = run.parts[i]
        BY <2>3, <2>4, <3>1
      <4> QED
        BY <1>2, <4>1 DEF HoldsPages
    <3>2. CASE ~(i <= Len(run.parts))
      <4>1. parts[i] = page
        BY <2>3, <2>4, <3>2
      <4> QED
        BY <1>3, <2>1, <4>1
    <3> QED
      BY <3>1, <3>2
  <2> QED
    BY <2>3, <2>4
<1>5. UNCHANGED <<feed, today, site, queue, table>> \/ Fail(w)
  BY DEF FetchPart
<1>6. run.job = work[w].job /\ work[w].at # "idle"
  BY <1>1 DEF run
<1>7. CASE Fail(w)
  BY <1>7, FailKeeps
<1>8. CASE Len(parts) # Parts /\ work' = [work EXCEPT ![w].parts = parts] /\ ~Fail(w)
  <2> DEFINE r == Run(run.at, run.job, run.args, parts, run.games, run.rows, run.wrote)
  <2>1. work' = [work EXCEPT ![w] = r]
    <3>1. work' = [work EXCEPT ![w] = [run EXCEPT !.parts = parts]]
      BY <1>8 DEF run
    <3> HIDE DEF parts
    <3>2. [run EXCEPT !.parts = parts] = r
      BY <1>1, SetField
    <3> QED
      BY <3>1, <3>2, Zenon
  <2> HIDE DEF parts
  <2>2. /\ IsRecord(r) /\ r.at = "fetch" /\ r.job = run.job /\ r.args = run.args /\ r.parts = parts
        /\ r.games = run.games /\ r.rows = run.rows /\ r.wrote = run.wrote
    BY <1>1, FieldsOfRun
  <2> HIDE DEF r
  <2>3. IsRun(r) /\ HoldsRows(feed, r)
    BY <1>1, <1>2, <1>4, <2>2 DEF RunIsRight, IsRun, HoldsRows
  <2>4. HoldsPages(feed, r)
    <3>1. Len(parts) < Parts
      BY <1>2, <1>4, <1>8 DEF HoldsPages, Parts
    <3> QED
      BY <1>4, <2>2, <3>1 DEF HoldsPages, Parts
  <2>5. RunIsRight(feed, r)
    BY <1>2, <2>2, <2>3, <2>4 DEF RunIsRight
  <2>6. r.at # "idle" /\ r.job = work[w].job /\ UNCHANGED <<feed, today, site, queue, table>>
    BY <1>5, <1>6, <1>8, <2>2
  <2> QED
    BY <1>6, <2>1, <2>5, <2>6, RunGoesOn
<1>9. ASSUME Len(parts) = Parts, ~Fail(w), NEW new \in Snapshots(run.args, parts),
             work' = [work EXCEPT ![w] = [@ EXCEPT !.at = "write", !.parts = <<>>, !.rows = new]]
      PROVE  IngestInv'
  <2> DEFINE days == {parts[i].day : i \in DOMAIN parts}
  <2>0. \A i \in DOMAIN parts : parts[i].day \in days
    OBVIOUS
  <2>a. \A d \in days : Dated(feed, run.args, d)
    BY <1>4
  <2> HIDE DEF days, parts
  <2>b. AreRows(new, run.args, days)
    BY <1>1, <1>2, <1>4, <1>9, <2>0, SnapshotsAreRows
  <2>c. IsSeq(new) /\ \A i \in DOMAIN new : IsRight(feed, run.args, new[i].key, new[i].row)
    BY <1>2, <2>a, <2>b DEF AreRows, IsRight
  <2> DEFINE r == Run("write", run.job, run.args, <<>>, run.games, new, run.wrote)
  <2>1. work' = [work EXCEPT ![w] = r]
    <3>1. work' = [work EXCEPT ![w] = [run EXCEPT !.at = "write", !.parts = <<>>, !.rows = new]]
      BY <1>9, Zenon DEF run
    <3>2. [run EXCEPT !.at = "write", !.parts = <<>>, !.rows = new] = r
      BY <1>1, FetchedRun
    <3> QED
      BY <3>1, <3>2, Zenon
  <2>2. /\ IsRecord(r) /\ r.at = "write" /\ r.job = run.job /\ r.args = run.args /\ r.parts = <<>>
        /\ r.games = run.games /\ r.rows = new /\ r.wrote = run.wrote
    BY FieldsOfRun
  <2> HIDE DEF r
  <2>3. IsSeq(<<>>)
    BY EmptyIsSeq
  <2>4. DOMAIN NoRows = {}
    BY DEF NoRows
  <2>5. IsRun(r) /\ HoldsRows(feed, r)
    BY <1>2, <2>c, <2>2, <2>3, <2>4 DEF IsRun, HoldsRows
  <2>6. RunIsRight(feed, r)
    BY <1>2, <2>2, <2>5 DEF RunIsRight
  <2>7. r.at # "idle" /\ r.job = work[w].job /\ UNCHANGED <<feed, today, site, queue, table>>
    BY <1>5, <1>6, <1>9, <2>2
  <2> QED
    BY <1>6, <2>1, <2>6, <2>7, RunGoesOn
<1> QED
  BY <1>7, <1>8, <1>9, Zenon DEF FetchPart, run, day

(* A game's row tells when the game starts. *)
LEMMA KeysTellStarts ==
  /\ \A game \in Fixtures : StartOf(WeatherKey(game)) = game.at /\ game.at \in Nat
  /\ \A game, other \in Fixtures : WeatherKey(game) = WeatherKey(other) => game = other
<1>1. ASSUME NEW game \in Fixtures PROVE StartOf(WeatherKey(game)) = game.at /\ game.at \in Nat
  <2>1. WeatherKey(game)[3] = game.id
    BY DEF WeatherKey
  <2>2. \A other \in Fixtures : other.id = game.id => other = game
    BY IngestAssumption
  <2>3. (CHOOSE g \in Fixtures : g.id = WeatherKey(game)[3]) = game
    BY <2>1, <2>2
  <2> QED
    BY <2>3, IngestAssumption DEF StartOf
<1>2. ASSUME NEW game \in Fixtures, NEW other \in Fixtures, WeatherKey(game) = WeatherKey(other)
      PROVE  game = other
  BY <1>2, IngestAssumption DEF WeatherKey
<1> QED
  BY <1>1, <1>2

(* A game makes one row, which is then at hand. *)
Lists(run, new) == Run("write", run.job, run.args, run.parts, Tail(run.games), <<new>>, run.wrote)

(* What a game makes of the run. *)
LEMMA GameMakes ==
  ASSUME IngestInv, NEW w \in Workers, NEW new,
         work' = [work EXCEPT ![w] = [@ EXCEPT !.at = "write", !.games = Tail(work[w].games), !.rows = <<new>>]]
  PROVE  work' = [work EXCEPT ![w] = Lists(work[w], new)]
<1> DEFINE run == work[w]
           rest == Tail(run.games)
           rows == <<new>>
<1>1. IsRecord(run)
  BY DEF IngestInv, RunsInv, RunIsRight, IsRun
<1> HIDE DEF run, rest, rows
<1>2. rest = Tail(work[w].games) /\ rows = <<new>> /\ run = work[w]
  BY Zenon DEF run, rest, rows
<1>3. work' = [work EXCEPT ![w] = [run EXCEPT !.at = "write", !.games = rest, !.rows = rows]]
  BY <1>2, Zenon
<1>4. [run EXCEPT !.at = "write", !.games = rest, !.rows = rows] =
        Run("write", run.job, run.args, run.parts, rest, rows, run.wrote)
  BY <1>1, ListedRun
<1> QED
  BY <1>2, <1>3, <1>4, Zenon DEF Lists

(* The next game is skipped, or makes the next row. *)
LEMMA NextGameKeeps ==
  ASSUME IngestInv, NEW w \in Workers, NextGame(w)
  PROVE  IngestInv'
<1> DEFINE run == work[w]
           rest == Tail(run.games)
           game == Head(run.games)
<1>1. /\ run.at = "games" /\ run.games # <<>> /\ RunIsRight(feed, run) /\ IsRecord(run) /\ feed \in Feeds
  BY DEF NextGame, IngestInv, RunsInv, RunIsRight, IsRun, WorldInv
<1>2. /\ IsSeq(run.parts) /\ IsSeq(run.games) /\ IsSeq(run.rows) /\ IsFunc(run.wrote)
      /\ run.args = run.job /\ run.rows = <<>> /\ feed = "weather" /\ GoesByTime(run)
  BY <1>1 DEF RunIsRight, IsRun
<1>3. run.job = work[w].job /\ work[w].at # "idle"
  BY <1>1
<1> HIDE DEF run
<1>4. /\ IsSeq(rest) /\ DOMAIN rest = 1..Len(run.games) - 1 /\ 1 \in DOMAIN run.games /\ game = run.games[1]
      /\ \A i \in DOMAIN rest : i + 1 \in DOMAIN run.games /\ rest[i] = run.games[i + 1]
      /\ DOMAIN run.games = 1..Len(run.games) /\ Len(run.games) \in Nat
  BY <1>1, <1>2, TailOfSeq, SeqIsLong
<1> HIDE DEF rest, game
<1>5. /\ \A i \in DOMAIN rest : rest[i] \in Fixtures
      /\ \A i, j \in DOMAIN rest : i < j => rest[i] # rest[j] /\ rest[i].at <= rest[j].at
      /\ \A i \in DOMAIN rest : game # rest[i] /\ game.at <= rest[i].at
      /\ \A i \in DOMAIN rest : \A key \in DOMAIN run.wrote :
           key # WeatherKey(rest[i]) /\ StartOf(key) <= rest[i].at
      /\ \A key \in DOMAIN run.wrote : key # WeatherKey(game) /\ StartOf(key) <= game.at
      /\ game \in Fixtures
  <2>1. \A i, j \in DOMAIN rest : i < j => i + 1 < j + 1
    BY <1>4
  <2>2. \A i \in DOMAIN rest : 1 < i + 1
    BY <1>4
  <2>3. \A i \in DOMAIN rest : rest[i] \in Fixtures
    BY <1>2, <1>4 DEF GoesByTime
  <2>4. ASSUME NEW i \in DOMAIN rest, NEW j \in DOMAIN rest, i < j
        PROVE  rest[i] # rest[j] /\ rest[i].at <= rest[j].at
    <3>1. i + 1 \in DOMAIN run.games /\ j + 1 \in DOMAIN run.games /\ i + 1 < j + 1
      BY <1>4, <2>1, <2>4
    <3>2. run.games[i + 1] # run.games[j + 1] /\ run.games[i + 1].at <= run.games[j + 1].at
      BY <1>2, <3>1 DEF GoesByTime
    <3> QED
      BY <1>4, <3>2
  <2>5. \A i \in DOMAIN rest : game # rest[i] /\ game.at <= rest[i].at
    BY <1>2, <1>4, <2>2 DEF GoesByTime
  <2>6. \A i \in DOMAIN rest : \A key \in DOMAIN run.wrote :
           key # WeatherKey(rest[i]) /\ StartOf(key) <= rest[i].at
    BY <1>2, <1>4 DEF GoesByTime
  <2>7. /\ \A key \in DOMAIN run.wrote : key # WeatherKey(game) /\ StartOf(key) <= game.at
        /\ game \in Fixtures
    BY <1>2, <1>4 DEF GoesByTime
  <2> QED
    BY <2>3, <2>4, <2>5, <2>6, <2>7
<1>6. IsSeq(<<>>) /\ Len(<<>>) = 0 /\ DOMAIN <<>> = {}
  BY EmptyIsSeq
<1>7. CASE Fail(w)
  BY <1>7, FailKeeps
<1>8. CASE work' = [work EXCEPT ![w].games = rest] /\ UNCHANGED <<feed, today, site, queue, table>>
  <2> DEFINE r == Run(run.at, run.job, run.args, run.parts, rest, run.rows, run.wrote)
  <2>1. work' = [work EXCEPT ![w] = r]
    <3>1. work' = [work EXCEPT ![w] = [run EXCEPT !.games = rest]]
      BY <1>8 DEF run
    <3>2. [run EXCEPT !.games = rest] = r
      BY <1>1, SetField
    <3> QED
      BY <3>1, <3>2, Zenon
  <2>2. /\ IsRecord(r) /\ r.at = "games" /\ r.job = run.job /\ r.args = run.args /\ r.parts = run.parts
        /\ r.games = rest /\ r.rows = <<>> /\ r.wrote = run.wrote
    BY <1>1, <1>2, FieldsOfRun
  <2> HIDE DEF r
  <2>3. IsRun(r) /\ HoldsRows(feed, r)
    BY <1>1, <1>2, <1>4, <1>6, <2>2 DEF RunIsRight, IsRun, HoldsRows
  <2>4. GoesByTime(r)
    BY <1>5, <1>6, <2>2 DEF GoesByTime
  <2>5. RunIsRight(feed, r)
    BY <1>2, <2>2, <2>3, <2>4 DEF RunIsRight
  <2> QED
    BY <1>3, <1>8, <2>1, <2>2, <2>5, RunGoesOn
<1>9. ASSUME NEW new \in WeatherRows(game), UNCHANGED <<feed, today, site, queue, table>>,
             work' = [work EXCEPT ![w] = [@ EXCEPT !.at = "write", !.games = Tail(work[w].games), !.rows = <<new>>]]
      PROVE  IngestInv'
  <2> DEFINE rows == <<new>>
             r == Run("write", run.job, run.args, run.parts, rest, rows, run.wrote)
  <2>0. /\ IsSeq(rows) /\ Len(rows) = 1 /\ DOMAIN rows = {1} /\ rows[1] = new
    BY OneIsSeq
  <2>a. new.key = WeatherKey(game) /\ IsNear(game, new.row.val[1])
    BY <1>2, <1>5, ForecastIsNear DEF IngestInv
  <2> HIDE DEF rows
  <2>1. work' = [work EXCEPT ![w] = r]
    <3>1. rest = Tail(work[w].games) /\ rows = <<new>> /\ run = work[w]
      BY Zenon DEF run, rest, rows
    <3>2. work' = [work EXCEPT ![w] = Lists(work[w], new)]
      BY <1>9, GameMakes
    <3> QED
      BY <3>1, <3>2, Zenon DEF Lists
  <2>2. /\ IsRecord(r) /\ r.at = "write" /\ r.job = run.job /\ r.args = run.args /\ r.parts = run.parts
        /\ r.games = rest /\ r.rows = rows /\ r.wrote = run.wrote
    BY FieldsOfRun
  <2> HIDE DEF r
  <2>3. IsRight(feed, run.args, new.key, new.row)
    BY <1>2, <1>5, <2>a DEF IsRight
  <2>4. IsRun(r) /\ HoldsRows(feed, r)
    BY <1>1, <1>2, <1>4, <2>0, <2>2, <2>3 DEF RunIsRight, IsRun, HoldsRows
  <2>5. GoesByTime(r)
    <3>1. StartOf(new.key) = game.at
      BY <1>5, <2>a, KeysTellStarts
    <3>2. \A i \in DOMAIN rest : new.key # WeatherKey(rest[i]) /\ StartOf(new.key) <= rest[i].at
      BY <1>5, <2>a, <3>1, KeysTellStarts
    <3>3. \A key \in DOMAIN run.wrote : key # new.key /\ StartOf(key) <= StartOf(new.key)
      BY <1>5, <2>a, <3>1
    <3>4. \A i \in DOMAIN rows : rows[i] = new
      BY <2>0
    <3>5. /\ \A i \in DOMAIN rest : \A j \in DOMAIN rows :
              rows[j].key # WeatherKey(rest[i]) /\ StartOf(rows[j].key) <= rest[i].at
          /\ \A i \in DOMAIN rows : \A key \in DOMAIN run.wrote :
              key # rows[i].key /\ StartOf(key) <= StartOf(rows[i].key)
      BY <3>2, <3>3, <3>4
    <3>6. Len(rows) <= 1
      BY <2>0
    <3> QED
      BY <1>5, <2>2, <3>5, <3>6 DEF GoesByTime
  <2>6. RunIsRight(feed, r)
    BY <1>2, <2>2, <2>4, <2>5 DEF RunIsRight
  <2> QED
    BY <1>3, <1>9, <2>1, <2>2, <2>6, RunGoesOn
<1>10. \/ Fail(w)
       \/ work' = [work EXCEPT ![w].games = rest] /\ UNCHANGED <<feed, today, site, queue, table>>
       \/ WriteGame(w)
  BY Zenon DEF NextGame, run, rest
<1>11. CASE WriteGame(w)
  <2>1. UNCHANGED <<feed, today, site, queue, table>>
    BY <1>11 DEF WriteGame
  <2>2. \E new \in WeatherRows(game) :
           work' = [work EXCEPT ![w] = [@ EXCEPT !.at = "write", !.games = Tail(work[w].games), !.rows = <<new>>]]
    BY <1>11, Zenon DEF WriteGame, run, game
  <2> QED
    BY <1>9, <2>1, <2>2, Zenon
<1> QED
  BY <1>7, <1>8, <1>10, <1>11

(* A row is put among others. *)
LEMMA PutAmong ==
  ASSUME NEW rows, IsFunc(rows), NEW key, NEW row, NEW more, more = Put(rows, key, row)
  PROVE  /\ IsFunc(more) /\ DOMAIN more = DOMAIN rows \cup {key} /\ more[key] = row
         /\ \A k \in DOMAIN rows : k # key => more[k] = rows[k]
BY DEF IsFunc, Put

(* The first row in hand is written. *)
Upserts(run) ==
  Run(IF feed = "weather" THEN "games" ELSE "write", run.job, run.args, run.parts, run.games, Tail(run.rows),
      Put(run.wrote, Head(run.rows).key, Head(run.rows).row))

(* What an upsert makes of the run. *)
LEMMA UpsertMakes ==
  ASSUME IngestInv, NEW w \in Workers, Upsert(w)
  PROVE  work' = [work EXCEPT ![w] = Upserts(work[w])]
<1> DEFINE run == work[w]
           rest == Tail(run.rows)
           top == Head(run.rows)
           to == IF feed = "weather" THEN "games" ELSE "write"
           new == Put(run.wrote, top.key, top.row)
           r == Run(to, run.job, run.args, run.parts, run.games, rest, new)
           left == RowsLeft(w)
<1>1. work' = [work EXCEPT ![w] = [left EXCEPT !.wrote = new]]
  BY Zenon DEF Upsert
<1>2. left = [run EXCEPT !.rows = rest, !.at = to]
  BY Zenon DEF RowsLeft
<1>3. IsRecord(run)
  BY DEF IngestInv, RunsInv, RunIsRight, IsRun
<1>4. r = Upserts(work[w])
  BY DEF Upserts
<1> HIDE DEF left, rest, to, new, run
<1>5. [run EXCEPT !.rows = rest, !.at = to] =
        Run(to, run.job, run.args, run.parts, run.games, rest, run.wrote)
  BY <1>3, UpsertedRun
<1>6. left = Run(to, run.job, run.args, run.parts, run.games, rest, run.wrote)
  BY <1>2, <1>5, Zenon
<1>7. /\ IsRecord(left) /\ left.at = to /\ left.job = run.job /\ left.args = run.args
      /\ left.parts = run.parts /\ left.games = run.games /\ left.rows = rest
  BY <1>6, FieldsOfRun
<1>8. [left EXCEPT !.wrote = new] =
        Run(left.at, left.job, left.args, left.parts, left.games, left.rows, new)
  BY <1>7, SetField
<1>9. [left EXCEPT !.wrote = new] = r
  BY <1>7, <1>8, Zenon
<1> QED
  BY <1>1, <1>4, <1>9, Zenon

(* It keeps the invariant. *)
LEMMA UpsertKeeps ==
  ASSUME IngestInv, NEW w \in Workers, Upsert(w)
  PROVE  IngestInv'
<1> DEFINE run == work[w]
           rest == Tail(run.rows)
           top == Head(run.rows)
           to == IF feed = "weather" THEN "games" ELSE "write"
           new == Put(run.wrote, top.key, top.row)
           r == Run(to, run.job, run.args, run.parts, run.games, rest, new)
<1>1. /\ run.at = "write" /\ run.rows # <<>> /\ RunIsRight(feed, run) /\ IsRecord(run) /\ feed \in Feeds
  BY DEF Upsert, IngestInv, RunsInv, RunIsRight, IsRun, WorldInv
<1>2. /\ IsSeq(run.parts) /\ IsSeq(run.games) /\ IsSeq(run.rows) /\ IsFunc(run.wrote)
      /\ run.args = run.job /\ HoldsRows(feed, run)
      /\ feed = "weather" => GoesByTime(run)
      /\ feed # "weather" => run.games = <<>>
  BY <1>1 DEF RunIsRight, IsRun
<1>3. run.job = work[w].job /\ work[w].at # "idle"
  BY <1>1
<1>4. work' = [work EXCEPT ![w] = r]
  BY UpsertMakes, Zenon DEF Upserts
<1>5. UNCHANGED <<feed, today, site, queue, table>>
  BY DEF Upsert
<1>6. to \in {"games", "write"} /\ (IF feed = "weather" THEN to = "games" ELSE to = "write")
  OBVIOUS
<1> HIDE DEF run, to
<1>7. /\ IsSeq(rest) /\ DOMAIN rest = 1..Len(run.rows) - 1 /\ 1 \in DOMAIN run.rows /\ top = run.rows[1]
      /\ \A i \in DOMAIN rest : i + 1 \in DOMAIN run.rows /\ rest[i] = run.rows[i + 1]
      /\ Len(run.rows) \in Nat /\ Len(run.rows) > 0 /\ Len(rest) = Len(run.rows) - 1
  BY <1>1, <1>2, TailOfSeq, SeqIsLong
<1> HIDE DEF rest, top
<1>8. /\ IsFunc(new) /\ DOMAIN new = DOMAIN run.wrote \cup {top.key} /\ new[top.key] = top.row
      /\ \A k \in DOMAIN run.wrote : k # top.key => new[k] = run.wrote[k]
  <2> DEFINE key == top.key
             row == top.row
             rows == run.wrote
  <2>1. IsFunc(rows) /\ new = Put(rows, key, row)
    BY <1>2
  <2> HIDE DEF new, key, row, rows
  <2>2. /\ IsFunc(new) /\ DOMAIN new = DOMAIN rows \cup {key} /\ new[key] = row
        /\ \A k \in DOMAIN rows : k # key => new[k] = rows[k]
    BY <2>1, PutAmong
  <2> QED
    BY <2>2 DEF key, row, rows
<1> HIDE DEF new
<1>9. /\ IsRecord(r) /\ r.at = to /\ r.job = run.job /\ r.args = run.args /\ r.parts = run.parts
      /\ r.games = run.games /\ r.rows = rest /\ r.wrote = new
  BY FieldsOfRun
<1> HIDE DEF r
<1>10. HoldsRows(feed, r)
  <2>1. \A i \in DOMAIN rest : IsRight(feed, run.args, rest[i].key, rest[i].row)
    BY <1>2, <1>7 DEF HoldsRows
  <2>2. IsRight(feed, run.args, top.key, top.row)
    BY <1>2, <1>7 DEF HoldsRows
  <2>3. \A k \in DOMAIN new : IsRight(feed, run.args, k, new[k])
    BY <1>2, <1>8, <2>2 DEF HoldsRows
  <2> QED
    BY <1>9, <2>1, <2>3 DEF HoldsRows
<1>11. IsRun(r)
  BY <1>2, <1>6, <1>7, <1>8, <1>9 DEF IsRun
<1>12. CASE feed = "weather"
  <2>1. Len(run.rows) <= 1
    BY <1>2, <1>12 DEF GoesByTime
  <2>2. DOMAIN rest = {} /\ Len(rest) = 0
    <3> DEFINE n == Len(run.rows)
    <3>a. n \in Nat /\ n > 0 /\ n <= 1
      BY <1>7, <2>1
    <3> HIDE DEF n
    <3>b. n = 1
      BY <3>a
    <3>1. Len(run.rows) = 1
      BY <3>b DEF n
    <3> QED
      BY <1>7, <3>1
  <2>3. rest = <<>>
    <3>1. rest = [i \in DOMAIN rest |-> rest[i]] /\ <<>> = [i \in {} |-> <<>>[i]]
      BY <1>7, SeqIsLong
    <3> QED
      BY <1>7, <2>2, EmptySeq DEF IsSeq
  <2>4. \A i \in DOMAIN run.games :
          /\ \A key \in DOMAIN run.wrote : key # WeatherKey(run.games[i]) /\ StartOf(key) <= run.games[i].at
          /\ top.key # WeatherKey(run.games[i]) /\ StartOf(top.key) <= run.games[i].at
    BY <1>2, <1>7, <1>12 DEF GoesByTime
  <2>5. GoesByTime(r)
    BY <1>2, <1>8, <1>9, <1>12, <2>2, <2>4 DEF GoesByTime
  <2> QED
    BY <1>3, <1>4, <1>5, <1>6, <1>9, <1>10, <1>11, <1>12, <2>3, <2>5, RunGoesOn DEF RunIsRight
<1>13. CASE feed # "weather"
  <2>1. RunIsRight(feed, r)
    BY <1>2, <1>6, <1>9, <1>10, <1>11, <1>13 DEF RunIsRight
  <2> QED
    BY <1>3, <1>4, <1>5, <1>6, <1>9, <1>13, <2>1, RunGoesOn
<1> QED
  BY <1>12, <1>13

(* What is committed was right in the transaction. *)
LEMMA CommitKeeps ==
  ASSUME IngestInv, NEW w \in Workers, Commit(w)
  PROVE  IngestInv'
<1> DEFINE wrote == work[w].wrote
<1>1. /\ work[w].at # "idle" /\ work' = [work EXCEPT ![w] = Resting]
      /\ queue' = [queue EXCEPT ![work[w].job].state = "completed"] /\ UNCHANGED <<feed, today, site>>
  BY DEF Commit
<1>2. /\ table' = [key \in DOMAIN table \cup DOMAIN wrote |->
                     IF key \in DOMAIN wrote THEN wrote[key] ELSE table[key]]
  BY Zenon DEF Commit
<1>3. \A key \in DOMAIN wrote : IsRight(feed, work[w].args, key, wrote[key])
  BY DEF IngestInv, RunsInv, RunIsRight, HoldsRows
<1>4. \A key \in DOMAIN table : IsRight(feed, key[2], key, table[key])
  BY DEF IngestInv, TableInv
<1> HIDE DEF wrote
<1>5. \A key \in DOMAIN wrote : IsRight(feed, key[2], key, wrote[key])
  BY <1>3 DEF IsRight
<1>6. IsFunc(table') /\ \A key \in DOMAIN table' : IsRight(feed, key[2], key, table'[key])
  BY <1>2, <1>4, <1>5 DEF IsFunc
<1>7. TableInv'
  BY <1>1, <1>6 DEF TableInv
<1> QED
  BY <1>1, <1>7, RunEnds

(* A job that is inserted is new. *)
LEMMA EnqueueKeeps ==
  ASSUME IngestInv, NEW req \in Requests[feed], Enqueue(req)
  PROVE  IngestInv'
<1>1. PICK args \in Arguments(req) : IsNewJob(args) /\ InsertJob(args)
  BY DEF Enqueue
<1>2. UNCHANGED <<feed, today, site, work, table>>
  BY DEF Enqueue
<1>3. feed \in Feeds /\ today \in Days
  BY DEF IngestInv, WorldInv
<1>4. IsArgs(feed, args) /\ args.date \in {req.date, today}
  BY <1>3, ArgumentsAreNormal
<1> DEFINE new == [state |-> "available", requested |-> today, tries |-> 0]
<1>5. queue' = Put(queue, args, new)
  BY <1>1 DEF InsertJob
<1>6. new.state = "available" /\ IsJob(feed, args, new)
  <2>1. MaxTries[feed] \in Nat \ {0}
    BY <1>3, IngestAssumption
  <2>2. new \in [state : States, requested : Days, tries : 0..MaxTries[feed]] /\ new.tries < MaxTries[feed]
    BY <1>3, <2>1 DEF States
  <2> QED
    BY <1>4, <2>2 DEF IsJob
<1> HIDE DEF new
<1>7. /\ IsFunc(queue') /\ DOMAIN queue' = DOMAIN queue \cup {args} /\ queue'[args] = new
      /\ \A job \in DOMAIN queue : job # args => queue'[job] = queue[job]
  <2> DEFINE more == queue'
             rows == queue
  <2>1. IsFunc(rows) /\ more = Put(rows, args, new)
    BY <1>5 DEF IngestInv, QueueInv
  <2> HIDE DEF more, rows
  <2>2. /\ IsFunc(more) /\ DOMAIN more = DOMAIN rows \cup {args} /\ more[args] = new
        /\ \A k \in DOMAIN rows : k # args => more[k] = rows[k]
    BY <2>1 DEF Put, IsFunc
  <2> QED
    BY <2>2 DEF more, rows
<1>8. NoneAhead /\ feed # "weather" => args.date <= today
  <2>1. today \in Nat /\ FirstDay \in Nat /\ FirstDay <= today
    BY <1>3, IngestAssumption DEF Days
  <2>2. req.date \in Nat
    BY <1>3, <2>1, IngestAssumption DEF Days
  <2>3. NoneAhead /\ feed # "weather" => req.date <= FirstDay
    BY <1>3 DEF NoneAhead
  <2> QED
    BY <1>4, <2>1, <2>2, <2>3
<1>9. QueueInv'
  BY <1>2, <1>6, <1>7, <1>8 DEF IngestInv, QueueInv
<1>10. \A w \in Workers : work[w].at # "idle" => work[w].job # args
  <2>1. args \in DOMAIN queue => queue[args].state # "running"
    BY <1>1 DEF IsNewJob
  <2> QED
    BY <2>1 DEF IngestInv, JobsInv
<1>11. JobsInv'
  BY <1>2, <1>6, <1>7, <1>10 DEF IngestInv, JobsInv
<1>12. WorldInv' /\ RunsInv' /\ TableInv'
  BY <1>2 DEF IngestInv, WorldInv, RunsInv, TableInv
<1> QED
  BY <1>9, <1>11, <1>12 DEF IngestInv

(* A job that is removed was not running. *)
LEMMA CleanKeeps ==
  ASSUME IngestInv, NEW args \in DOMAIN queue, CleanJob(args)
  PROVE  IngestInv'
<1>1. /\ queue[args].state # "running" /\ queue' = [a \in DOMAIN queue \ {args} |-> queue[a]]
      /\ UNCHANGED <<feed, today, site, work, table>>
  BY DEF CleanJob
<1>2. /\ IsFunc(queue') /\ DOMAIN queue' = DOMAIN queue \ {args}
      /\ \A job \in DOMAIN queue' : queue'[job] = queue[job]
  BY <1>1 DEF IsFunc
<1>3. QueueInv'
  BY <1>1, <1>2 DEF IngestInv, QueueInv
<1>4. \A w \in Workers : work[w].at # "idle" => work[w].job # args
  BY <1>1 DEF IngestInv, JobsInv
<1>5. JobsInv'
  BY <1>1, <1>2, <1>4 DEF IngestInv, JobsInv
<1>6. WorldInv' /\ RunsInv' /\ TableInv'
  BY <1>1 DEF IngestInv, WorldInv, RunsInv, TableInv
<1> QED
  BY <1>3, <1>5, <1>6 DEF IngestInv

(* Time passes and the site changes. *)
LEMMA WorldKeeps ==
  ASSUME IngestInv, DayPasses \/ \E n \in DOMAIN Answers[feed] : SiteMoves(n)
  PROVE  IngestInv'
<1>1. /\ today \in Days /\ site \in [Days -> DOMAIN Answers[feed]] /\ UNCHANGED <<feed, queue, work, table>>
      /\ today \in Nat /\ LastDay \in Nat /\ FirstDay \in Nat
  BY IngestAssumption DEF IngestInv, WorldInv, DayPasses, SiteMoves, Days
<1>2. today' \in Days /\ today' \in Nat /\ today <= today' /\ site' \in [Days -> DOMAIN Answers[feed]]
  <2>1. CASE DayPasses
    BY <1>1, <2>1 DEF DayPasses, Days
  <2>2. CASE \E n \in DOMAIN Answers[feed] : SiteMoves(n)
    BY <1>1, <2>2 DEF SiteMoves
  <2> QED
    BY <2>1, <2>2
<1>3. WorldInv'
  BY <1>1, <1>2 DEF IngestInv, WorldInv
<1>4. QueueInv'
  <2>1. \A job \in DOMAIN queue : job.date \in Nat
    <3>1. \A job \in DOMAIN queue : job.date \in Days
      BY DEF IngestInv, QueueInv, IsJob, IsArgs
    <3>2. \A day \in Days : day \in Nat
      BY <1>1 DEF Days
    <3> QED
      BY <3>1, <3>2
  <2>2. NoneAhead /\ feed # "weather" => \A job \in DOMAIN queue : job.date <= today'
    BY <1>1, <1>2, <2>1 DEF IngestInv, QueueInv
  <2> QED
    BY <1>1, <2>2 DEF IngestInv, QueueInv
<1>5. JobsInv' /\ RunsInv' /\ TableInv'
  BY <1>1 DEF IngestInv, JobsInv, RunsInv, TableInv
<1> QED
  BY <1>3, <1>4, <1>5 DEF IngestInv

(* Every step keeps the invariant ... *)
LEMMA IngestStep == IngestInv /\ [IngestNext]_ingestVars => IngestInv'
<1> SUFFICES ASSUME IngestInv, [IngestNext]_ingestVars PROVE IngestInv'
  OBVIOUS
<1>1. ASSUME NEW w \in Workers, Advance(w) PROVE IngestInv'
  BY <1>1, FetchKeeps, NextGameKeeps, UpsertKeeps, CommitKeeps DEF Advance
<1>2. CASE UNCHANGED ingestVars
  BY <1>2 DEF ingestVars, IngestInv, WorldInv, QueueInv, JobsInv, RunsInv, TableInv
<1>3. CASE IngestNext
  BY <1>1, <1>2, <1>3, WorldKeeps, EnqueueKeeps, CleanKeeps, StartKeeps, FailKeeps DEF IngestNext, NobodyAsks
<1> QED
  BY <1>2, <1>3

(* ... which therefore always holds. *)
LEMMA IngestIsRight == IngestSpec => []IngestInv
<1>1. IngestInit => IngestInv
  BY IngestInitially
<1> QED
  BY <1>1, IngestStep, PTL DEF IngestSpec

-----------------------------------------------------------------------------
(* A job is running exactly when one run works on it.                      *)
THEOREM IngestTypes == IngestSpec => []IngestTypeOK
<1>1. IngestInv => IngestTypeOK
  <2> SUFFICES ASSUME IngestInv PROVE IngestTypeOK
    OBVIOUS
  <2>1. feed \in Feeds /\ today \in Days
    BY DEF IngestInv, WorldInv
  <2>2. \A job \in DOMAIN queue :
          /\ queue[job].state \in States /\ queue[job].tries \in 0..MaxTries[feed] /\ queue[job].requested \in Days
          /\ queue[job].state = "running" <=> \E w \in Workers : work[w].at # "idle" /\ work[w].job = job
    BY DEF IngestInv, QueueInv, IsJob, JobsInv
  <2>3. /\ \A w \in Workers : work[w].at # "idle" => work[w].job \in DOMAIN queue
        /\ \A w, other \in Workers :
             work[w].at # "idle" /\ work[w].job = work[other].job /\ w # other => work[other].at = "idle"
    BY DEF IngestInv, JobsInv
  <2> QED
    BY <2>1, <2>2, <2>3 DEF IngestTypeOK
<1> QED
  BY <1>1, IngestIsRight, PTL

(* A run that waits has the row that another run at work has written.      *)
LEMMA WaitersAreAtWork ==
  ASSUME IngestInv, NEW w \in Workers, NEW other \in Workers, Waits(w, other)
  PROVE  /\ work[w].at # "idle" /\ work[other].at # "idle" /\ w # other
         /\ 1 \in DOMAIN work[w].rows /\ Head(work[w].rows) = work[w].rows[1]
         /\ work[w].rows[1].key \in DOMAIN work[other].wrote
<1>1. w # other /\ work[w].at = "write" /\ work[w].rows # <<>>
      /\ Head(work[w].rows).key \in DOMAIN work[other].wrote
  BY DEF Waits
<1>2. /\ IsSeq(work[w].rows) /\ (work[other].at = "idle" => work[other] = Resting)
  BY DEF IngestInv, RunsInv, RunIsRight, IsRun
<1>3. 1 \in DOMAIN work[w].rows /\ Head(work[w].rows) = work[w].rows[1]
  BY <1>1, <1>2, TailOfSeq
<1>4. DOMAIN Resting.wrote = {}
  BY DEF Resting, NoRows
<1> QED
  BY <1>1, <1>2, <1>3, <1>4

(* Two runs of statistics or injuries never want the same row: requests    *)
(* are normalised before jobs are told apart.                              *)
THEOREM RunsStayApart == IngestSpec => []RunsKeepApart
<1>1. IngestInv => RunsKeepApart
  <2> SUFFICES ASSUME IngestInv, feed # "weather", NEW w \in Workers, NEW other \in Workers, Waits(w, other)
               PROVE  FALSE
    BY DEF RunsKeepApart
  <2>1. /\ work[w].at # "idle" /\ work[other].at # "idle" /\ w # other
        /\ 1 \in DOMAIN work[w].rows /\ work[w].rows[1].key \in DOMAIN work[other].wrote
    BY WaitersAreAtWork
  <2>2. HoldsRows(feed, work[w]) /\ HoldsRows(feed, work[other])
    BY DEF IngestInv, RunsInv, RunIsRight
  <2>3. work[w].rows[1].key[2] = work[w].args /\ work[w].rows[1].key[2] = work[other].args
    BY <2>1, <2>2 DEF HoldsRows, IsRight
  <2>4. work[w].args = work[w].job /\ work[other].args = work[other].job
    BY <2>1 DEF IngestInv, RunsInv, RunIsRight, IsRun
  <2>5. work[w].job # work[other].job
    BY <2>1 DEF IngestInv, JobsInv
  <2> QED
    BY <2>3, <2>4, <2>5
<1> QED
  BY <1>1, IngestIsRight, PTL

(* Runs of weather, which share games, wait for each other only over games *)
(* that start at the same time: each goes by the time of its games.        *)
THEOREM OnlyTiesDeadlock == IngestSpec => []DeadlocksNeedTies
<1>1. IngestInv /\ RunsKeepApart => DeadlocksNeedTies
  <2> SUFFICES ASSUME IngestInv, RunsKeepApart, NEW w \in Workers, NEW other \in Workers,
                      Waits(w, other), Waits(other, w)
               PROVE  StartOf(Head(work[w].rows).key) = StartOf(Head(work[other].rows).key)
    BY DEF DeadlocksNeedTies
  <2>0. feed = "weather"
    BY DEF RunsKeepApart
  <2> DEFINE key == work[w].rows[1].key
             its == work[other].rows[1].key
  <2>1. /\ 1 \in DOMAIN work[w].rows /\ Head(work[w].rows) = work[w].rows[1]
        /\ key \in DOMAIN work[other].wrote
    BY WaitersAreAtWork
  <2>2. /\ 1 \in DOMAIN work[other].rows /\ Head(work[other].rows) = work[other].rows[1]
        /\ its \in DOMAIN work[w].wrote
    BY WaitersAreAtWork
  <2>3. /\ GoesByTime(work[w]) /\ HoldsRows(feed, work[w])
        /\ GoesByTime(work[other]) /\ HoldsRows(feed, work[other])
    BY <2>0 DEF IngestInv, RunsInv, RunIsRight
  <2>4. StartOf(its) <= StartOf(key) /\ StartOf(key) <= StartOf(its)
    BY <2>1, <2>2, <2>3 DEF GoesByTime
  <2>5. (\E game \in Fixtures : key = WeatherKey(game)) /\ (\E game \in Fixtures : its = WeatherKey(game))
    BY <2>0, <2>1, <2>2, <2>3 DEF HoldsRows, IsRight
  <2>6. StartOf(key) \in Nat /\ StartOf(its) \in Nat
    BY <2>5, KeysTellStarts
  <2>7. StartOf(key) = StartOf(its)
    BY <2>4, <2>6
  <2> QED
    BY <2>1, <2>2, <2>7
<1>2. IngestSpec => []RunsKeepApart
  BY RunsStayApart
<1> QED
  BY <1>1, <1>2, IngestIsRight, PTL

-----------------------------------------------------------------------------
(* The months of a season: one season through the window of a league.      *)
LEMMA OneSeasonAWindow == \A league \in Leagues : SplitsNoWindow[league]
<1> SUFFICES ASSUME NEW league \in Leagues, NEW day \in 0..718,
                    InWindow(Windows[league], day), InWindow(Windows[league], day + 1)
             PROVE  Inferred(league, day) = Inferred(league, day + 1)
  BY DEF SplitsNoWindow
<1> DEFINE y == day \div 360
           d == day % 360
           m == d \div 30
           e == day % 30
<1>1. day \in Nat /\ y \in Nat /\ d \in 0..359 /\ m \in 0..11 /\ e \in 0..29
      /\ day = 360 * y + d /\ d = 30 * m + e
  OBVIOUS
<1>2. Year(day) = 2 + y /\ Month(day) = m + 1
  BY DEF Year, Month
<1>3. /\ d < 359 => (day + 1) \div 360 = y /\ (day + 1) % 360 = d + 1
      /\ d = 359 => (day + 1) \div 360 = y + 1 /\ (day + 1) % 360 = 0
  BY <1>1
<1>4. /\ e < 29 => (d + 1) \div 30 = m
      /\ e = 29 => (d + 1) \div 30 = m + 1
      /\ e < 29 => (day + 1) % 30 = e + 1
      /\ e = 29 => (day + 1) % 30 = 0
  BY <1>1
<1> DEFINE y2 == (day + 1) \div 360
           m2 == Month(day + 1) - 1
           e2 == (day + 1) % 30
<1>5. /\ Year(day + 1) = 2 + y2 /\ Month(day + 1) = m2 + 1
      /\ \/ y2 = y /\ m2 = m /\ e2 = e + 1
         \/ y2 = y /\ m2 = m + 1 /\ e2 = 0
         \/ y2 = y + 1 /\ m2 = 0 /\ e2 = 0 /\ m = 11
  <2>1. Month(day + 1) = ((day + 1) % 360) \div 30 + 1 /\ Year(day + 1) = 2 + y2
    BY DEF Year, Month
  <2>2. CASE d < 359
    <3>1. y2 = y /\ m2 = (d + 1) \div 30
      BY <1>1, <1>3, <2>1, <2>2
    <3> QED
      BY <1>1, <1>4, <2>1, <3>1
  <2>3. CASE d = 359
    <3>1. y2 = y + 1 /\ m2 = 0 /\ m = 11 /\ e = 29
      BY <1>1, <1>3, <2>1, <2>3
    <3> QED
      BY <1>4, <2>1, <3>1
  <2> QED
    BY <1>1, <2>2, <2>3
<1>6. m2 \in Int /\ y2 \in Int /\ e2 \in Int
  BY <1>1, <1>5
<1> DEFINE first == Windows[league][1]
           last == Windows[league][2]
<1>7. /\ first = (IF league = "mlb" THEN 301 ELSE IF league = "nfl" THEN 801 ELSE 1001)
      /\ last = (IF league = "mlb" THEN 1115 ELSE IF league = "nfl" THEN 220 ELSE 630)
  BY DEF Windows, Leagues
<1> DEFINE In(date) == IF first <= last THEN first <= date /\ date <= last ELSE first <= date \/ date <= last
<1>8. In((m + 1) * 100 + e + 1) /\ In((m2 + 1) * 100 + e2 + 1)
  BY <1>2, <1>5 DEF InWindow
<1> HIDE DEF first, last, y, d, m, e, y2, m2, e2
<1>9. CASE league = "mlb"
  <2>1. y2 = y
    BY <1>1, <1>5, <1>6, <1>7, <1>8, <1>9
  <2> QED
    BY <1>2, <1>5, <1>9, <2>1 DEF Inferred
<1>10. CASE league = "nba"
  <2>1. (y2 = y /\ (m >= 6 <=> m2 >= 6)) \/ (y2 = y + 1 /\ m >= 6 /\ m2 < 6)
    BY <1>1, <1>5, <1>6, <1>7, <1>8, <1>10
  <2> QED
    BY <1>1, <1>2, <1>5, <1>6, <1>10, <2>1 DEF Inferred, InferNBASeason
<1>11. CASE league = "nhl"
  <2>1. (y2 = y /\ (m >= 6 <=> m2 >= 6)) \/ (y2 = y + 1 /\ m >= 6 /\ m2 < 6)
    BY <1>1, <1>5, <1>6, <1>7, <1>8, <1>11
  <2> QED
    BY <1>1, <1>2, <1>5, <1>6, <1>11, <2>1 DEF Inferred, InferNHLSeason
<1>12. CASE league = "nfl"
  <2>1. (y2 = y /\ (m >= 6 <=> m2 >= 6)) \/ (y2 = y + 1 /\ m >= 6 /\ m2 < 6)
    BY <1>1, <1>5, <1>6, <1>7, <1>8, <1>12
  <2> QED
    BY <1>1, <1>2, <1>5, <1>6, <1>12, <2>1 DEF Inferred, InferNFLSeason
<1> QED
  BY <1>9, <1>10, <1>11, <1>12 DEF Leagues

(* Figures are of no earlier day than they are filed under, forecasts of   *)
(* the hour of the start, and the season of a league's window is one: as   *)
(* long as no statistics are asked for ahead of their day.                 *)
THEOREM DatesAreRight == ASSUME NoneAhead PROVE IngestSpec => []RightlyDated
<1>1. IngestInv => FiguresAreDated
  <2> SUFFICES ASSUME IngestInv, feed # "weather", NEW key \in DOMAIN table
               PROVE  IF feed = "nhl" THEN table[key].day = key[2].date ELSE table[key].day >= key[2].date
    BY DEF FiguresAreDated
  <2>1. IsRight(feed, key[2], key, table[key])
    BY DEF IngestInv, TableInv
  <2> QED
    BY <2>1, NoneAhead DEF IsRight, Dated
<1>2. SeasonsSplitNoWindow
  BY OneSeasonAWindow DEF SeasonsSplitNoWindow
<1>3. IngestInv => ForecastNearStart
  <2> SUFFICES ASSUME IngestInv, feed = "weather", NEW key \in DOMAIN table
               PROVE  LET game == CHOOSE g \in Fixtures : g.id = key[3]
                          hour == table[key].val[1]
                          late == game.at % Quarters >= Quarters - 2 /\ IsOutdoor(game)
                      IN  IF late THEN 4 * hour <= game.at /\ game.at - 4 * hour < 4
                          ELSE 4 * hour - game.at \in -1..2
    BY DEF ForecastNearStart
  <2>1. PICK game \in Fixtures : key = WeatherKey(game) /\ IsNear(game, table[key].val[1])
    BY DEF IngestInv, TableInv, IsRight
  <2>2. key[3] = game.id
    BY <2>1 DEF WeatherKey
  <2>3. \A g \in Fixtures : g.id = game.id => g = game
    BY IngestAssumption
  <2>4. (CHOOSE g \in Fixtures : g.id = key[3]) = game
    BY <2>2, <2>3
  <2> QED
    BY <2>1, <2>4 DEF IsNear
<1>4. IngestInv => RightlyDated
  BY <1>1, <1>2, <1>3 DEF RightlyDated
<1> QED
  BY <1>4, IngestIsRight, PTL

-----------------------------------------------------------------------------
(* What a run has gathered, in its transaction and in hand.                *)
InHand(run, key) == {i \in DOMAIN run.rows : run.rows[i].key = key}
IsLastIn(i, places) == i \in places /\ \A j \in places : j <= i

Gathers(run) ==
  [key \in DOMAIN run.wrote \cup {run.rows[i].key : i \in DOMAIN run.rows} |->
     IF InHand(run, key) = {} THEN run.wrote[key]
     ELSE run.rows[CHOOSE i \in InHand(run, key) : \A j \in InHand(run, key) : j <= i].row]

(* This is what the contract is told. *)
LEMMA GatheredIsGathers == \A w \in Workers : GatheredBy(w) = Gathers(work[w])
BY DEF GatheredBy, Gathers, InHand

(* It is a function. *)
LEMMA GathersIsFunc == \A run : IsFunc(Gathers(run))
<1> TAKE run
<1> DEFINE Gathered(key) == IF InHand(run, key) = {} THEN run.wrote[key]
                            ELSE run.rows[CHOOSE i \in InHand(run, key) : \A j \in InHand(run, key) : j <= i].row
<1>1. Gathers(run) = [key \in DOMAIN run.wrote \cup {run.rows[i].key : i \in DOMAIN run.rows} |-> Gathered(key)]
  BY DEF Gathers
<1> HIDE DEF Gathered
<1> QED
  BY <1>1 DEF IsFunc

(* Of some places one is the last. *)
LEMMA LastPlace ==
  ASSUME NEW n \in Nat, NEW places \in SUBSET (1..n), places # {}
  PROVE  /\ \E i \in places : \A j \in places : j <= i
         /\ \A i : IsLastIn(i, places) => (CHOOSE k \in places : \A j \in places : j <= k) = i
<1> DEFINE before == {p \in (1..n) \X (1..n) : p[2] <= p[1]}
<1>1. LinearOn(before, 1..n)
  BY DEF LinearOn
<1>2. IsFiniteSet(1..n)
  BY FS_Interval
<1>3. \E i \in places : \A j \in places : <<i, j>> \in before
  <2> HIDE DEF before
  <2> QED
    BY <1>1, <1>2, FirstExists
<1>4. \E i \in places : \A j \in places : j <= i
  BY <1>3
<1>5. ASSUME NEW i, IsLastIn(i, places)
      PROVE  (CHOOSE k \in places : \A j \in places : j <= k) = i
  <2>1. i \in places /\ \A j \in places : j <= i
    BY <1>5 DEF IsLastIn
  <2>2. \A k \in places : (\A j \in places : j <= k) => k = i
    BY <2>1
  <2> QED
    BY <2>1, <2>2
<1> QED
  BY <1>4, <1>5

(* A gathered row is the last in hand, or the one that was written. *)
LEMMA GathersLast ==
  ASSUME NEW run, IsSeq(run.rows), NEW key \in DOMAIN Gathers(run)
  PROVE  /\ InHand(run, key) = {} => Gathers(run)[key] = run.wrote[key]
         /\ \A i : IsLastIn(i, InHand(run, key)) => Gathers(run)[key] = run.rows[i].row
         /\ InHand(run, key) # {} => \E i \in InHand(run, key) : IsLastIn(i, InHand(run, key))
<1> DEFINE hand == InHand(run, key)
           last == CHOOSE i \in hand : \A j \in hand : j <= i
<1>1. Gathers(run)[key] = IF hand = {} THEN run.wrote[key] ELSE run.rows[last].row
  BY DEF Gathers
<1>2. Len(run.rows) \in Nat /\ hand \in SUBSET (1..Len(run.rows))
  BY SeqIsLong DEF InHand
<1>3. hand # {} => /\ \E i \in hand : \A j \in hand : j <= i
                   /\ \A i : IsLastIn(i, hand) => last = i
  <2> DEFINE n == Len(run.rows)
  <2>1. n \in Nat /\ hand \in SUBSET (1..n)
    BY <1>2
  <2> HIDE DEF n, hand
  <2> QED
    BY <2>1, LastPlace
<1> HIDE DEF hand, last
<1>4. hand = {} => Gathers(run)[key] = run.wrote[key]
  BY <1>1
<1>5. ASSUME NEW i, IsLastIn(i, hand) PROVE Gathers(run)[key] = run.rows[i].row
  <2>1. hand # {}
    BY <1>5 DEF IsLastIn
  <2>2. last = i
    BY <1>3, <1>5, <2>1
  <2> QED
    BY <1>1, <2>1, <2>2
<1>6. hand # {} => \E i \in hand : IsLastIn(i, hand)
  BY <1>3 DEF IsLastIn
<1> QED
  BY <1>4, <1>5, <1>6 DEF hand

(* With no row in hand, what was written is what is gathered. *)
LEMMA GathersWritten ==
  ASSUME NEW run, DOMAIN run.rows = {}, IsFunc(run.wrote)
  PROVE  Gathers(run) = run.wrote
<1>1. \A key : InHand(run, key) = {}
  BY DEF InHand
<1>2. Gathers(run) = [key \in DOMAIN run.wrote |-> run.wrote[key]]
  BY <1>1 DEF Gathers
<1> QED
  BY <1>2 DEF IsFunc

(* The first row in hand is written, and gathered as before: where its key *)
(* comes again in hand that row is what is gathered, before and after.     *)
LEMMA UpsertGathersNothing ==
  ASSUME NEW run, NEW r, IsSeq(run.rows), run.rows # <<>>, IsFunc(run.wrote), r.rows = Tail(run.rows),
         r.wrote = Put(run.wrote, Head(run.rows).key, Head(run.rows).row)
  PROVE  Gathers(r) = Gathers(run)
<1> DEFINE top == run.rows[1]
           n == Len(run.rows)
<1>1. /\ IsSeq(r.rows) /\ n \in Nat /\ n > 0 /\ DOMAIN run.rows = 1..n /\ Head(run.rows) = top
      /\ DOMAIN r.rows = 1..n - 1
      /\ \A i \in DOMAIN r.rows : i + 1 \in DOMAIN run.rows /\ r.rows[i] = run.rows[i + 1]
  BY TailOfSeq, SeqIsLong
<1>2. r.wrote = Put(run.wrote, top.key, top.row)
  BY <1>1
<1> HIDE DEF top, n
<1>3. /\ DOMAIN r.wrote = DOMAIN run.wrote \cup {top.key} /\ r.wrote[top.key] = top.row
      /\ \A k \in DOMAIN run.wrote : k # top.key => r.wrote[k] = run.wrote[k]
  BY <1>2 DEF Put, IsFunc
<1>4. \A i \in DOMAIN run.rows : i = 1 \/ (i - 1 \in DOMAIN r.rows /\ run.rows[i] = r.rows[i - 1])
  <2> SUFFICES ASSUME NEW i \in DOMAIN run.rows, i # 1
               PROVE  i - 1 \in DOMAIN r.rows /\ run.rows[i] = r.rows[i - 1]
    OBVIOUS
  <2>1. i \in Int /\ i - 1 \in 1..n - 1 /\ (i - 1) + 1 = i
    BY <1>1
  <2> QED
    BY <1>1, <2>1
<1>5. 1 \in DOMAIN run.rows /\ run.rows[1] = top
  BY <1>1 DEF top
<1>6. DOMAIN Gathers(r) = DOMAIN r.wrote \cup {r.rows[i].key : i \in DOMAIN r.rows}
  BY DEF Gathers
<1>7. DOMAIN Gathers(run) = DOMAIN run.wrote \cup {run.rows[i].key : i \in DOMAIN run.rows}
  BY DEF Gathers
<1>8. DOMAIN Gathers(r) = DOMAIN Gathers(run)
  <2>1. \A k \in DOMAIN Gathers(r) : k \in DOMAIN Gathers(run)
    BY <1>1, <1>3, <1>5, <1>6, <1>7
  <2>2. ASSUME NEW k \in DOMAIN Gathers(run) PROVE k \in DOMAIN Gathers(r)
    <3>1. CASE k \in DOMAIN run.wrote
      BY <1>3, <1>6, <3>1
    <3>2. ASSUME NEW i \in DOMAIN run.rows, k = run.rows[i].key PROVE k \in DOMAIN Gathers(r)
      BY <1>3, <1>4, <1>5, <1>6, <3>2
    <3> QED
      BY <1>7, <3>1, <3>2
  <2> QED
    BY <2>1, <2>2
<1>9. ASSUME NEW key \in DOMAIN Gathers(r)
      PROVE  Gathers(r)[key] = Gathers(run)[key]
  <2>1. key \in DOMAIN Gathers(run)
    BY <1>8
  <2>2. \A i \in InHand(r, key) : i + 1 \in InHand(run, key)
    BY <1>1 DEF InHand
  <2>3. \A i \in InHand(run, key) : i = 1 \/ i - 1 \in InHand(r, key)
    BY <1>4 DEF InHand
  <2>4. \A i \in InHand(run, key) : i \in Int
    BY <1>1 DEF InHand
  <2>5. \A i \in InHand(r, key) : i \in Int /\ i >= 1
    BY <1>1 DEF InHand
  <2>6. CASE InHand(r, key) # {}
    <3>1. PICK i \in InHand(r, key) : IsLastIn(i, InHand(r, key))
      BY <1>1, <2>6, GathersLast
    <3>2. IsLastIn(i + 1, InHand(run, key))
      <4>1. i + 1 \in InHand(run, key)
        BY <2>2
      <4>2. ASSUME NEW j \in InHand(run, key) PROVE j <= i + 1
        <5>1. j = 1 \/ j - 1 <= i
          BY <2>3, <3>1 DEF IsLastIn
        <5> QED
          BY <2>4, <2>5, <5>1
      <4> QED
        BY <4>1, <4>2 DEF IsLastIn
    <3>3. Gathers(r)[key] = r.rows[i].row
      BY <1>1, <3>1, GathersLast
    <3>4. Gathers(run)[key] = run.rows[i + 1].row
      BY <2>1, <3>2, GathersLast
    <3>5. i \in DOMAIN r.rows
      BY DEF InHand
    <3> QED
      BY <1>1, <3>3, <3>4, <3>5
  <2>7. CASE InHand(r, key) = {} /\ key = top.key
    <3>1. IsLastIn(1, InHand(run, key))
      <4>1. 1 \in InHand(run, key)
        BY <1>5, <2>7 DEF InHand
      <4>2. \A j \in InHand(run, key) : j = 1
        BY <2>3, <2>7
      <4> QED
        BY <4>1, <4>2 DEF IsLastIn
    <3>2. Gathers(run)[key] = top.row
      BY <1>5, <2>1, <3>1, GathersLast
    <3>3. Gathers(r)[key] = r.wrote[key]
      BY <1>1, <2>7, GathersLast
    <3> QED
      BY <1>3, <2>7, <3>2, <3>3
  <2>8. CASE InHand(r, key) = {} /\ key # top.key
    <3>1. InHand(run, key) = {}
      BY <1>5, <2>3, <2>8 DEF InHand
    <3>2. Gathers(run)[key] = run.wrote[key]
      BY <2>1, <3>1, GathersLast
    <3>3. Gathers(r)[key] = r.wrote[key]
      BY <1>1, <2>8, GathersLast
    <3>4. key \in DOMAIN run.wrote
      BY <1>7, <2>1, <3>1 DEF InHand
    <3> QED
      BY <1>3, <2>8, <3>2, <3>3, <3>4
  <2> QED
    BY <2>6, <2>7, <2>8
<1>10. /\ Gathers(r) = [key \in DOMAIN Gathers(r) |-> Gathers(r)[key]]
       /\ Gathers(run) = [key \in DOMAIN Gathers(run) |-> Gathers(run)[key]]
  BY GathersIsFunc DEF IsFunc
<1> QED
  BY <1>8, <1>9, <1>10

-----------------------------------------------------------------------------
(* Imports reach the table all at once or never.                           *)
Gathered == [w \in Workers |-> GatheredBy(w)]
Stutters == UNCHANGED <<table, Gathered>>

(* A step of one run. *)
LEMMA OneGathers ==
  ASSUME IngestInv, NEW w \in Workers, NEW r, work' = [work EXCEPT ![w] = r]
  PROVE  /\ Gathered' = [Gathered EXCEPT ![w] = Gathers(r)]
         /\ Gathered' = [Gathered EXCEPT ![w] = Gathered'[w]]
         /\ Gathered'[w] = Gathers(r) /\ Gathered[w] = Gathers(work[w])
         /\ Gathers(r) = Gathers(work[w]) => Gathered' = Gathered
<1>1. \A other \in Workers : work'[other] = IF other = w THEN r ELSE work[other]
  BY DEF IngestInv, RunsInv
<1>2. /\ \A other \in Workers : GatheredBy(other) = Gathers(work[other])
      /\ \A other \in Workers : GatheredBy(other)' = Gathers(work'[other])
  BY Zenon DEF GatheredBy, Gathers, InHand
<1>3. /\ Gathered = [other \in Workers |-> Gathers(work[other])]
      /\ Gathered' = [other \in Workers |-> Gathers(work'[other])]
  BY <1>2 DEF Gathered
<1>4. Gathered' = [other \in Workers |-> IF other = w THEN Gathers(r) ELSE Gathered[other]]
  BY <1>1, <1>3
<1>5. Gathered = [other \in Workers |-> Gathered[other]] /\ Gathered[w] = Gathers(work[w])
  BY <1>3
<1> HIDE DEF Gathered
<1> QED
  BY <1>4, <1>5

(* At rest nothing is gathered. *)
LEMMA RestGathersNothing == Gathers(Resting) = Contract!Nothing
<1>1. DOMAIN Resting.rows = {} /\ IsFunc(Resting.wrote) /\ Resting.wrote = NoRows
  BY EmptyIsSeq DEF Resting, NoRows, IsFunc
<1> HIDE DEF Resting
<1>2. Gathers(Resting) = NoRows
  BY <1>1, GathersWritten
<1> QED
  BY <1>2 DEF NoRows, Contract!Nothing

(* A failure abandons what was gathered. *)
LEMMA FailAbandons ==
  ASSUME IngestInv, NEW w \in Workers, Fail(w)
  PROVE  Contract!Abandon(w)
<1>1. work' = [work EXCEPT ![w] = Resting] /\ UNCHANGED table
  BY DEF Fail
<1>2. Gathered' = [Gathered EXCEPT ![w] = Contract!Nothing]
  BY <1>1, OneGathers, RestGathersNothing
<1> QED
  BY <1>1, <1>2 DEF Contract!Abandon, Gathered

(* A start gathers nothing. *)
LEMMA StartStutters ==
  ASSUME IngestInv, NEW w \in Workers, NEW job \in DOMAIN queue, Start(w, job)
  PROVE  Stutters
<1>1. PICK games : work' = [work EXCEPT ![w] = Begins(job, games)]
  BY StartMakes
<1> DEFINE r == Begins(job, games)
<1>2. work[w].at = "idle" /\ UNCHANGED table
  BY DEF Start
<1>3. work[w] = Resting
  BY <1>2 DEF IngestInv, RunsInv, RunIsRight, IsRun
<1>4. r.rows = <<>> /\ r.wrote = NoRows
  BY FieldsOfRun DEF Begins
<1>5. DOMAIN r.rows = {} /\ IsFunc(r.wrote)
  BY <1>4, EmptyIsSeq DEF NoRows, IsFunc
<1> HIDE DEF r
<1>6. Gathers(r) = NoRows
  BY <1>4, <1>5, GathersWritten
<1>7. NoRows = Contract!Nothing
  BY DEF NoRows, Contract!Nothing
<1>8. Gathers(r) = Gathers(work[w]) /\ work' = [work EXCEPT ![w] = r]
  BY <1>1, <1>3, <1>6, <1>7, RestGathersNothing DEF r
<1> QED
  BY <1>2, <1>8, OneGathers DEF Stutters

(* What is gathered more is gathered out of sight. *)
LEMMA MoreIsGathered ==
  ASSUME IngestInv, NEW w \in Workers, NEW r, work' = [work EXCEPT ![w] = r], UNCHANGED table,
         \A key \in DOMAIN Gathers(work[w]) : key \in DOMAIN Gathers(r) /\ Gathers(r)[key] = Gathers(work[w])[key]
  PROVE  Contract!Gather(w)
<1>1. /\ Gathered' = [Gathered EXCEPT ![w] = Gathered'[w]]
      /\ Gathered'[w] = Gathers(r) /\ Gathered[w] = Gathers(work[w])
  BY OneGathers
<1>2. \A key \in DOMAIN Gathered[w] : key \in DOMAIN Gathered'[w] /\ Gathered'[w][key] = Gathered[w][key]
  BY <1>1
<1> QED
  BY <1>1, <1>2 DEF Contract!Gather, Gathered

(* A page, or the rows of the last one, or its failure. *)
LEMMA FetchGathers ==
  ASSUME IngestInv, NEW w \in Workers, FetchPart(w)
  PROVE  Contract!Gather(w) \/ Contract!Abandon(w)
<1>1. CASE Fail(w)
  BY <1>1, FailAbandons
<1>2. CASE ~Fail(w)
  <2>1. PICK r : work' = [work EXCEPT ![w] = r]
    BY <1>2, Zenon DEF FetchPart
  <2>2. UNCHANGED table
    BY <1>2 DEF FetchPart
  <2>3. work[w].rows = <<>> /\ work[w].wrote = NoRows
    BY DEF FetchPart, IngestInv, RunsInv, RunIsRight
  <2>4. DOMAIN work[w].rows = {} /\ IsFunc(work[w].wrote) /\ DOMAIN NoRows = {}
    BY <2>3, EmptyIsSeq DEF NoRows, IsFunc
  <2>5. Gathers(work[w]) = NoRows
    BY <2>3, <2>4, GathersWritten
  <2>6. Contract!Gather(w)
    BY <2>1, <2>2, <2>4, <2>5, MoreIsGathered
  <2> QED
    BY <2>6
<1> QED
  BY <1>1, <1>2

(* The row of a game is in no transaction of the run yet. *)
LEMMA NextGameGathers ==
  ASSUME IngestInv, NEW w \in Workers, NextGame(w)
  PROVE  Contract!Gather(w) \/ Contract!Abandon(w) \/ Stutters
<1> DEFINE run == work[w]
           game == Head(run.games)
<1>1. /\ run.at = "games" /\ run.games # <<>> /\ RunIsRight(feed, run) /\ IsRecord(run)
      /\ IsSeq(run.games) /\ IsFunc(run.wrote) /\ run.rows = <<>>
  BY DEF NextGame, IngestInv, RunsInv, RunIsRight, IsRun
<1>2. DOMAIN run.rows = {}
  BY <1>1, EmptyIsSeq
<1>3. Gathers(run) = run.wrote
  BY <1>1, <1>2, GathersWritten
<1>4. CASE Fail(w)
  BY <1>4, FailAbandons
<1>5. CASE work' = [work EXCEPT ![w].games = Tail(@)] /\ UNCHANGED table
  <2> DEFINE r == Run(run.at, run.job, run.args, run.parts, Tail(run.games), run.rows, run.wrote)
  <2>1. work' = [work EXCEPT ![w] = r]
    <3>1. work' = [work EXCEPT ![w] = [run EXCEPT !.games = Tail(run.games)]]
      BY <1>5
    <3>2. [run EXCEPT !.games = Tail(run.games)] = r
      BY <1>1, SetField
    <3> QED
      BY <3>1, <3>2, Zenon
  <2>2. r.rows = run.rows /\ r.wrote = run.wrote
    BY FieldsOfRun
  <2> HIDE DEF r
  <2>3. Gathers(r) = Gathers(run)
    BY <1>1, <1>2, <1>3, <2>2, GathersWritten
  <2> QED
    BY <1>5, <2>1, <2>3, OneGathers DEF Stutters
<1>6. ASSUME feed = "weather", NEW new \in WeatherRows(game), UNCHANGED table,
             work' = [work EXCEPT ![w] = [@ EXCEPT !.at = "write", !.games = Tail(work[w].games), !.rows = <<new>>]]
      PROVE  Contract!Gather(w)
  <2> DEFINE r == Lists(work[w], new)
  <2>1. work' = [work EXCEPT ![w] = r]
    BY <1>6, GameMakes
  <2>2. r.rows = <<new>> /\ r.wrote = run.wrote
    BY FieldsOfRun DEF Lists
  <2> HIDE DEF r
  <2>3. IsSeq(r.rows) /\ DOMAIN r.rows = {1} /\ r.rows[1] = new
    BY <2>2, OneIsSeq
  <2>4. 1 \in DOMAIN run.games /\ game = run.games[1]
    BY <1>1, TailOfSeq
  <2>5. game \in Fixtures /\ \A key \in DOMAIN run.wrote : key # WeatherKey(game)
    BY <1>1, <1>6, <2>4 DEF RunIsRight, GoesByTime
  <2>6. new.key = WeatherKey(game)
    BY <1>6, <2>5, ForecastIsNear DEF IngestInv
  <2>7. ASSUME NEW key \in DOMAIN run.wrote
        PROVE  key \in DOMAIN Gathers(r) /\ Gathers(r)[key] = run.wrote[key]
    <3>1. key \in DOMAIN Gathers(r)
      BY <2>2 DEF Gathers
    <3>2. InHand(r, key) = {}
      BY <2>3, <2>5, <2>6 DEF InHand
    <3> QED
      BY <2>2, <2>3, <3>1, <3>2, GathersLast
  <2> QED
    BY <1>3, <1>6, <2>1, <2>7, MoreIsGathered
<1>7. \/ Fail(w)
      \/ work' = [work EXCEPT ![w].games = Tail(@)] /\ UNCHANGED table
      \/ WriteGame(w)
  BY Zenon DEF NextGame
<1>8. CASE WriteGame(w)
  <2>1. feed = "weather"
    BY <1>1 DEF RunIsRight
  <2>2. UNCHANGED table
    BY <1>8 DEF WriteGame
  <2>3. \E new \in WeatherRows(game) :
          work' = [work EXCEPT ![w] = [@ EXCEPT !.at = "write", !.games = Tail(work[w].games), !.rows = <<new>>]]
    BY <1>8, Zenon DEF WriteGame
  <2> QED
    BY <1>6, <2>1, <2>2, <2>3, Zenon
<1> QED
  BY <1>4, <1>5, <1>7, <1>8

(* An upsert gathers nothing new. *)
LEMMA UpsertStutters ==
  ASSUME IngestInv, NEW w \in Workers, Upsert(w)
  PROVE  Stutters
<1> DEFINE run == work[w]
           r == Upserts(run)
<1>1. IsSeq(run.rows) /\ IsFunc(run.wrote) /\ run.rows # <<>> /\ UNCHANGED table
  BY DEF IngestInv, RunsInv, RunIsRight, IsRun, Upsert
<1>2. r.rows = Tail(run.rows) /\ r.wrote = Put(run.wrote, Head(run.rows).key, Head(run.rows).row)
  BY FieldsOfRun DEF Upserts
<1>3. work' = [work EXCEPT ![w] = r]
  BY UpsertMakes
<1> HIDE DEF r
<1>4. Gathers(r) = Gathers(run)
  BY <1>1, <1>2, UpsertGathersNothing
<1> QED
  BY <1>1, <1>3, <1>4, OneGathers DEF Stutters

(* A commit publishes what was gathered. *)
LEMMA CommitPublishes ==
  ASSUME IngestInv, NEW w \in Workers, Commit(w)
  PROVE  Contract!Publish(w)
<1>1. /\ work[w].rows = <<>> /\ work' = [work EXCEPT ![w] = Resting]
      /\ table' = Contract!Merge(table, work[w].wrote)
  BY Zenon DEF Commit, Contract!Merge
<1>2. DOMAIN work[w].rows = {} /\ IsFunc(work[w].wrote)
  BY <1>1, EmptyIsSeq DEF IngestInv, RunsInv, RunIsRight, IsRun
<1>3. Gathers(work[w]) = work[w].wrote
  BY <1>2, GathersWritten
<1>4. /\ Gathered' = [Gathered EXCEPT ![w] = Contract!Nothing]
      /\ Gathered[w] = Gathers(work[w])
  BY <1>1, OneGathers, RestGathersNothing
<1>5. table' = Contract!Merge(table, Gathered[w])
  BY <1>1, <1>3, <1>4
<1> QED
  BY <1>4, <1>5 DEF Contract!Publish, Gathered

(* An import is seen by readers whole or not at all, whatever the sites    *)
(* say, the runs that overlap and the failures between.                    *)
THEOREM ImportsAreWhole == IngestSpec => ImportsWhole
<1>1. IngestInit => Contract!Init
  <2> SUFFICES ASSUME IngestInit PROVE Contract!Init
    OBVIOUS
  <2>1. \A w \in Workers : GatheredBy(w) = Contract!Nothing
    BY GatheredIsGathers, RestGathersNothing DEF IngestInit
  <2>2. table = Contract!Nothing
    BY DEF IngestInit, NoRows, Contract!Nothing
  <2>3. [w \in Workers |-> GatheredBy(w)] = [w \in Workers |-> Contract!Nothing]
    BY <2>1
  <2> QED
    BY <2>2, <2>3 DEF Contract!Init
<1>2. IngestInv /\ [IngestNext]_ingestVars => [Contract!Next]_<<table, Gathered>>
  <2> SUFFICES ASSUME IngestInv, [IngestNext]_ingestVars PROVE Stutters \/ Contract!Next
    BY DEF Stutters
  <2>1. CASE UNCHANGED <<work, table>>
    BY <2>1 DEF Stutters, Gathered, GatheredBy
  <2>2. ASSUME NEW w \in Workers, Advance(w) \/ Fail(w)
        PROVE  Stutters \/ Contract!Next
    BY <2>2, FetchGathers, NextGameGathers, UpsertStutters, CommitPublishes, FailAbandons
       DEF Advance, Contract!Next
  <2>3. ASSUME IngestNext, ~UNCHANGED <<work, table>>
        PROVE  \/ \E w \in Workers : Advance(w) \/ Fail(w)
               \/ \E w \in Workers : \E job \in DOMAIN queue : Start(w, job)
    BY <2>3 DEF IngestNext, SiteMoves, DayPasses, NobodyAsks, ingestVars, Enqueue, CleanJob
  <2>4. CASE UNCHANGED ingestVars
    BY <2>1, <2>4 DEF ingestVars
  <2> QED
    BY <2>1, <2>2, <2>3, <2>4, StartStutters
<1> QED
  BY <1>1, <1>2, IngestIsRight, PTL DEF IngestSpec, ImportsWhole, Contract!Spec, Gathered

-----------------------------------------------------------------------------
(* The odds pollers, the import jobs and the import of files all keep the  *)
(* shape of their state, for any pollers, workers, requests and files.     *)
THEOREM IngestionTypesAreCorrect == IngestionSpec => []IngestionTypeOK
<1>1. OddsTypeOK /\ IngestTypeOK /\ ImportTypeOK => IngestionTypeOK
  BY DEF IngestionTypeOK
<1> QED
  BY <1>1, TypeCorrect, IngestTypes, ImportTypeCorrect, PTL DEF IngestionSpec

=============================================================================
