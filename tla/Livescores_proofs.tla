-------------------------- MODULE Livescores_proofs --------------------------
(***************************************************************************)
(* Where waiting is told by a clock: the rate limiters of the clients, and *)
(* the board of live scores that one of them feeds.                        *)
(*                                                                         *)
(* No two calls of a client are within the interval, whichever version of  *)
(* waitRateLimit it has, however many calls there are and whenever they    *)
(* are given up; and what giving up costs is bounded.                      *)
(*                                                                         *)
(* CallsSpaced is about the calls made; what keeps it is about the slots   *)
(* of the sleepers too.  A sleeper never oversleeps (time waits for it),   *)
(* so that it calls in its slot and in no other; where the mutex is held   *)
(* it is alone, an interval past the last call; and where slots are        *)
(* reserved, the last of them is what lastCallAt says.                     *)
(*                                                                         *)
(* The board is as fresh as its timer: what has to be shown is kept as a   *)
(* bound on when the timer fires next, not on the age of what is shown.    *)
(***************************************************************************)
EXTENDS RateLimit, Scoreboard, Collections, SequenceTheorems, TLAPS

Places == {"new", "lock", "sleep", "called", "gone"}

LimitTypeOK == /\ limiter \in {"held", "reserved"}
               /\ clock \in Int
               /\ lastCallAt \in Int
               /\ call \in [Calls -> [at : Places, due : Int]]

Slots == At("called") \cup At("sleep")
Apart(c, d) == \/ call[c].due - call[d].due >= MinInterval
               \/ call[d].due - call[c].due >= MinInterval

SlotsApart == \A c, d \in Slots : c # d => Apart(c, d)
NobodyOversleeps == \A c \in At("sleep") : clock <= call[c].due
CallsArePast == \A c \in At("called") : call[c].due <= lastCallAt
SleeperHolds ==
  limiter = "held" =>
    /\ \A c \in At("sleep") : call[c].due = lastCallAt + MinInterval
    /\ \A c, d \in At("sleep") : c = d
SlotsReserved == limiter = "reserved" => \A c \in At("sleep") : call[c].due <= lastCallAt

LimitInv == /\ LimitTypeOK
            /\ SlotsApart
            /\ NobodyOversleeps
            /\ CallsArePast
            /\ SleeperHolds
            /\ SlotsReserved

-----------------------------------------------------------------------------
(* Before the first call nobody has a slot.                                *)
LEMMA InitInv == LimitInit => LimitInv
<1>1. SUFFICES ASSUME LimitInit PROVE LimitInv
  OBVIOUS
<1>2. LimitTypeOK
  BY <1>1, RateLimitAssumption DEF LimitInit, LimitTypeOK, Places, Never
<1>3. At("called") = {} /\ At("sleep") = {}
  BY <1>1 DEF LimitInit, At
<1> QED
  BY <1>2, <1>3 DEF LimitInv, SlotsApart, Slots, NobodyOversleeps, CallsArePast, SleeperHolds, SlotsReserved

(* A step that makes c a call of this moment, in a slot that is an         *)
(* interval past every other, keeps the slots apart.                       *)
LEMMA NewSlot ==
  ASSUME LimitInv, NEW c \in Calls, NEW place \in {"called", "sleep"}, NEW at \in Int,
         call' = [call EXCEPT ![c] = [at |-> place, due |-> at]],
         \A d \in Slots \ {c} : at - call[d].due >= MinInterval
  PROVE  SlotsApart'
<1>1. \A d \in Calls : d # c => call'[d] = call[d]
  BY DEF LimitInv, LimitTypeOK
<1>2. call'[c].due = at
  BY DEF LimitInv, LimitTypeOK
<1>3. Slots' \subseteq Slots \cup {c}
  BY <1>1 DEF Slots, At
<1>4. \A d \in Slots : d \in Calls /\ call[d].due \in Int
  BY DEF Slots, At, LimitInv, LimitTypeOK
<1> QED
  BY <1>1, <1>2, <1>3, <1>4 DEF SlotsApart, Apart, LimitInv

(* Every step keeps the slots apart.                                       *)
LEMMA NextInv == LimitInv /\ [LimitNext]_limitVars => LimitInv'
<1> SUFFICES ASSUME LimitInv, [LimitNext]_limitVars PROVE LimitInv'
  OBVIOUS
<1> USE RateLimitAssumption
<1>t. LimitTypeOK
  BY DEF LimitInv
<1>1. ASSUME NEW c \in Calls, Arrive(c) PROVE LimitInv'
  <2>1. LimitTypeOK'
    BY <1>t, <1>1 DEF Arrive, LimitTypeOK, Places
  <2>2. At("sleep")' = At("sleep") /\ At("called")' = At("called")
    BY <1>t, <1>1 DEF Arrive, At, LimitTypeOK
  <2>3. \A d \in Slots : call'[d] = call[d]
    BY <1>t, <1>1 DEF Arrive, At, Slots, LimitTypeOK
  <2> QED
    BY <2>1, <2>2, <2>3, <1>1 DEF Arrive, LimitInv, SlotsApart, Slots, Apart, NobodyOversleeps, CallsArePast,
       SleeperHolds, SlotsReserved
<1>2. ASSUME NEW c \in Calls, GiveUp(c) PROVE LimitInv'
  BY <1>2 DEF GiveUp, LimitInv, LimitTypeOK, SlotsApart, Slots, At, Apart, NobodyOversleeps, CallsArePast,
     SleeperHolds, SlotsReserved
<1>3. ASSUME NEW c \in Calls, Wake(c) PROVE LimitInv'
  <2>1. call[c].due = clock /\ c \in At("sleep")
    BY <1>t, <1>3 DEF Wake, LimitInv, NobodyOversleeps, At, LimitTypeOK
  <2>2. call' = [call EXCEPT ![c] = [at |-> "called", due |-> clock]]
    BY <1>3 DEF Wake, CallNow
  <2>3. LimitTypeOK'
    BY <1>t, <1>3, <2>2 DEF Wake, LimitTypeOK, Places
  <2>4. \A d \in Calls : call'[d].due = call[d].due
    BY <1>t, <2>1, <2>2 DEF LimitTypeOK
  <2>5. At("called")' = At("called") \cup {c} /\ At("sleep")' = At("sleep") \ {c}
    BY <1>t, <2>2 DEF At, LimitTypeOK
  <2>6. SlotsApart'
    BY <2>1, <2>4, <2>5 DEF LimitInv, SlotsApart, Slots, Apart, At
  <2>7. limiter = "held" => At("sleep")' = {} /\ clock >= lastCallAt
    BY <1>t, <2>1, <2>5 DEF LimitInv, SleeperHolds, LimitTypeOK
  <2>8. NobodyOversleeps' /\ SlotsReserved'
    BY <1>3, <2>4, <2>5, <2>7, <1>t DEF Wake, LimitInv, NobodyOversleeps, SlotsReserved, At, LimitTypeOK
  <2>9. CallsArePast'
    <3>1. limiter = "held" => lastCallAt' >= lastCallAt /\ lastCallAt' = clock
      BY <1>3, <2>7 DEF Wake
    <3>2. limiter # "held" => lastCallAt' = lastCallAt /\ clock <= lastCallAt
      BY <1>3, <1>t, <2>1 DEF Wake, LimitInv, SlotsReserved, LimitTypeOK
    <3>3. lastCallAt' \in Int /\ \A d \in At("called") : call[d].due \in Int
      BY <1>t, <2>3 DEF LimitTypeOK, At
    <3> QED
      BY <1>t, <2>1, <2>4, <2>5, <3>1, <3>2, <3>3 DEF LimitInv, CallsArePast, LimitTypeOK, At
  <2>10. SleeperHolds'
    BY <1>3, <2>7 DEF Wake, SleeperHolds
  <2> QED
    BY <2>3, <2>6, <2>8, <2>9, <2>10 DEF LimitInv
<1>4. ASSUME NEW c \in Calls, Leave(c) PROVE LimitInv'
  <2>1. LimitTypeOK'
    BY <1>t, <1>4 DEF Leave, LimitTypeOK, Places
  <2>2. At("sleep")' \subseteq At("sleep") /\ At("called")' = At("called")
    BY <1>t, <1>4 DEF Leave, At, LimitTypeOK
  <2>3. \A d \in Calls : call'[d].due = call[d].due
    BY <1>t, <1>4 DEF Leave, LimitTypeOK
  <2> QED
    BY <2>1, <2>2, <2>3, <1>4 DEF Leave, LimitInv, SlotsApart, Slots, Apart, At, NobodyOversleeps, CallsArePast,
       SleeperHolds, SlotsReserved
<1>5. ASSUME NEW c \in Calls, EnterHeld(c) PROVE LimitInv'
  <2>1. c \notin Slots /\ At("sleep") = {} /\ limiter = "held"
    BY <1>5 DEF EnterHeld, Slots, At
  <2>2. CASE Wait <= 0 /\ lastCallAt' = clock /\ CallNow(c)
    <3>1. \A d \in Slots \ {c} : clock - call[d].due >= MinInterval
      BY <1>t, <2>1, <2>2 DEF LimitInv, CallsArePast, Slots, At, Wait, LimitTypeOK
    <3>2. SlotsApart'
      BY <1>t, <2>2, <3>1, NewSlot DEF CallNow, LimitTypeOK
    <3>3. LimitTypeOK'
      BY <1>5, <1>t, <2>2 DEF EnterHeld, CallNow, LimitTypeOK, Places
    <3>4. At("sleep")' = {} /\ At("called")' = At("called") \cup {c}
      BY <1>t, <2>1, <2>2 DEF CallNow, At, LimitTypeOK
    <3>5. CallsArePast'
      <4>1. \A d \in At("called") : call'[d] = call[d] \/ d = c
        BY <1>t, <2>2 DEF CallNow, LimitTypeOK, At
      <4>2. call'[c].due = clock /\ lastCallAt <= clock
        BY <1>t, <2>2 DEF CallNow, LimitTypeOK, Wait
      <4> QED
        BY <1>t, <2>2, <3>4, <4>1, <4>2 DEF LimitInv, CallsArePast, LimitTypeOK, At
    <3> QED
      BY <1>5, <3>2, <3>3, <3>4, <3>5 DEF EnterHeld, LimitInv, NobodyOversleeps, SleeperHolds, SlotsReserved
  <2>3. CASE Wait > 0 /\ Sleep(c, Wait) /\ UNCHANGED lastCallAt
    <3>0. clock + Wait \in Int /\ clock + Wait = lastCallAt + MinInterval
      BY <1>t DEF Wait, LimitTypeOK
    <3>1. \A d \in Slots \ {c} : (clock + Wait) - call[d].due >= MinInterval
      BY <1>t, <2>1, <3>0 DEF LimitInv, CallsArePast, Slots, At, LimitTypeOK
    <3>2. SlotsApart'
      BY <2>3, <3>0, <3>1, NewSlot DEF Sleep
    <3>3. LimitTypeOK'
      BY <1>5, <1>t, <2>3, <3>0 DEF EnterHeld, Sleep, LimitTypeOK, Places
    <3>4. At("sleep")' = {c} /\ At("called")' = At("called") /\ call'[c].due = clock + Wait
      BY <1>t, <1>5, <2>1, <2>3 DEF EnterHeld, Sleep, At, LimitTypeOK
    <3>5. \A d \in At("called") : call'[d] = call[d]
      BY <1>t, <1>5, <2>3 DEF EnterHeld, Sleep, At, LimitTypeOK
    <3>6. CallsArePast'
      BY <2>3, <3>4, <3>5 DEF LimitInv, CallsArePast
    <3>7. NobodyOversleeps'
      BY <1>5, <1>t, <2>3, <3>0, <3>4 DEF EnterHeld, NobodyOversleeps, LimitTypeOK, Wait
    <3>8. SleeperHolds' /\ SlotsReserved'
      BY <1>5, <2>1, <2>3, <3>0, <3>4 DEF EnterHeld, SleeperHolds, SlotsReserved
    <3> QED
      BY <3>2, <3>3, <3>6, <3>7, <3>8 DEF LimitInv
  <2> QED
    BY <1>5, <2>2, <2>3 DEF EnterHeld
<1>6. ASSUME NEW c \in Calls, EnterReserved(c) PROVE LimitInv'
  <2>1. c \notin Slots /\ limiter = "reserved" /\ limiter' = limiter /\ clock' = clock
    BY <1>6 DEF EnterReserved, Slots, At
  <2> DEFINE place == IF Wait <= 0 THEN "called" ELSE "sleep"
             at == IF Wait <= 0 THEN clock ELSE clock + Wait
  <2>2. /\ place \in {"called", "sleep"} /\ at \in Int
        /\ call' = [call EXCEPT ![c] = [at |-> place, due |-> at]]
        /\ lastCallAt' = at /\ at >= clock /\ at >= lastCallAt + MinInterval
    <3>1. Wait \in Int /\ Wait = MinInterval - (clock - lastCallAt) /\ clock \in Int /\ lastCallAt \in Int
      BY <1>t DEF Wait, LimitTypeOK
    <3>2. CASE Wait <= 0 /\ lastCallAt' = clock /\ CallNow(c)
      <4>1. place = "called" /\ at = clock
        BY <3>2
      <4> QED
        BY <3>1, <3>2, <4>1 DEF CallNow
    <3>3. CASE Wait > 0 /\ lastCallAt' = clock + Wait /\ Sleep(c, Wait)
      <4>1. place = "sleep" /\ at = clock + Wait
        BY <3>1, <3>3
      <4>2. at \in Int /\ at >= clock /\ at >= lastCallAt + MinInterval
        BY <3>1, <3>3, <4>1
      <4>3. call' = [call EXCEPT ![c] = [at |-> place, due |-> at]] /\ lastCallAt' = at
        BY <3>3, <4>1 DEF Sleep
      <4> HIDE DEF at, place
      <4> QED
        BY <4>1, <4>2, <4>3
    <3> QED
      BY <1>6, <3>2, <3>3 DEF EnterReserved
  <2> HIDE DEF place, at
  <2>3. \A d \in Slots : call[d].due \in Int /\ call[d].due <= lastCallAt
    BY <1>t, <2>1 DEF LimitInv, CallsArePast, SlotsReserved, Slots, At, LimitTypeOK
  <2>4. SlotsApart'
    <3>1. \A d \in Slots \ {c} : at - call[d].due >= MinInterval
      BY <1>t, <2>2, <2>3 DEF LimitTypeOK
    <3> QED
      BY <2>2, <3>1, NewSlot
  <2>5. LimitTypeOK'
    BY <1>t, <2>1, <2>2 DEF LimitTypeOK, Places
  <2>6. \A d \in Calls : call'[d] = IF d = c THEN [at |-> place, due |-> at] ELSE call[d]
    BY <1>t, <2>2 DEF LimitTypeOK
  <2>7. Slots' = Slots \cup {c} /\ At("sleep")' \subseteq At("sleep") \cup {c} /\ At("called")' \subseteq At("called") \cup {c}
    BY <2>2, <2>6 DEF Slots, At
  <2>8. \A d \in Slots' : call'[d].due <= lastCallAt'
    BY <1>t, <2>2, <2>3, <2>6, <2>7 DEF LimitTypeOK, Slots, At
  <2>9. CallsArePast' /\ SlotsReserved'
    BY <2>8 DEF CallsArePast, SlotsReserved, Slots
  <2>10. NobodyOversleeps'
    BY <2>1, <2>2, <2>6, <2>7 DEF LimitInv, NobodyOversleeps, At
  <2>11. SleeperHolds'
    BY <2>1 DEF SleeperHolds
  <2> QED
    BY <2>4, <2>5, <2>9, <2>10, <2>11 DEF LimitInv
<1>7. ASSUME Tick PROVE LimitInv'
  <2>1. \A c \in At("sleep") : clock' <= call[c].due
    BY <1>t, <1>7 DEF Tick, CanMove, At, LimitTypeOK
  <2>2. LimitTypeOK'
    BY <1>t, <1>7 DEF Tick, LimitTypeOK
  <2> QED
    BY <2>1, <2>2, <1>7 DEF Tick, LimitInv, SlotsApart, Slots, Apart, At, NobodyOversleeps, CallsArePast,
       SleeperHolds, SlotsReserved
<1>8. CASE UNCHANGED limitVars
  BY <1>8 DEF limitVars, LimitInv, LimitTypeOK, SlotsApart, Slots, Apart, At, NobodyOversleeps, CallsArePast,
     SleeperHolds, SlotsReserved
<1> QED
  BY <1>1, <1>2, <1>3, <1>4, <1>5, <1>6, <1>7, <1>8 DEF LimitNext, TimeIsUp

(* The invariant of every behaviour, for any calls, interval and time.     *)
LEMMA Invariance == LimitSpec => []LimitInv
  BY InitInv, NextInv, PTL DEF LimitSpec

(* waitRateLimit lets no two calls through within the interval.            *)
THEOREM Spacing == LimitSpec => []CallsSpaced
<1>1. LimitInv => CallsSpaced
  BY DEF LimitInv, SlotsApart, Slots, Apart, CallsSpaced
<1> QED
  BY <1>1, Invariance, PTL

-----------------------------------------------------------------------------
(* What giving up costs is told by more than the slots: by when contexts   *)
(* ended, by the slots that are lost, and by who was served since.         *)
ContextsEnd ==
  /\ clock \in 0..MaxClock
  /\ ended \in [Calls -> Int]
  /\ \A c \in Calls : ended[c] <= clock \/ ended[c] = NotEnded
  /\ \A c \in At("new") : ended[c] = NotEnded

CallsAreMade == \A c \in At("called") : call[c].due <= clock

LatestExists ==
  At("called") # {} => \E c \in At("called") : \A d \in At("called") : call[d].due <= call[c].due

(* With the mutex held the stamp is that of the latest call.               *)
StampIsCall ==
  limiter = "held" => /\ lastCallAt <= clock
                      /\ IF At("called") = {} THEN lastCallAt = Never
                         ELSE \E c \in At("called") : call[c].due = lastCallAt

(* Reserved slots are a chain: each is an interval after another, which    *)
(* was taken too, by a call that was made, is asleep or has gone.          *)
Taken == At("called") \cup At("sleep") \cup At("gone")
SlotsFollow ==
  limiter = "reserved" =>
    /\ lastCallAt = Never \/ \E c \in Taken : call[c].due = lastCallAt
    /\ \A c \in At("sleep") \cup At("gone") : \E d \in Taken : call[c].due = call[d].due + MinInterval

(* Who gave up has waited an interval for each call served, and as long as *)
(* the sleeper has slept, if there is one.                                 *)
Served == At("called") \cup At("gone")
Asleep == IF At("sleep") = {} THEN 0 ELSE clock - lastCallAt
QueueMoves ==
  \A c \in At("lock") \cup At("sleep") : IsEnded(c) =>
    clock - ended[c] <= IF limiter = "reserved" THEN 0
                        ELSE MinInterval * Cardinality(Served) + IF c \in At("lock") THEN Asleep ELSE 0

CostInv == ContextsEnd /\ CallsAreMade /\ LatestExists /\ StampIsCall /\ SlotsFollow /\ QueueMoves

(* Nobody has called, and nobody waits. *)
LEMMA InitCost == LimitInit => CostInv
<1>1. SUFFICES ASSUME LimitInit PROVE CostInv
  OBVIOUS
<1>2. \A place \in Places \ {"new"} : At(place) = {}
  BY <1>1 DEF LimitInit, At
<1>3. ContextsEnd
  <2>1. NotEnded \in Int
    BY RateLimitAssumption DEF NotEnded
  <2>2. ended = [c \in Calls |-> NotEnded] /\ clock = 0 /\ 0 \in 0..MaxClock
    BY <1>1, RateLimitAssumption DEF LimitInit
  <2>3. ended \in [Calls -> Int] /\ \A c \in Calls : ended[c] = NotEnded
    BY <2>1, <2>2
  <2> QED
    BY <2>2, <2>3 DEF ContextsEnd, At
<1>4. lastCallAt = Never /\ lastCallAt <= clock
  BY <1>1, RateLimitAssumption DEF LimitInit, Never
<1> QED
  BY <1>2, <1>3, <1>4 DEF CostInv, CallsAreMade, LatestExists, StampIsCall, SlotsFollow, QueueMoves, Places

(* A call goes from one place to the next, with the slot it has there.     *)
Moves(c, from, to, slot) ==
  /\ call[c].at = from
  /\ call' = [call EXCEPT ![c] = [at |-> to, due |-> slot]]
  /\ UNCHANGED <<limiter, clock, ended>>

Joins(c) == Moves(c, "new", "lock", call[c].due) /\ UNCHANGED lastCallAt
Calling(c) == /\ Moves(c, "lock", "called", clock)
              /\ clock >= lastCallAt + MinInterval /\ lastCallAt' = clock
              /\ limiter = "held" => At("sleep") = {}
Sleeps(c) == /\ Moves(c, "lock", "sleep", lastCallAt + MinInterval)
             /\ clock < lastCallAt + MinInterval
             /\ lastCallAt' = IF limiter = "held" THEN lastCallAt ELSE lastCallAt + MinInterval
             /\ limiter = "held" => At("sleep") = {}
Wakes(c) == /\ Moves(c, "sleep", "called", clock) /\ call[c].due = clock
            /\ lastCallAt' = IF limiter = "held" THEN clock ELSE lastCallAt
            /\ limiter = "held" => clock = lastCallAt + MinInterval
Leaves(c) == /\ Moves(c, "sleep", "gone", call[c].due) /\ IsEnded(c) /\ UNCHANGED lastCallAt
             /\ limiter = "held" => clock <= lastCallAt + MinInterval

(* Where everybody is after a move. *)
Shifted(S, place, c, from, to) == IF place = to THEN S \cup {c} ELSE IF place = from THEN S \ {c} ELSE S

Shift(c, from, to, slot) ==
  /\ c \in At(from) /\ c \notin At(to)
  /\ \A d \in Calls : call'[d] = IF d = c THEN [at |-> to, due |-> slot] ELSE call[d]
  /\ At("new")' = Shifted(At("new"), "new", c, from, to)
  /\ At("lock")' = Shifted(At("lock"), "lock", c, from, to)
  /\ At("sleep")' = Shifted(At("sleep"), "sleep", c, from, to)
  /\ At("called")' = Shifted(At("called"), "called", c, from, to)
  /\ At("gone")' = Shifted(At("gone"), "gone", c, from, to)

LEMMA Moved ==
  ASSUME LimitTypeOK, NEW c \in Calls, NEW from \in Places, NEW to \in Places, from # to, NEW slot \in Int,
         Moves(c, from, to, slot)
  PROVE  Shift(c, from, to, slot)
<1>1. \A d \in Calls : call'[d] = IF d = c THEN [at |-> to, due |-> slot] ELSE call[d]
  BY DEF Moves, LimitTypeOK
<1>2. call[c].at = from
  BY DEF Moves
<1> QED
  BY <1>1, <1>2 DEF At, Shift, Shifted

(* Every action but GiveUp and Tick is such a move. *)
LEMMA StepsMove ==
  ASSUME LimitInv, [LimitNext]_limitVars
  PROVE  \/ \E c \in Calls : GiveUp(c) \/ Joins(c) \/ Calling(c) \/ Sleeps(c) \/ Wakes(c) \/ Leaves(c)
         \/ Tick \/ UNCHANGED limitVars
<1> USE RateLimitAssumption
<1>t. /\ limiter \in {"held", "reserved"} /\ clock \in Int /\ lastCallAt \in Int
      /\ \A c \in Calls : call[c] \in [at : Places, due : Int]
      /\ call \in [Calls -> [at : Places, due : Int]]
  BY DEF LimitInv, LimitTypeOK
<1>w. Wait = lastCallAt + MinInterval - clock /\ clock + Wait = lastCallAt + MinInterval
  BY <1>t DEF Wait
<1>e. ASSUME NEW c \in Calls, NEW to
      PROVE  [call EXCEPT ![c].at = to] = [call EXCEPT ![c] = [at |-> to, due |-> call[c].due]]
  <2>1. call[c] \in [at : Places, due : Int]
    BY <1>t
  <2>2. [call[c] EXCEPT !.at = to] = [at |-> to, due |-> call[c].due]
    BY <2>1
  <2> QED
    BY <2>2
<1>1. ASSUME NEW c \in Calls, Arrive(c) PROVE Joins(c)
  <2>1. call' = [call EXCEPT ![c] = [at |-> "lock", due |-> call[c].due]]
    BY <1>1, <1>e DEF Arrive
  <2> QED
    BY <1>1, <2>1 DEF Arrive, Joins, Moves
<1>2. ASSUME NEW c \in Calls, EnterHeld(c) \/ EnterReserved(c) PROVE Calling(c) \/ Sleeps(c)
  <2>1. CASE Wait <= 0 /\ CallNow(c)
    BY <1>t, <1>w, <1>2, <2>1 DEF EnterHeld, EnterReserved, Calling, Moves, CallNow
  <2>2. CASE Wait > 0 /\ Sleep(c, Wait)
    BY <1>t, <1>w, <1>2, <2>2 DEF EnterHeld, EnterReserved, Sleeps, Moves, Sleep
  <2> QED
    BY <1>2, <2>1, <2>2 DEF EnterHeld, EnterReserved
<1>3. ASSUME NEW c \in Calls, Wake(c) PROVE Wakes(c)
  <2>1. c \in At("sleep") /\ call[c].due = clock
    BY <1>t, <1>3 DEF Wake, LimitInv, NobodyOversleeps, At
  <2>2. limiter = "held" => clock = lastCallAt + MinInterval
    BY <2>1 DEF LimitInv, SleeperHolds
  <2> QED
    BY <1>3, <2>1, <2>2 DEF Wake, Wakes, Moves, CallNow
<1>4. ASSUME NEW c \in Calls, Leave(c) PROVE Leaves(c)
  <2>1. c \in At("sleep") /\ clock <= call[c].due
    BY <1>4 DEF Leave, LimitInv, NobodyOversleeps, At
  <2>2. limiter = "held" => clock <= lastCallAt + MinInterval
    BY <2>1 DEF LimitInv, SleeperHolds
  <2>3. call' = [call EXCEPT ![c] = [at |-> "gone", due |-> call[c].due]]
    BY <1>4, <1>e DEF Leave
  <2> QED
    BY <1>4, <2>2, <2>3 DEF Leave, Leaves, Moves
<1> QED
  BY <1>1, <1>2, <1>3, <1>4 DEF LimitNext, TimeIsUp

-----------------------------------------------------------------------------
(* The contexts end in time. *)
LEMMA ContextsStep ==
  ASSUME LimitInv, ContextsEnd, [LimitNext]_limitVars
  PROVE  ContextsEnd'
<1> USE RateLimitAssumption
<1>t. LimitTypeOK
  BY DEF LimitInv
<1>1. ASSUME NEW c \in Calls, GiveUp(c) PROVE ContextsEnd'
  <2>1. c \notin At("new") /\ At("new")' = At("new")
    BY <1>1 DEF GiveUp, At
  <2>2. \A d \in Calls : ended'[d] = IF d = c THEN clock ELSE ended[d]
    BY <1>1 DEF GiveUp, ContextsEnd
  <2>3. ended' \in [Calls -> Int] /\ clock' = clock
    BY <1>1 DEF GiveUp, ContextsEnd
  <2> QED
    BY <2>1, <2>2, <2>3 DEF ContextsEnd, At, NotEnded
<1>2. ASSUME NEW c \in Calls, NEW from \in Places, NEW to \in Places \ {"new"}, NEW slot \in Int, from # to,
             Moves(c, from, to, slot)
      PROVE ContextsEnd'
  <2>0. Shift(c, from, to, slot)
    BY <1>t, <1>2, Moved
  <2>1. At("new")' \subseteq At("new")
    BY <1>2, <2>0 DEF Shift, Shifted
  <2> QED
    BY <1>2, <2>1 DEF Moves, ContextsEnd, NotEnded
<1>3. ASSUME NEW c \in Calls, Joins(c) \/ Calling(c) \/ Sleeps(c) \/ Wakes(c) \/ Leaves(c) PROVE ContextsEnd'
  <2>1. call[c].due \in Int /\ clock \in Int /\ lastCallAt + MinInterval \in Int
    BY <1>t DEF LimitTypeOK
  <2> QED
    BY <1>2, <1>3, <2>1 DEF Places, Joins, Calling, Sleeps, Wakes, Leaves
<1>4. CASE Tick
  <2>1. clock' \in 0..MaxClock /\ clock' >= clock /\ clock \in Int
    BY <1>4 DEF Tick, ContextsEnd
  <2> QED
    BY <1>4, <2>1 DEF Tick, ContextsEnd, At, NotEnded
<1>5. CASE UNCHANGED limitVars
  BY <1>5 DEF limitVars, ContextsEnd, At, NotEnded
<1> QED
  BY <1>1, <1>3, <1>4, <1>5, StepsMove

(* The call that is made now is the latest; no call is in the future.      *)
LEMMA CallsStep ==
  ASSUME LimitInv, CostInv, [LimitNext]_limitVars
  PROVE  CallsAreMade' /\ LatestExists'
<1> USE RateLimitAssumption
<1>t. LimitTypeOK /\ clock \in Int /\ lastCallAt \in Int /\ \A c \in Calls : call[c].due \in Int
  BY DEF LimitInv, LimitTypeOK
<1>1. ASSUME UNCHANGED call, clock' >= clock, clock' \in Int
      PROVE  CallsAreMade' /\ LatestExists'
  BY <1>t, <1>1 DEF CostInv, CallsAreMade, LatestExists, At
<1>2. ASSUME NEW c \in Calls, NEW from \in Places \ {"called"}, NEW to \in Places \ {"called"}, NEW slot \in Int,
             from # to, Moves(c, from, to, slot)
      PROVE  CallsAreMade' /\ LatestExists'
  <2>0. Shift(c, from, to, slot)
    BY <1>t, <1>2, Moved
  <2>1. At("called")' = At("called")
    BY <1>2, <2>0 DEF Shift, Shifted
  <2>2. \A d \in At("called") : call'[d] = call[d] /\ clock' = clock
    BY <1>2, <2>0 DEF Shift, Moves, At
  <2> QED
    BY <2>1, <2>2 DEF CostInv, CallsAreMade, LatestExists
<1>3. ASSUME NEW c \in Calls, NEW from \in Places \ {"called"}, Moves(c, from, "called", clock)
      PROVE  CallsAreMade' /\ LatestExists'
  <2>0. Shift(c, from, "called", clock)
    BY <1>t, <1>3, Moved DEF Places
  <2>1. At("called")' = At("called") \cup {c}
    BY <1>3, <2>0 DEF Shift, Shifted
  <2>m. \A d \in Calls : call'[d] = IF d = c THEN [at |-> "called", due |-> clock] ELSE call[d]
    BY <2>0 DEF Shift
  <2>2. \A d \in At("called")' : call'[d].due <= clock
    <3>1. \A d \in At("called") : d \in Calls /\ call[d].due <= clock
      BY DEF CostInv, CallsAreMade, At
    <3> QED
      BY <1>t, <2>1, <2>m, <3>1
  <2>3. call'[c].due = clock /\ clock' = clock
    BY <1>3, <2>m DEF Moves
  <2> QED
    BY <2>1, <2>2, <2>3 DEF CallsAreMade, LatestExists
<1>4. ASSUME NEW c \in Calls, Joins(c) \/ Calling(c) \/ Sleeps(c) \/ Wakes(c) \/ Leaves(c)
      PROVE  CallsAreMade' /\ LatestExists'
  <2>1. call[c].due \in Int /\ clock \in Int /\ lastCallAt + MinInterval \in Int
    BY <1>t
  <2> QED
    BY <1>2, <1>3, <1>4, <2>1 DEF Places, Joins, Calling, Sleeps, Wakes, Leaves
<1>5. ASSUME NEW c \in Calls, GiveUp(c) PROVE CallsAreMade' /\ LatestExists'
  BY <1>t, <1>1, <1>5 DEF GiveUp
<1>6. CASE Tick
  BY <1>t, <1>1, <1>6 DEF Tick
<1>7. CASE UNCHANGED limitVars
  BY <1>t, <1>1, <1>7 DEF limitVars
<1> QED
  BY <1>4, <1>5, <1>6, <1>7, StepsMove

(* With the mutex held the stamp follows the calls, with nobody asleep.    *)
LEMMA StampStep ==
  ASSUME LimitInv, CostInv, [LimitNext]_limitVars
  PROVE  StampIsCall'
<1> USE RateLimitAssumption
<1>t. LimitTypeOK /\ clock \in Int /\ lastCallAt \in Int /\ \A c \in Calls : call[c].due \in Int
  BY DEF LimitInv, LimitTypeOK
<1>1. ASSUME UNCHANGED <<limiter, lastCallAt, call>>, clock' >= clock, clock' \in Int
      PROVE  StampIsCall'
  BY <1>t, <1>1 DEF CostInv, StampIsCall, At, Never
<1>2. ASSUME NEW c \in Calls, NEW from \in Places \ {"called"}, NEW to \in Places \ {"called"}, NEW slot \in Int,
             from # to, Moves(c, from, to, slot), limiter = "held" => UNCHANGED lastCallAt
      PROVE  StampIsCall'
  <2>0. Shift(c, from, to, slot)
    BY <1>t, <1>2, Moved
  <2>1. At("called")' = At("called")
    BY <1>2, <2>0 DEF Shift, Shifted
  <2>2. \A d \in At("called") : call'[d] = call[d]
    BY <1>2, <2>0 DEF Shift, Moves, At
  <2> QED
    BY <1>2, <2>1, <2>2 DEF Moves, CostInv, StampIsCall, Never
<1>3. ASSUME NEW c \in Calls, NEW from \in Places \ {"called"}, Moves(c, from, "called", clock),
             limiter = "held" => lastCallAt' = clock
      PROVE  StampIsCall'
  <2>0. Shift(c, from, "called", clock)
    BY <1>t, <1>3, Moved DEF Places
  <2>1. At("called")' = At("called") \cup {c}
    BY <1>3, <2>0 DEF Shift, Shifted
  <2>m. \A d \in Calls : call'[d] = IF d = c THEN [at |-> "called", due |-> clock] ELSE call[d]
    BY <2>0 DEF Shift
  <2>2. call'[c].due = clock /\ clock' = clock /\ limiter' = limiter
    BY <1>3, <2>m DEF Moves
  <2> QED
    BY <1>t, <1>3, <2>1, <2>2 DEF StampIsCall
<1>4. ASSUME NEW c \in Calls, Joins(c) \/ Calling(c) \/ Sleeps(c) \/ Wakes(c) \/ Leaves(c)
      PROVE  StampIsCall'
  <2>1. call[c].due \in Int /\ clock \in Int /\ lastCallAt + MinInterval \in Int
    BY <1>t
  <2> QED
    BY <1>2, <1>3, <1>4, <2>1 DEF Places, Joins, Calling, Sleeps, Wakes, Leaves
<1>5. ASSUME NEW c \in Calls, GiveUp(c) PROVE StampIsCall'
  BY <1>t, <1>1, <1>5 DEF GiveUp
<1>6. CASE Tick
  BY <1>t, <1>1, <1>6 DEF Tick
<1>7. CASE UNCHANGED limitVars
  BY <1>t, <1>1, <1>7 DEF limitVars
<1> QED
  BY <1>4, <1>5, <1>6, <1>7, StepsMove

-----------------------------------------------------------------------------
(* A reserved slot is an interval after the last one, or the first.        *)
LEMMA SlotsStep ==
  ASSUME LimitInv, CostInv, [LimitNext]_limitVars
  PROVE  SlotsFollow'
<1> USE RateLimitAssumption
<1>t. LimitTypeOK /\ clock \in Int /\ lastCallAt \in Int /\ \A c \in Calls : call[c].due \in Int
  BY DEF LimitInv, LimitTypeOK
<1>p. "new" \in Places /\ "lock" \in Places /\ "sleep" \in Places /\ "called" \in Places /\ "gone" \in Places
  BY DEF Places
<1>1. ASSUME UNCHANGED <<limiter, lastCallAt, call>>
      PROVE  SlotsFollow'
  BY <1>1 DEF CostInv, SlotsFollow, Taken, At, Never
<1>2. ASSUME NEW c \in Calls, Joins(c), limiter = "reserved"
      PROVE  SlotsFollow'
  <2>0. Shift(c, "new", "lock", call[c].due)
    BY <1>t, <1>p, <1>2, Moved DEF Joins
  <2>1. Taken' = Taken /\ At("sleep")' = At("sleep") /\ At("gone")' = At("gone")
    BY <2>0 DEF Shift, Shifted, Taken
  <2>2. \A d \in Taken : call'[d] = call[d]
    BY <2>0 DEF Shift, Taken, At
  <2> QED
    BY <1>2, <2>1, <2>2 DEF Joins, CostInv, SlotsFollow, Taken, Never
<1>3. ASSUME NEW c \in Calls, NEW to \in {"called", "sleep"}, NEW slot \in Int, limiter = "reserved",
             Moves(c, "lock", to, slot), lastCallAt' = slot,
             to = "sleep" => slot = lastCallAt + MinInterval /\ lastCallAt # Never
      PROVE  SlotsFollow'
  <2>0. Shift(c, "lock", to, slot)
    BY <1>t, <1>p, <1>3, Moved
  <2>1. Taken' = Taken \cup {c} /\ At("gone")' = At("gone") /\ c \notin Taken
    BY <1>3, <2>0 DEF Shift, Shifted, Taken, At
  <2>2. At("sleep")' = IF to = "sleep" THEN At("sleep") \cup {c} ELSE At("sleep")
    BY <1>3, <2>0 DEF Shift, Shifted
  <2>3. \A d \in Taken : call'[d] = call[d]
    BY <2>0, <2>1 DEF Shift, Taken, At
  <2>4. call'[c].due = slot
    BY <2>0 DEF Shift
  <2>5. to = "sleep" => \E d \in Taken : call'[c].due = call'[d].due + MinInterval
    BY <1>3, <2>3, <2>4 DEF CostInv, SlotsFollow
  <2>6. \A e \in At("sleep") \cup At("gone") : \E d \in Taken : call'[e].due = call'[d].due + MinInterval
    BY <1>3, <2>3 DEF CostInv, SlotsFollow, Taken
  <2>7. \A e \in At("sleep")' \cup At("gone")' : \E d \in Taken' : call'[e].due = call'[d].due + MinInterval
    BY <2>1, <2>2, <2>5, <2>6
  <2> QED
    BY <1>3, <2>1, <2>4, <2>7 DEF SlotsFollow
<1>4. ASSUME NEW c \in Calls, NEW to \in {"called", "gone"}, limiter = "reserved",
             Moves(c, "sleep", to, call[c].due), lastCallAt' = lastCallAt
      PROVE  SlotsFollow'
  <2>0. Shift(c, "sleep", to, call[c].due)
    BY <1>t, <1>p, <1>4, Moved
  <2>1. Taken' = Taken /\ At("sleep")' \cup At("gone")' \subseteq At("sleep") \cup At("gone")
    BY <1>4, <2>0 DEF Shift, Shifted, Taken
  <2>2. \A d \in Calls : call'[d].due = call[d].due
    BY <2>0 DEF Shift
  <2>3. Taken \subseteq Calls /\ At("sleep") \cup At("gone") \subseteq Calls
    BY DEF Taken, At
  <2>4. \A e \in At("sleep")' \cup At("gone")' : \E d \in Taken' : call'[e].due = call'[d].due + MinInterval
    BY <1>4, <2>1, <2>2, <2>3 DEF CostInv, SlotsFollow
  <2>5. lastCallAt' = Never' \/ \E d \in Taken' : call'[d].due = lastCallAt'
    BY <1>4, <2>1, <2>2, <2>3 DEF CostInv, SlotsFollow, Never
  <2> QED
    BY <2>4, <2>5 DEF SlotsFollow
<1>5. ASSUME NEW c \in Calls, Calling(c) \/ Sleeps(c) \/ Wakes(c) \/ Leaves(c), limiter = "reserved"
      PROVE  SlotsFollow'
  <2>1. lastCallAt + MinInterval \in Int /\ limiter # "held"
    BY <1>t, <1>5
  <2>2. CASE Sleeps(c)
    <3>1. lastCallAt # Never
      BY <2>2 DEF Sleeps, Never, CostInv, ContextsEnd
    <3> QED
      BY <1>3, <1>5, <2>1, <2>2, <3>1 DEF Sleeps
  <2> QED
    BY <1>t, <1>3, <1>4, <1>5, <2>1, <2>2 DEF Calling, Wakes, Leaves
<1>6. ASSUME NEW c \in Calls, GiveUp(c) PROVE SlotsFollow'
  BY <1>1, <1>6 DEF GiveUp
<1>7. CASE Tick
  BY <1>1, <1>7 DEF Tick
<1>8. CASE UNCHANGED limitVars
  BY <1>1, <1>8 DEF limitVars
<1>9. CASE limiter # "reserved"
  <2>1. limiter' = limiter
    BY <1>9 DEF LimitNext, Arrive, GiveUp, Wake, Leave, EnterHeld, EnterReserved, Tick, TimeIsUp, limitVars
  <2> QED
    BY <1>9, <2>1 DEF SlotsFollow
<1> QED
  BY <1>2, <1>5, <1>6, <1>7, <1>8, <1>9, StepsMove

(* Products by the interval grow with it. *)
LEMMA OneIntervalMore ==
  ASSUME NEW m \in Nat, NEW n \in Nat
  PROVE  MinInterval * (m + 1) = MinInterval * m + MinInterval /\ MinInterval * m \in Nat
         /\ (m <= n => MinInterval * m <= MinInterval * n)
<1> USE RateLimitAssumption
<1>1. MinInterval * (m + 1) = MinInterval * m + MinInterval /\ MinInterval * m \in Nat
  BY SMT
<1>2. ASSUME m <= n PROVE MinInterval * m <= MinInterval * n
  BY <1>2, SMT
<1> QED
  BY <1>1, <1>2

(* The calls that are served are finitely many, and each is served once.   *)
LEMMA ServedCounts ==
  /\ Cardinality(Served) \in Nat
  /\ \A c \in Calls \ Served : Cardinality(Served \cup {c}) = Cardinality(Served) + 1
<1>1. IsFiniteSet(Served)
  BY RateLimitAssumption, FS_Subset DEF Served, At
<1> QED
  BY <1>1, FS_CardinalityType, FS_AddElement

(* The queue moves on by an interval for each call it serves.              *)
LEMMA QueueStep ==
  ASSUME LimitInv, CostInv, [LimitNext]_limitVars
  PROVE  QueueMoves'
<1> USE RateLimitAssumption
<1>t. /\ LimitTypeOK /\ limiter \in {"held", "reserved"} /\ clock \in Int /\ lastCallAt \in Int
      /\ ended \in [Calls -> Int] /\ \A c \in Calls : ended[c] \in Int /\ call[c].due \in Int
  BY DEF LimitInv, LimitTypeOK, CostInv, ContextsEnd
<1>p. "new" \in Places /\ "lock" \in Places /\ "sleep" \in Places /\ "called" \in Places /\ "gone" \in Places
  BY DEF Places
<1>q. \A c \in At("lock") \cup At("sleep") : c \in Calls /\ (IsEnded(c) =>
        clock - ended[c] <= IF limiter = "reserved" THEN 0
                            ELSE MinInterval * Cardinality(Served) + IF c \in At("lock") THEN Asleep ELSE 0)
  BY DEF CostInv, QueueMoves, At
<1>k. PICK k \in Nat : k = Cardinality(Served) /\ \A c \in Calls \ Served : Cardinality(Served \cup {c}) = k + 1
  BY ServedCounts
<1>m. PICK owed \in Nat : owed = MinInterval * k /\ MinInterval * (k + 1) = owed + MinInterval
  BY OneIntervalMore
<1>a. limiter = "held" => Asleep \in Nat
  BY <1>t DEF Asleep, CostInv, StampIsCall
<1>n. \A c \in At("new") : ~IsEnded(c) /\ c \in Calls
  BY <1>t DEF CostInv, ContextsEnd, IsEnded, NotEnded, At
<1>1. ASSUME NEW c \in Calls, GiveUp(c) PROVE QueueMoves'
  <2>1. /\ At("lock")' = At("lock") /\ At("sleep")' = At("sleep") /\ Served' = Served /\ Asleep' = Asleep
        /\ limiter' = limiter /\ clock' = clock
    BY <1>1 DEF GiveUp, At, Served, Asleep
  <2>2. \A d \in Calls : ended'[d] = IF d = c THEN clock ELSE ended[d]
    BY <1>t, <1>1 DEF GiveUp
  <2> QED
    BY <1>t, <1>q, <1>k, <1>m, <1>a, <2>1, <2>2 DEF QueueMoves, IsEnded
<1>2. ASSUME NEW c \in Calls, Joins(c) PROVE QueueMoves'
  <2>0. Shift(c, "new", "lock", call[c].due)
    BY <1>t, <1>p, <1>2, Moved DEF Joins
  <2>1. /\ At("lock")' = At("lock") \cup {c} /\ At("sleep")' = At("sleep") /\ Served' = Served
        /\ limiter' = limiter /\ clock' = clock /\ lastCallAt' = lastCallAt /\ ended' = ended /\ c \in At("new")
    BY <1>2, <2>0 DEF Joins, Moves, Shift, Shifted, Served
  <2>2. Asleep' = Asleep
    BY <2>1 DEF Asleep
  <2>3. \A d \in At("sleep") : d # c
    BY <2>0 DEF Shift, At
  <2> QED
    BY <1>q, <1>n, <2>1, <2>2, <2>3 DEF QueueMoves, IsEnded
<1>3. ASSUME NEW c \in Calls, Calling(c) \/ Sleeps(c) \/ Wakes(c) \/ Leaves(c), limiter = "reserved"
      PROVE  QueueMoves'
  <2>1. PICK from \in {"lock", "sleep"}, to \in {"sleep", "called", "gone"}, slot \in Int :
          from # to /\ Moves(c, from, to, slot)
    BY <1>t, <1>3 DEF Calling, Sleeps, Wakes, Leaves
  <2>2. Shift(c, from, to, slot)
    BY <1>t, <1>p, <2>1, Moved
  <2>3. At("lock")' \cup At("sleep")' \subseteq At("lock") \cup At("sleep")
    BY <2>1, <2>2 DEF Shift, Shifted
  <2>4. limiter' = limiter /\ clock' = clock /\ ended' = ended
    BY <2>1 DEF Moves
  <2> QED
    BY <1>3, <1>q, <2>3, <2>4 DEF QueueMoves, IsEnded
<1>4. ASSUME NEW c \in Calls, Calling(c), limiter = "held" PROVE QueueMoves'
  <2>0. Shift(c, "lock", "called", clock)
    BY <1>t, <1>p, <1>4, Moved DEF Calling
  <2>1. /\ At("lock")' = At("lock") \ {c} /\ At("sleep") = {} /\ At("sleep")' = {} /\ Served' = Served \cup {c} /\ c \notin Served
        /\ limiter' = limiter /\ clock' = clock /\ ended' = ended
    BY <1>4, <2>0 DEF Calling, Moves, Shift, Shifted, Served, At
  <2>2. Asleep' = 0 /\ Asleep = 0
    BY <2>1 DEF Asleep
  <2>3. MinInterval * Cardinality(Served') = owed + MinInterval
    BY <1>k, <1>m, <2>1
  <2> QED
    BY <1>t, <1>4, <1>q, <1>k, <1>m, <2>1, <2>2, <2>3 DEF QueueMoves, IsEnded
<1>5. ASSUME NEW c \in Calls, Sleeps(c), limiter = "held" PROVE QueueMoves'
  <2>0. Shift(c, "lock", "sleep", lastCallAt + MinInterval)
    BY <1>t, <1>p, <1>5, Moved DEF Sleeps
  <2>1. /\ At("lock")' = At("lock") \ {c} /\ At("sleep") = {} /\ At("sleep")' = {c} /\ Served' = Served /\ c \in At("lock")
        /\ limiter' = limiter /\ clock' = clock /\ ended' = ended /\ lastCallAt' = lastCallAt
    BY <1>5, <2>0 DEF Sleeps, Moves, Shift, Shifted, Served, At
  <2>2. Asleep = 0 /\ Asleep' \in Nat
    BY <1>t, <1>5, <2>1 DEF Asleep, CostInv, StampIsCall
  <2> QED
    BY <1>t, <1>5, <1>q, <1>k, <1>m, <2>1, <2>2 DEF QueueMoves, IsEnded
<1>6. ASSUME NEW c \in Calls, Wakes(c) \/ Leaves(c), limiter = "held" PROVE QueueMoves'
  <2>1. PICK to \in {"called", "gone"}, slot \in Int : Moves(c, "sleep", to, slot)
    BY <1>t, <1>6 DEF Wakes, Leaves
  <2>2. Shift(c, "sleep", to, slot)
    BY <1>t, <1>p, <2>1, Moved
  <2>3. At("sleep") = {c}
    BY <1>6, <2>2 DEF LimitInv, SleeperHolds, Shift
  <2>4. /\ At("lock")' = At("lock") /\ At("sleep")' = {} /\ Served' = Served \cup {c} /\ c \notin Served
        /\ limiter' = limiter /\ clock' = clock /\ ended' = ended
    BY <2>1, <2>2, <2>3 DEF Moves, Shift, Shifted, Served, At
  <2>5. Asleep' = 0 /\ Asleep <= MinInterval /\ Asleep \in Int
    BY <1>t, <1>6, <2>3, <2>4 DEF Asleep, Wakes, Leaves
  <2>6. MinInterval * Cardinality(Served') = owed + MinInterval
    BY <1>k, <1>m, <2>4
  <2> QED
    BY <1>t, <1>6, <1>q, <1>k, <1>m, <2>4, <2>5, <2>6 DEF QueueMoves, IsEnded
<1>7. CASE Tick
  <2>1. /\ At("lock")' = At("lock") /\ At("sleep")' = At("sleep") /\ Served' = Served /\ lastCallAt' = lastCallAt
        /\ limiter' = limiter /\ clock' = clock + 1 /\ ended' = ended /\ clock < MaxClock
    BY <1>7 DEF Tick, At, Served
  <2>2. \A c \in Calls : IsEnded(c)' => IsEnded(c)
    BY <1>t, <2>1 DEF CostInv, ContextsEnd, IsEnded, NotEnded
  <2>3. \A c \in At("lock") \cup At("sleep") :
          c \in Calls /\ (IsEnded(c) => c \in At("lock") /\ limiter # "reserved" /\ At("sleep") # {})
    BY <1>7 DEF Tick, CanMove, At
  <2>4. At("sleep") # {} => Asleep' = Asleep + 1
    BY <1>t, <2>1 DEF Asleep
  <2> QED
    BY <1>t, <1>q, <1>k, <1>m, <1>a, <2>1, <2>2, <2>3, <2>4 DEF QueueMoves, IsEnded
<1>8. CASE UNCHANGED limitVars
  BY <1>8 DEF limitVars, CostInv, QueueMoves, At, Served, Asleep, IsEnded
<1> QED
  BY <1>t, <1>1, <1>2, <1>3, <1>4, <1>5, <1>6, <1>7, <1>8, StepsMove

(* The invariant of what giving up costs ...                               *)
LEMMA CostInvariance == LimitSpec => [](LimitInv /\ CostInv)
<1>1. LimitInit => LimitInv /\ CostInv
  BY InitInv, InitCost
<1>2. LimitInv /\ CostInv /\ [LimitNext]_limitVars => (LimitInv /\ CostInv)'
  <2> SUFFICES ASSUME LimitInv, CostInv, [LimitNext]_limitVars PROVE (LimitInv /\ CostInv)'
    OBVIOUS
  <2>1. ContextsEnd
    BY DEF CostInv
  <2>2. ContextsEnd' /\ CallsAreMade' /\ LatestExists' /\ StampIsCall' /\ SlotsFollow' /\ QueueMoves'
    BY <2>1, ContextsStep, CallsStep, StampStep, SlotsStep, QueueStep
  <2> QED
    BY <2>2, NextInv DEF CostInv
<1> QED
  BY <1>1, <1>2, PTL DEF LimitSpec

-----------------------------------------------------------------------------
(* LastMade is the latest of the calls made.                               *)
LEMMA LastMadeIsLatest ==
  ASSUME LimitInv, CostInv
  PROVE  IF At("called") = {} THEN LastMade = Never
         ELSE /\ \A c \in At("called") : call[c].due <= LastMade
              /\ \E c \in At("called") : call[c].due = LastMade
<1> DEFINE latest == CHOOSE c \in At("called") : \A d \in At("called") : call[d].due <= call[c].due
<1>1. CASE At("called") # {}
  <2>1. latest \in At("called") /\ \A d \in At("called") : call[d].due <= call[latest].due
    BY <1>1 DEF CostInv, LatestExists
  <2>2. LastMade = call[latest].due
    BY <1>1 DEF LastMade
  <2> QED
    BY <1>1, <2>1, <2>2
<1> QED
  BY <1>1 DEF LastMade

(* Of a set of calls one has the earliest slot. *)
LEMMA EarliestExists ==
  ASSUME NEW due \in [Calls -> Int], NEW some \in SUBSET Calls, some # {}
  PROVE  \E c \in some : \A d \in some : due[c] <= due[d]
<1> DEFINE Good == {T \in SUBSET Calls : T # {} => \E c \in T : \A d \in T : due[c] <= due[d]}
<1>1. ASSUME NEW T \in SUBSET Calls, \A U \in SUBSET T : U # T => U \in Good
      PROVE  T \in Good
  <2> SUFFICES ASSUME NEW x \in T PROVE \E c \in T : \A d \in T : due[c] <= due[d]
    OBVIOUS
  <2>1. T \ {x} \in Good /\ due[x] \in Int
    BY <1>1
  <2>2. CASE T \ {x} = {}
    <3>1. \A d \in T : d = x
      BY <2>2
    <3> QED
      BY <2>1, <3>1
  <2>3. CASE T \ {x} # {}
    <3>1. PICK e \in T \ {x} : \A d \in T \ {x} : due[e] <= due[d]
      BY <2>1, <2>3
    <3>2. due[e] \in Int /\ \A d \in T : due[d] \in Int
      OBVIOUS
    <3>3. CASE due[e] <= due[x]
      BY <3>1, <3>3
    <3>4. CASE due[x] < due[e]
      <4>1. \A d \in T : due[x] <= due[d]
        BY <2>1, <3>1, <3>2, <3>4
      <4> QED
        BY <4>1
    <3> QED
      BY <2>1, <3>2, <3>3, <3>4
  <2> QED
    BY <2>2, <2>3
<1> HIDE DEF Good
<1>2. \A T \in SUBSET Calls : T \in Good
  BY <1>1, RateLimitAssumption, SubsetInduction
<1> QED
  BY <1>2 DEF Good

(* Nobody sleeps past the interval after the last call made, but for the   *)
(* reserved slots before its own.                                          *)
LEMMA NoSlotIsTwice == LimitInv /\ CostInv => NoSlotTwice
<1> SUFFICES ASSUME LimitInv, CostInv PROVE NoSlotTwice
  OBVIOUS
<1> USE RateLimitAssumption
<1>t. /\ limiter \in {"held", "reserved"} /\ lastCallAt \in Int /\ \A c \in Calls : call[c].due \in Int
      /\ \A place \in Places : At(place) \subseteq Calls
  BY DEF LimitInv, LimitTypeOK, At
<1>c. At("called") \subseteq Calls /\ At("sleep") \subseteq Calls /\ At("gone") \subseteq Calls
  BY DEF At
<1>l. LastMade \in Int
  BY <1>t, <1>c, LastMadeIsLatest DEF Never
<1>1. CASE limiter = "held"
  <2>1. LastMade = lastCallAt
    BY <1>1, <1>t, <1>c, <1>l, LastMadeIsLatest DEF LimitInv, CallsArePast, CostInv, StampIsCall
  <2>2. \A c \in At("sleep") : call[c].due = LastMade + MinInterval /\ Ahead(c) = {}
    BY <1>1, <2>1 DEF LimitInv, SleeperHolds, Ahead
  <2>3. Cardinality({}) = 0 /\ MinInterval * (1 + 0) = MinInterval
    BY FS_EmptySet
  <2>4. ASSUME NEW c \in At("sleep")
        PROVE  call[c].due <= LastMade + MinInterval * (1 + Cardinality(Ahead(c)))
    <3>1. Cardinality(Ahead(c)) = 0
      BY <2>2, <2>3
    <3>2. call[c].due = LastMade + MinInterval * (1 + Cardinality(Ahead(c)))
      BY <2>2, <2>3, <3>1
    <3> QED
      BY <1>t, <1>c, <3>2
  <2> QED
    BY <2>4 DEF NoSlotTwice
<1>2. CASE limiter = "reserved"
  <2> DEFINE Within(c) == call[c].due <= LastMade + MinInterval * (1 + Cardinality(Ahead(c)))
             Past == At("sleep") \cup At("gone")
  <2>1. \A c : IsFiniteSet(Ahead(c)) /\ Cardinality(Ahead(c)) \in Nat
    BY <1>c, FS_Subset, FS_CardinalityType DEF Ahead
  <2>2. ASSUME NEW c \in Past, \A d \in Past : call[d].due < call[c].due => Within(d)
        PROVE  Within(c)
    <3>1. PICK d \in Taken : call[c].due = call[d].due + MinInterval
      BY <1>2, <2>2 DEF CostInv, SlotsFollow
    <3>2. d \in Calls /\ c \in Calls /\ call[d].due \in Int /\ call[c].due \in Int /\ call[d].due < call[c].due
      BY <1>t, <1>c, <3>1 DEF Taken
    <3>3. PICK n \in Nat : n = Cardinality(Ahead(c))
      BY <2>1
    <3>4. MinInterval * (1 + n) = MinInterval * n + MinInterval /\ MinInterval * n \in Nat
      BY <3>3, OneIntervalMore
    <3>5. CASE d \in At("called")
      <4>1. call[d].due <= LastMade
        BY <3>5, LastMadeIsLatest
      <4> QED
        BY <1>l, <3>1, <3>2, <3>3, <3>4, <4>1
    <3>6. CASE d \in Past
      <4>1. Ahead(d) \cup {d} \subseteq Ahead(c) /\ d \notin Ahead(d)
        BY <1>t, <1>c, <1>2, <3>2, <3>6 DEF Ahead
      <4>2. PICK m \in Nat : m = Cardinality(Ahead(d))
        BY <2>1
      <4>3. m + 1 <= n
        <5>1. Cardinality(Ahead(d) \cup {d}) = m + 1
          BY <2>1, <4>1, <4>2, FS_AddElement
        <5> QED
          BY <2>1, <3>3, <4>1, <5>1, FS_Subset
      <4>4. MinInterval * (m + 1) <= MinInterval * n /\ MinInterval * (1 + m) = MinInterval * (m + 1)
            /\ MinInterval * (m + 1) \in Nat
        BY <4>2, <4>3, <3>3, OneIntervalMore
      <4>5. call[d].due <= LastMade + MinInterval * (1 + m)
        BY <2>2, <3>2, <3>6, <4>2
      <4> QED
        BY <1>l, <3>1, <3>2, <3>3, <3>4, <4>4, <4>5
    <3> QED
      BY <3>5, <3>6 DEF Taken
  <2> HIDE DEF Within
  <2>3. \A c \in Past : Within(c)
    <3> DEFINE Bad == {c \in Past : ~Within(c)}
               due == [c \in Calls |-> call[c].due]
    <3> SUFFICES ASSUME Bad # {} PROVE FALSE
      OBVIOUS
    <3>1. Bad \in SUBSET Calls /\ due \in [Calls -> Int]
      BY <1>t, <1>c
    <3>2. PICK c \in Bad : \A d \in Bad : due[c] <= due[d]
      <4> HIDE DEF Bad, due
      <4> QED
        BY <3>1, EarliestExists
    <3>3. ASSUME NEW d \in Past, call[d].due < call[c].due PROVE Within(d)
      <4>1. c \in Calls /\ d \in Calls /\ due[c] = call[c].due /\ due[d] = call[d].due
        BY <1>c, <3>2
      <4>2. ~(due[c] <= due[d])
        BY <1>t, <3>3, <4>1
      <4> QED
        BY <3>2, <3>3, <4>2
    <3> QED
      BY <2>2, <3>2, <3>3
  <2> QED
    BY <2>3 DEF NoSlotTwice, Within
<1> QED
  BY <1>t, <1>1, <1>2

(* Who gives up does not wait for itself, nor twice for the sleeper.       *)
LEMMA GivenUpReturn == LimitInv /\ CostInv => GivenUpReturns
<1> SUFFICES ASSUME LimitInv, CostInv, NEW c \in At("lock") \cup At("sleep"), IsEnded(c)
             PROVE  clock - ended[c] <= IF limiter = "held" THEN MinInterval * (Cardinality(Calls) - 1) ELSE 0
  BY DEF GivenUpReturns
<1> USE RateLimitAssumption
<1>t. /\ limiter \in {"held", "reserved"} /\ clock \in Int /\ lastCallAt \in Int
      /\ c \in Calls /\ ended[c] \in Int /\ \A d \in Calls : call[d].due \in Int
  BY DEF LimitInv, LimitTypeOK, CostInv, ContextsEnd, At
<1>q. clock - ended[c] <= IF limiter = "reserved" THEN 0
                        ELSE MinInterval * Cardinality(Served) + IF c \in At("lock") THEN Asleep ELSE 0
  BY DEF CostInv, QueueMoves
<1>n. PICK n \in Nat : n = Cardinality(Calls)
  BY FS_CardinalityType
<1>k. PICK k \in Nat : k = Cardinality(Served)
  BY ServedCounts
<1>s. IsFiniteSet(Served) /\ Served \subseteq Calls /\ c \notin Served
  BY FS_Subset DEF Served, At
<1>1. k + 1 <= n
  <2>1. Served \cup {c} \subseteq Calls /\ Cardinality(Served \cup {c}) = k + 1
    BY <1>t, <1>k, <1>s, FS_AddElement
  <2> QED
    BY <1>n, <2>1, FS_Subset
<1>m. /\ MinInterval * (n - 1) \in Nat /\ MinInterval * k \in Nat /\ MinInterval * k <= MinInterval * (n - 1)
      /\ k + 1 <= n - 1 => MinInterval * k + MinInterval <= MinInterval * (n - 1)
  <2>1. n - 1 \in Nat /\ k <= n - 1 /\ k + 1 \in Nat
    BY <1>1
  <2> QED
    BY <2>1, OneIntervalMore
<1>2. CASE limiter = "held" /\ c \in At("lock") /\ At("sleep") # {}
  <2>1. PICK s \in At("sleep") : TRUE
    BY <1>2
  <2>2. s \in Calls /\ s # c /\ s \notin Served /\ call[s].due = lastCallAt + MinInterval /\ clock <= call[s].due
    BY <1>2 DEF At, Served, LimitInv, SleeperHolds, NobodyOversleeps
  <2>3. Asleep <= MinInterval /\ Asleep \in Int
    BY <1>t, <1>2, <2>2 DEF Asleep
  <2>4. k + 2 <= n
    <3>1. IsFiniteSet(Served \cup {c}) /\ Cardinality(Served \cup {c}) = k + 1 /\ s \notin Served \cup {c}
      BY <1>k, <1>s, <2>2, FS_AddElement
    <3>2. Cardinality((Served \cup {c}) \cup {s}) = k + 2
      BY <3>1, FS_AddElement
    <3>3. (Served \cup {c}) \cup {s} \subseteq Calls
      BY <1>t, <1>s, <2>2
    <3> QED
      BY <1>n, <3>2, <3>3, FS_Subset
  <2> QED
    BY <1>t, <1>q, <1>n, <1>k, <1>m, <1>2, <2>3, <2>4
<1>3. CASE limiter = "held" /\ ~(c \in At("lock") /\ At("sleep") # {})
  <2>1. clock - ended[c] <= MinInterval * k
    BY <1>t, <1>q, <1>k, <1>m, <1>3 DEF Asleep
  <2> QED
    BY <1>t, <1>n, <1>m, <1>3, <2>1
<1>4. CASE limiter = "reserved"
  BY <1>q, <1>4
<1> QED
  BY <1>t, <1>2, <1>3, <1>4

(* What a call that is given up costs, for any number of calls: a reserved *)
(* slot is lost and no more, and with the mutex held the caller waits for  *)
(* those before it and no longer.                                          *)
THEOREM GivingUpIsBounded == LimitSpec => []GivenUpCosts
<1>1. LimitInv /\ CostInv => GivenUpCosts
  BY NoSlotIsTwice, GivenUpReturn DEF GivenUpCosts
<1> QED
  BY <1>1, CostInvariance, PTL

-----------------------------------------------------------------------------
(* The board.  What is known of its variables: the cache holds a game once,*)
(* under the name of its teams, without bets; a game that is on is listed. *)
Entries == [state : {"FUT", "LIVE", "FINAL"}, lead : Leads \cup {"level"}, listed : BOOLEAN]
IsSnapshotGame(game) ==
  /\ game.id \in BoardGames
  /\ game.matchup = MatchupOf[game.id]
  /\ game.bets = <<>>
  /\ game = [id |-> game.id, matchup |-> game.matchup, state |-> game.state, lead |-> game.lead, bets |-> game.bets]

BoardShape ==
  /\ time \in Nat /\ pollAt \in Nat /\ failures \in Nat
  /\ liveSince \in [BoardGames -> Nat]
  /\ board \in [BoardGames -> Entries]
  /\ \A g \in BoardGames : board[g].state = "LIVE" => board[g].listed
  /\ snapshot = [games |-> snapshot.games, at |-> snapshot.at] /\ snapshot.at \in Int
  /\ \A game \in snapshot.games : IsSnapshotGame(game)
  /\ \A a, b \in snapshot.games : a.id = b.id => a = b
  /\ open \subseteq BoardBets

(* The timer fires within the interval that the cache calls for.           *)
TimerIsSet == time <= pollAt /\ pollAt <= time + NextInterval(snapshot.games) + FirstPoll

(* It fires before what the cache shows is too old, ...                    *)
LiveIsDue == LiveShown => pollAt <= snapshot.at + Promised

(* ... and before a game that went live has waited too long.               *)
StartsAreDue == \A g \in BoardGames : Unnoticed(g) => pollAt <= liveSince[g] + Promised

BoardInv == BoardShape /\ TimerIsSet /\ LiveIsDue /\ StartsAreDue

(* Every interval is a number of ticks, the first poll's included.         *)
LEMMA IntervalsAreNat ==
  ASSUME NEW games
  PROVE  NextInterval(games) \in {LiveEvery, IdleEvery, NoGamesEvery} /\ NextInterval(games) \in Nat
<1> HIDE DEF IsLive
<1> QED
  BY IntervalsAssumption DEF NextInterval

LEMMA FirstPollIsNat == FirstPoll \in Nat
  BY IntervalsAssumption DEF FirstPoll

(* What is promised grows by the interval with every failure.              *)
LEMMA PromisesGrow ==
  ASSUME NEW i \in Nat, NEW n \in Nat
  PROVE  /\ i * (1 + n) \in Nat /\ i <= i * (1 + n)
         /\ i * (1 + (n + 1)) = i * (1 + n) + i
         /\ i * (1 + 0) = i
<1>1. i * (1 + n) = i + i * n /\ i * n \in Nat
  BY SMT
<1>2. i * (1 + (n + 1)) = i * (1 + n) + i
  BY SMT
<1> QED
  BY <1>1, <1>2

(* What the NHL answers is what a snapshot may hold. *)
LEMMA NormalizedIsShape ==
  /\ \A game \in Normalized : IsSnapshotGame(game) /\ game.state = board[game.id].state
  /\ \A a, b \in Normalized : a.id = b.id => a = b
  /\ \A g \in BoardGames : board[g].listed => \E game \in Normalized : game.id = g /\ game.state = board[g].state
<1> DEFINE Game(g) == [id |-> g, matchup |-> MatchupOf[g], state |-> board[g].state, lead |-> board[g].lead, bets |-> <<>>]
<1>1. Normalized = {Game(g) : g \in {h \in BoardGames : board[h].listed}}
  BY DEF Normalized
<1>2. \A g \in BoardGames : IsSnapshotGame(Game(g)) /\ Game(g).id = g /\ Game(g).state = board[g].state
  BY DEF IsSnapshotGame
<1> HIDE DEF Game
<1> QED
  BY <1>1, <1>2

(* The server starts with the timer set. *)
LEMMA BoardStarts == BoardInit => BoardInv
<1> SUFFICES ASSUME BoardInit PROVE BoardInv
  OBVIOUS
<1> USE IntervalsAssumption
<1>1. BoardShape
  <2>1. board \in [BoardGames -> [state : {"FUT", "LIVE"}, lead : {"level"}, listed : {TRUE}]]
    BY DEF BoardInit
  <2>2. \A g \in BoardGames : board[g] \in Entries /\ board[g].listed
    BY <2>1 DEF Entries
  <2>3. board \in [BoardGames -> Entries]
    BY <2>1, <2>2
  <2>5. /\ snapshot = [games |-> snapshot.games, at |-> snapshot.at] /\ snapshot.at \in Int
        /\ snapshot.games = {} \/ snapshot.games = Normalized
    BY DEF BoardInit, NoSnapshot
  <2>6. failures \in Nat /\ time \in Nat /\ pollAt \in Nat /\ liveSince \in [BoardGames -> Nat] /\ open \subseteq BoardBets
    BY DEF BoardInit
  <2> QED
    BY <2>2, <2>3, <2>5, <2>6, NormalizedIsShape DEF BoardShape
<1>2. NextInterval(snapshot.games) \in Nat /\ FirstPoll \in Nat
  BY IntervalsAreNat, FirstPollIsNat
<1>3. pollAt <= NextInterval(snapshot.games) + FirstPoll
  <2>1. CASE LiveShown /\ snapshot.at = 0
    <3>1. NextInterval(snapshot.games) = LiveEvery
      BY <2>1 DEF LiveShown, NextInterval
    <3> QED
      BY <2>1, <3>1 DEF FirstPoll, BoardInit
  <2>2. CASE ~(LiveShown /\ snapshot.at = 0)
    <3>1. ~LiveShown
      BY <2>2 DEF BoardInit, NoSnapshot, LiveShown
    <3>2. NextInterval(snapshot.games) \in {IdleEvery, NoGamesEvery}
      BY <3>1 DEF LiveShown, NextInterval
    <3> QED
      BY <1>2, <3>2 DEF BoardInit
  <2> QED
    BY <2>1, <2>2
<1>4. pollAt <= Promised
  BY <1>1, <1>2, <1>3, PromisesGrow DEF Promised, BoardShape
<1>5. LiveShown => snapshot.at = 0
  BY DEF BoardInit, NoSnapshot, LiveShown
<1>6. /\ time = 0 /\ pollAt \in Nat /\ 0 <= pollAt /\ NextInterval(snapshot.games) + FirstPoll \in Nat
      /\ \A g \in BoardGames : liveSince[g] = 0
  BY <1>2 DEF BoardInit
<1>7. TimerIsSet
  BY <1>2, <1>3, <1>6 DEF TimerIsSet
<1>8. Promised \in Nat
  BY <1>1, <1>2, PromisesGrow DEF Promised, BoardShape
<1>9. LiveIsDue /\ StartsAreDue
  BY <1>4, <1>5, <1>6, <1>8 DEF LiveIsDue, StartsAreDue
<1> QED
  BY <1>1, <1>7, <1>9 DEF BoardInv

(* A step that leaves timer and cache alone, in which games only end or    *)
(* are put off.                                                            *)
LEMMA NothingIsDueSooner ==
  ASSUME BoardInv, BoardShape', UNCHANGED <<time, liveSince, snapshot, pollAt, failures>>,
         \A g \in BoardGames : board'[g].state = "LIVE" => board[g].state = "LIVE"
  PROVE  BoardInv'
  BY DEF BoardInv, TimerIsSet, LiveIsDue, StartsAreDue, Unnoticed, LiveShown, Promised, FirstPoll

(* A game on the board changes. *)
LEMMA BoardChanges ==
  ASSUME BoardShape, NEW g \in BoardGames, NEW e \in Entries, e.state = "LIVE" => e.listed,
         board' = [board EXCEPT ![g] = e],
         UNCHANGED <<time, snapshot, pollAt, failures, open>>, liveSince' \in [BoardGames -> Nat]
  PROVE  BoardShape' /\ board'[g] = e /\ \A h \in BoardGames : h # g => board'[h] = board[h]
<1>1. \A h \in BoardGames : board'[h] = IF h = g THEN e ELSE board[h]
  BY DEF BoardShape
<1>2. board' \in [BoardGames -> Entries]
  BY DEF BoardShape
<1> QED
  BY <1>1, <1>2 DEF BoardShape, IsSnapshotGame

(* Every step keeps the timer ahead of what is promised.                   *)
LEMMA BoardKeeps == BoardInv /\ [BoardNext]_boardVars => BoardInv'
<1> SUFFICES ASSUME BoardInv, [BoardNext]_boardVars PROVE BoardInv'
  OBVIOUS
<1> USE IntervalsAssumption
<1>s. BoardShape
  BY DEF BoardInv
<1>t. /\ time \in Nat /\ pollAt \in Nat /\ failures \in Nat /\ snapshot.at \in Int
      /\ \A g \in BoardGames : liveSince[g] \in Nat
      /\ \A g \in BoardGames : board[g] \in Entries
  BY <1>s DEF BoardShape
<1>n. NextInterval(snapshot.games) \in Nat /\ FirstPoll \in Nat /\ NextInterval(snapshot.games) * (1 + failures) \in Nat
      /\ NextInterval(snapshot.games) <= NextInterval(snapshot.games) * (1 + failures)
  BY <1>t, IntervalsAreNat, FirstPollIsNat, PromisesGrow
<1>1. ASSUME NEW g \in BoardGames, GameStarts(g) PROVE BoardInv'
  <2>1. PICK e \in Entries : board' = [board EXCEPT ![g] = e] /\ e.listed
    <3>1. board' = [board EXCEPT ![g] = [board[g] EXCEPT !.state = "LIVE"]]
      BY <1>1 DEF GameStarts
    <3>2. board[g] \in Entries /\ board[g].listed
      BY <1>t, <1>1 DEF GameStarts
    <3>3. [board[g] EXCEPT !.state = "LIVE"] \in Entries /\ [board[g] EXCEPT !.state = "LIVE"].listed
      BY <3>2 DEF Entries
    <3> QED
      BY <3>1, <3>3
  <2>2. liveSince' \in [BoardGames -> Nat] /\ \A h \in BoardGames : liveSince'[h] = IF h = g THEN time ELSE liveSince[h]
    BY <1>s, <1>1 DEF GameStarts, BoardShape
  <2>3. UNCHANGED <<time, snapshot, pollAt, failures, open>>
    BY <1>1 DEF GameStarts
  <2>4. BoardShape' /\ \A h \in BoardGames : h # g => board'[h] = board[h]
    BY <1>s, <2>1, <2>2, <2>3, BoardChanges
  <2>5. Promised' = Promised /\ (LiveShown' <=> LiveShown) /\ FirstPoll' = FirstPoll
    BY <2>3 DEF Promised, LiveShown, FirstPoll
  <2>6. StartsAreDue'
    <3>1. pollAt <= time + Promised
      BY <1>t, <1>n DEF BoardInv, TimerIsSet, Promised
    <3> QED
      BY <2>2, <2>3, <2>4, <2>5, <3>1 DEF BoardInv, StartsAreDue, Unnoticed
  <2>7. TimerIsSet' /\ LiveIsDue'
    BY <2>3, <2>5 DEF BoardInv, TimerIsSet, LiveIsDue
  <2> QED
    BY <2>4, <2>6, <2>7 DEF BoardInv
<1>2. ASSUME NEW g \in BoardGames, GameEnds(g) \/ PutOff(g) \/ \E lead \in Leads : Scores(g, lead) PROVE BoardInv'
  <2>1. PICK e \in Entries : board' = [board EXCEPT ![g] = e] /\ (e.state = "LIVE" => board[g].state = "LIVE" /\ e.listed)
    <3>0. board[g] \in Entries /\ (board[g].state = "LIVE" => board[g].listed)
      BY <1>s, <1>t DEF BoardShape
    <3>1. CASE GameEnds(g)
      <4>1. board' = [board EXCEPT ![g] = [board[g] EXCEPT !.state = "FINAL"]]
        BY <3>1 DEF GameEnds
      <4>2. [board[g] EXCEPT !.state = "FINAL"] \in Entries /\ [board[g] EXCEPT !.state = "FINAL"].state = "FINAL"
        BY <3>0 DEF Entries
      <4> QED
        BY <4>1, <4>2
    <3>2. CASE PutOff(g)
      <4>1. board' = [board EXCEPT ![g] = [board[g] EXCEPT !.listed = FALSE]] /\ board[g].state = "FUT"
        BY <3>2 DEF PutOff
      <4>2. [board[g] EXCEPT !.listed = FALSE] \in Entries /\ [board[g] EXCEPT !.listed = FALSE].state = "FUT"
        BY <3>0, <4>1 DEF Entries
      <4> QED
        BY <4>1, <4>2
    <3>3. ASSUME NEW lead \in Leads, Scores(g, lead)
          PROVE  \E e \in Entries : board' = [board EXCEPT ![g] = e] /\ (e.state = "LIVE" => board[g].state = "LIVE" /\ e.listed)
      <4>1. board' = [board EXCEPT ![g] = [board[g] EXCEPT !.lead = lead]] /\ board[g].state = "LIVE"
        BY <3>3 DEF Scores
      <4>2. [board[g] EXCEPT !.lead = lead] \in Entries /\ [board[g] EXCEPT !.lead = lead].listed = board[g].listed
        BY <3>0 DEF Entries
      <4> QED
        BY <3>0, <4>1, <4>2
    <3> QED
      BY <1>2, <3>1, <3>2, <3>3
  <2>2. UNCHANGED <<time, liveSince, snapshot, pollAt, failures, open>>
    BY <1>2 DEF GameEnds, PutOff, Scores
  <2>3. BoardShape' /\ board'[g] = e /\ \A h \in BoardGames : h # g => board'[h] = board[h]
    BY <1>s, <2>1, <2>2, BoardChanges DEF BoardShape
  <2> QED
    BY <2>1, <2>2, <2>3, NothingIsDueSooner
<1>3. ASSUME NEW b \in open, BetCloses(b) PROVE BoardInv'
  <2>1. BoardShape'
    BY <1>s, <1>3 DEF BetCloses, BoardShape, IsSnapshotGame
  <2> QED
    BY <1>3, <2>1, NothingIsDueSooner DEF BetCloses
<1>4. CASE Fetch
  <2>1. /\ snapshot' = [games |-> Normalized, at |-> time] /\ failures' = 0 /\ pollAt' = time + NextInterval(Normalized)
        /\ snapshot'.games = Normalized /\ snapshot'.at = time /\ UNCHANGED <<time, board, liveSince, open>>
    BY <1>4 DEF Fetch
  <2>2. NextInterval(Normalized) \in Nat /\ FirstPoll' \in Nat
    BY <2>1, IntervalsAreNat DEF FirstPoll
  <2>3. BoardShape'
    <3>1. /\ snapshot' = [games |-> snapshot'.games, at |-> snapshot'.at] /\ snapshot'.at \in Int
          /\ failures' \in Nat /\ pollAt' \in Nat
      BY <1>t, <2>1, <2>2
    <3>2. UNCHANGED <<time, board, liveSince, open>> /\ snapshot'.games = Normalized
      BY <2>1
    <3> QED
      BY <1>s, <3>1, <3>2, NormalizedIsShape DEF BoardShape, IsSnapshotGame
  <2>4. Promised' = NextInterval(Normalized) + FirstPoll'
    BY <2>1, <2>2, PromisesGrow DEF Promised
  <2>5. TimerIsSet' /\ LiveIsDue'
    BY <1>t, <2>1, <2>2, <2>4 DEF TimerIsSet, LiveIsDue
  <2>6. \A g \in BoardGames : ~Unnoticed(g)'
    <3> SUFFICES ASSUME NEW g \in BoardGames, board[g].state = "LIVE"
                 PROVE  \E game \in Normalized : game.id = g /\ game.state # "FUT"
      BY <2>1 DEF Unnoticed
    <3> QED
      BY <1>s, NormalizedIsShape DEF BoardShape
  <2> QED
    BY <2>3, <2>5, <2>6 DEF BoardInv, StartsAreDue
<1>5. CASE ScoresFail
  <2>1. /\ pollAt = time /\ failures' = failures + 1 /\ pollAt' = time + NextInterval(snapshot.games)
        /\ UNCHANGED <<time, board, liveSince, snapshot, open>>
    BY <1>5 DEF ScoresFail
  <2>2. BoardShape'
    BY <1>s, <1>n, <1>t, <2>1 DEF BoardShape, IsSnapshotGame
  <2>3. (LiveShown' <=> LiveShown) /\ FirstPoll' = FirstPoll
    BY <2>1 DEF LiveShown, FirstPoll
  <2>4. Promised' = Promised + NextInterval(snapshot.games) /\ Promised \in Nat
    BY <1>t, <1>n, <2>1, <2>3, PromisesGrow DEF Promised
  <2>5. TimerIsSet'
    BY <1>t, <1>n, <2>1, <2>3 DEF TimerIsSet
  <2>6. LiveIsDue'
    BY <1>t, <1>n, <2>1, <2>3, <2>4 DEF BoardInv, LiveIsDue
  <2>7. StartsAreDue'
    BY <1>t, <1>n, <2>1, <2>3, <2>4 DEF BoardInv, StartsAreDue, Unnoticed
  <2> QED
    BY <2>2, <2>5, <2>6, <2>7 DEF BoardInv
<1>6. CASE TimePasses
  <2>1. time < pollAt /\ time' = time + 1 /\ UNCHANGED <<board, liveSince, snapshot, pollAt, failures, open>>
    BY <1>6 DEF TimePasses
  <2>2. BoardShape'
    BY <1>s, <1>t, <2>1 DEF BoardShape, IsSnapshotGame
  <2>3. (LiveShown' <=> LiveShown) /\ FirstPoll' = FirstPoll /\ Promised' = Promised
    BY <2>1 DEF LiveShown, FirstPoll, Promised
  <2>4. TimerIsSet'
    BY <1>t, <1>n, <2>1, <2>3 DEF BoardInv, TimerIsSet
  <2> QED
    BY <2>1, <2>2, <2>3, <2>4 DEF BoardInv, LiveIsDue, StartsAreDue, Unnoticed
<1>7. CASE Show \/ Answered \/ UNCHANGED boardVars
  <2>1. UNCHANGED <<time, board, liveSince, snapshot, pollAt, failures, open>>
    BY <1>7 DEF Show, Answered, boardVars
  <2>2. BoardShape'
    BY <1>s, <2>1 DEF BoardShape, IsSnapshotGame
  <2> QED
    BY <2>1, <2>2, NothingIsDueSooner
<1> QED
  BY <1>1, <1>2, <1>3, <1>4, <1>5, <1>6, <1>7 DEF BoardNext, BoardMoves

BoardSpec == BoardInit /\ [][BoardNext]_boardVars

(* The invariant of the board always holds.                                *)
LEMMA BoardInvariance == BoardSpec => []BoardInv
  BY BoardStarts, BoardKeeps, PTL DEF BoardSpec

(* The board is as fresh as the intervals promise, for any games of a day, *)
(* however often the polls fail.                                           *)
THEOREM BoardStaysFresh == BoardSpec => []BoardIsFresh
<1>1. BoardInv => BoardIsFresh
  <2> SUFFICES ASSUME BoardInv PROVE BoardIsFresh
    OBVIOUS
  <2>1. /\ time \in Nat /\ pollAt \in Nat /\ failures \in Nat /\ snapshot.at \in Int
        /\ \A g \in BoardGames : liveSince[g] \in Nat
    BY DEF BoardInv, BoardShape
  <2>2. Promised \in Nat
    BY <2>1, IntervalsAreNat, FirstPollIsNat, PromisesGrow DEF Promised
  <2> QED
    BY <2>1, <2>2 DEF BoardInv, TimerIsSet, LiveIsDue, StartsAreDue, BoardIsFresh, LiveIsFresh, StartIsNoticed
<1> QED
  BY <1>1, BoardInvariance, PTL

-----------------------------------------------------------------------------
(* The page.  A finite set has an order without repetitions.               *)
LEMMA OrderExists ==
  ASSUME NEW S, IsFiniteSet(S)
  PROVE  LET o == CHOOSE o \in [1..Cardinality(S) -> S] : \A x \in S : \E i \in DOMAIN o : o[i] = x
         IN  /\ o \in [1..Cardinality(S) -> S] /\ Cardinality(S) \in Nat
             /\ \A i, j \in 1..Cardinality(S) : i # j => o[i] # o[j]
<1> DEFINE n == Cardinality(S)
           Lists(o) == \A x \in S : \E i \in DOMAIN o : o[i] = x
           o == CHOOSE o \in [1..n -> S] : Lists(o)
<1>1. n \in Nat /\ ExistsBijection(1..n, S)
  BY FS_CardinalityType
<1>2. \E f \in [1..n -> S] : Lists(f)
  <2>1. PICK f \in Bijection(1..n, S) : TRUE
    BY <1>1 DEF ExistsBijection
  <2>2. f \in [1..n -> S] /\ \A x \in S : \E i \in 1..n : f[i] = x
    BY <2>1 DEF Bijection, Surjection, Injection
  <2> QED
    BY <2>2
<1>3. o \in [1..n -> S] /\ Lists(o)
  <2> HIDE DEF Lists, n
  <2> QED
    BY <1>2
<1> HIDE DEF o
<1>4. o \in Surjection(1..n, S)
  BY <1>3 DEF Surjection
<1>5. IsFiniteSet(1..n) /\ Cardinality(1..n) = n
  BY <1>1, FS_Interval
<1>6. o \in Injection(1..n, S)
  BY <1>4, <1>5, FS_SurjSameCardinalityImpliesInj
<1>7. \A i, j \in 1..n : i # j => o[i] # o[j]
  BY <1>6 DEF Injection, IsInjective
<1> QED
  BY <1>1, <1>3, <1>7 DEF o

(* What a game of the page is: one of the snapshot's, with its open bets.  *)
IsShown(shown, game) ==
  /\ shown.id = game.id /\ shown.matchup = game.matchup /\ shown.state = game.state /\ shown.lead = game.lead
  /\ \A i \in DOMAIN shown.bets : /\ shown.bets[i].bet \in MatchingBets(game)
                                  /\ shown.bets[i].winning = EvaluateBetStatus(shown.bets[i].bet, game)
  /\ \A i, j \in DOMAIN shown.bets : i # j => shown.bets[i].bet # shown.bets[j].bet

(* Bets are laid over a game one by one. *)
LEMMA BetsAreLaid ==
  ASSUME BoardShape, NEW game \in snapshot.games
  PROVE  IsShown(WithBets(game), game)
<1> DEFINE bets == MatchingBets(game)
           n == Cardinality(bets)
           order == CHOOSE o \in [1..n -> bets] : \A b \in bets : \E i \in DOMAIN o : o[i] = b
           laid == [i \in DOMAIN order |-> [bet |-> order[i], winning |-> EvaluateBetStatus(order[i], game)]]
<1>1. IsFiniteSet(bets)
  BY BoardAssumption, FS_Subset DEF MatchingBets, BoardShape
<1>2. order \in [1..n -> bets] /\ n \in Nat /\ \A i, j \in 1..n : i # j => order[i] # order[j]
  <2> HIDE DEF bets
  <2> QED
    BY <1>1, OrderExists
<1>3. /\ IsSnapshotGame(game)
      /\ WithBets(game) = [game EXCEPT !.bets = game.bets \o laid]
  BY DEF BoardShape, WithBets
<1> HIDE DEF bets, n, order
<1>4. /\ laid \in Seq([bet : bets, winning : {EvaluateBetStatus(b, game) : b \in bets}])
      /\ DOMAIN laid = 1..n
      /\ \A i \in 1..n : laid[i].bet = order[i] /\ laid[i].winning = EvaluateBetStatus(order[i], game)
  <2> HIDE DEF EvaluateBetStatus
  <2>1. DOMAIN laid = 1..n
    BY <1>2
  <2>2. \A i \in 1..n : laid[i] = [bet |-> order[i], winning |-> EvaluateBetStatus(order[i], game)] /\ order[i] \in bets
    BY <1>2
  <2>3. laid \in [1..n -> [bet : bets, winning : {EvaluateBetStatus(b, game) : b \in bets}]]
    BY <2>1, <2>2
  <2>4. n \in Nat
    BY <1>2
  <2> DEFINE R == [bet : bets, winning : {EvaluateBetStatus(b, game) : b \in bets}]
  <2>5. laid \in [1..n -> R]
    BY <2>3
  <2>6. \A i \in 1..n : laid[i].bet = order[i] /\ laid[i].winning = EvaluateBetStatus(order[i], game)
    <3> SUFFICES ASSUME NEW i \in 1..n
                 PROVE  laid[i].bet = order[i] /\ laid[i].winning = EvaluateBetStatus(order[i], game)
      OBVIOUS
    <3>1. PICK b, w : b = order[i] /\ w = EvaluateBetStatus(order[i], game)
      OBVIOUS
    <3>2. laid[i] = [bet |-> b, winning |-> w]
      BY <2>2, <3>1
    <3> HIDE DEF laid
    <3>3. laid[i].bet = b /\ laid[i].winning = w
      BY <3>2
    <3> QED
      BY <3>1, <3>3
  <2> HIDE DEF laid, R
  <2>7. laid \in Seq(R)
    BY <2>4, <2>5
  <2> QED
    BY <2>1, <2>6, <2>7 DEF R
<1> HIDE DEF laid
<1>5. game.bets \o laid = laid
  BY <1>3, <1>4, ConcatEmptySeq DEF IsSnapshotGame
<1>6. WithBets(game) = [id |-> game.id, matchup |-> game.matchup, state |-> game.state, lead |-> game.lead, bets |-> laid]
  BY <1>3, <1>5 DEF IsSnapshotGame
<1>7. \A i \in 1..n : order[i] \in MatchingBets(game)
  BY <1>2 DEF bets
<1> QED
  BY <1>2, <1>4, <1>6, <1>7 DEF IsShown

(* A page that shows the snapshot's games shows bets as it should.         *)
LEMMA PageIsRight ==
  ASSUME BoardShape, page' = [shown |-> TRUE, games |-> {WithBets(game) : game \in snapshot.games}]
  PROVE  BetsShownRight'
<1>1. \A shown \in page'.games : \E game \in snapshot.games : IsShown(shown, game) /\ shown = WithBets(game)
  BY BetsAreLaid
<1>2. \A game \in snapshot.games : IsSnapshotGame(game)
  BY DEF BoardShape
<1>3. ASSUME NEW shown \in page'.games, NEW i \in DOMAIN shown.bets
      PROVE  /\ shown.bets[i].bet.matchup = shown.matchup /\ shown.bets[i].bet \in BoardBets
             /\ \A j \in DOMAIN shown.bets : i # j => shown.bets[i].bet # shown.bets[j].bet
             /\ shown.id \in BoardGames /\ shown.matchup = MatchupOf[shown.id]
  BY <1>1, <1>2, <1>3 DEF IsShown, MatchingBets, BoardShape, IsSnapshotGame
<1>4. ASSUME NEW a \in page'.games, NEW b \in page'.games, a.id = b.id
      PROVE  a = b
  BY <1>1, <1>4 DEF IsShown, BoardShape
<1>5. ShownOnce'
  <2>1. ASSUME NEW a \in page'.games, NEW b \in page'.games, NEW i \in DOMAIN a.bets, NEW j \in DOMAIN b.bets,
               a.bets[i].bet = b.bets[j].bet
        PROVE  a = b
    <3>1. /\ a.matchup = b.matchup /\ a.matchup # "" /\ a.id \in BoardGames /\ b.id \in BoardGames
          /\ a.matchup = MatchupOf[a.id] /\ b.matchup = MatchupOf[b.id]
      <4>1. a.bets[i].bet.matchup = a.matchup /\ a.bets[i].bet \in BoardBets /\ a.id \in BoardGames /\ a.matchup = MatchupOf[a.id]
        BY <1>3, <2>1
      <4>2. b.bets[j].bet.matchup = b.matchup /\ b.id \in BoardGames /\ b.matchup = MatchupOf[b.id]
        BY <1>3, <2>1
      <4>3. \A bet \in BoardBets : bet.matchup # ""
        BY BoardAssumption
      <4> QED
        BY <2>1, <4>1, <4>2, <4>3
    <3>2. a.id = b.id
      BY <3>1, BoardAssumption
    <3> QED
      BY <1>4, <3>2
  <2> QED
    BY <1>3, <2>1 DEF ShownOnce
<1>6. WinningIsWon'
  <2> SUFFICES ASSUME NEW shown \in page'.games, IsComplete(shown), NEW i \in DOMAIN shown.bets
               PROVE  shown.bets[i].winning <=> AutoWins(shown.bets[i].bet, shown)
    BY DEF WinningIsWon, IsComplete, AutoWins
  <2>1. PICK game \in snapshot.games : IsShown(shown, game)
    BY <1>1
  <2>2. PICK bet \in BoardBets : bet = shown.bets[i].bet
    BY <1>3
  <2>3. shown.bets[i].winning = EvaluateBetStatus(bet, game) /\ shown.lead = game.lead /\ shown.state = game.state
    BY <2>1, <2>2 DEF IsShown
  <2>4. bet.market = "h2h" => bet.side \in {"home", "away"}
    BY BoardAssumption
  <2>5. EvaluateBetStatus(bet, game) <=> AutoWins(bet, shown)
    BY <2>3, <2>4 DEF EvaluateBetStatus, AutoWins, IsComplete
  <2> QED
    BY <2>2, <2>3, <2>5
<1> QED
  BY <1>5, <1>6 DEF BetsShownRight

(* An empty page is right, and a page stays as it is given.                *)
LEMMA PageStays ==
  /\ page = NoPage => BetsShownRight
  /\ BetsShownRight /\ UNCHANGED page => BetsShownRight'
  BY DEF NoPage, BetsShownRight, ShownOnce, WinningIsWon, IsComplete, AutoWins

(* A page shows a bet once, on the game of its teams, and of a game that   *)
(* is over calls winning what auto_settlement will settle as won, for any  *)
(* bets and games and however polls and closing bets interleave.           *)
THEOREM PageIsTrue == BoardSpec => []BetsShownRight
<1>1. BoardInit => BetsShownRight
  BY PageStays DEF BoardInit
<1>2. BoardInv /\ BetsShownRight /\ [BoardNext]_boardVars => BetsShownRight'
  <2> SUFFICES ASSUME BoardShape, BetsShownRight, [BoardNext]_boardVars PROVE BetsShownRight'
    BY DEF BoardInv
  <2>1. CASE Show
    BY <2>1, PageIsRight DEF Show
  <2>2. CASE Answered
    <3>1. page' = NoPage
      BY <2>2 DEF Answered
    <3>2. BetsShownRight'
      BY <3>1 DEF NoPage, BetsShownRight, ShownOnce, WinningIsWon
    <3> QED
      BY <3>2
  <2>3. CASE ~Show /\ ~Answered
    <3>1. UNCHANGED page
      BY <2>3 DEF BoardNext, BoardMoves, GameStarts, Scores, GameEnds, PutOff, BetCloses, Fetch, ScoresFail, TimePasses, boardVars
    <3> QED
      BY <3>1, PageStays
  <2> QED
    BY <2>1, <2>2, <2>3
<1> QED
  BY <1>1, <1>2, BoardInvariance, PTL DEF BoardSpec

=============================================================================
