------------------------------ MODULE RateLimit ------------------------------
(***************************************************************************)
(* waitRateLimit, the two versions there are.  The clients of The Odds API *)
(* (odds and scores) sleep with their mutex held until the interval since  *)
(* the last call is over ("held").  The client of the NHL's scoreboard     *)
(* reserves the next slot under its mutex, and sleeps without it           *)
(* ("reserved").  A call may be given up at any time: its context ends.    *)
(*                                                                         *)
(* Computing takes no time: the clock waits for whoever can go on.         *)
(***************************************************************************)
EXTENDS Integers, FiniteSets

CONSTANTS Calls,         \* calls of one client, each of them made once
          MinInterval,   \* ticks between two calls, at least one
          MaxClock       \* bound: the end of time

ASSUME RateLimitAssumption == IsFiniteSet(Calls) /\ MinInterval \in Nat \ {0} /\ MaxClock \in Nat

VARIABLES limiter,       \* "held" or "reserved"
          clock,
          lastCallAt,    \* MinInterval in the past, or earlier, before the first
          call,          \* [Calls -> [at, due, stamp, ended]]
          ended          \* [Calls -> when the context of the call ended]

limitVars == <<limiter, clock, lastCallAt, call, ended>>

Never == -MinInterval
NotEnded == MaxClock + 1

LimitInit == /\ limiter \in {"held", "reserved"}
             /\ clock = 0
             /\ lastCallAt = Never
             /\ call = [c \in Calls |-> [at |-> "new", due |-> 0]]
             /\ ended = [c \in Calls |-> NotEnded]

At(place) == {c \in Calls : call[c].at = place}
IsEnded(c) == ended[c] <= clock

-----------------------------------------------------------------------------
Arrive(c) ==
  /\ call[c].at = "new"
  /\ call' = [call EXCEPT ![c].at = "lock"]
  /\ UNCHANGED <<limiter, clock, lastCallAt, ended>>

GiveUp(c) ==
  /\ call[c].at \in {"lock", "sleep"} /\ ~IsEnded(c)
  /\ ended' = [ended EXCEPT ![c] = clock]
  /\ UNCHANGED <<limiter, clock, lastCallAt, call>>

CallNow(c) == call' = [call EXCEPT ![c] = [at |-> "called", due |-> clock]]

Sleep(c, wait) == call' = [call EXCEPT ![c] = [at |-> "sleep", due |-> clock + wait]]

Wait == MinInterval - (clock - lastCallAt)

(* Whoever sleeps has the mutex; the contexts of those who want it are not *)
(* looked at.                                                              *)
EnterHeld(c) ==
  /\ limiter = "held" /\ At("sleep") = {}
  /\ call[c].at = "lock"
  /\ \/ /\ Wait <= 0 /\ lastCallAt' = clock
        /\ CallNow(c)
     \/ /\ Wait > 0 /\ Sleep(c, Wait)
        /\ UNCHANGED lastCallAt
  /\ UNCHANGED <<limiter, clock, ended>>

\* Faulty variant: the time of the call is stamped, not that of its slot.
EnterUnreserved(c) ==
  /\ limiter = "reserved"
  /\ call[c].at = "lock"
  /\ lastCallAt' = clock
  /\ \/ Wait <= 0 /\ CallNow(c)
     \/ Wait > 0 /\ Sleep(c, Wait)
  /\ UNCHANGED <<limiter, clock, ended>>

(* The slot is taken at once, by whoever sleeps for it. *)
EnterReserved(c) ==
  /\ limiter = "reserved"
  /\ call[c].at = "lock"
  /\ \/ /\ Wait <= 0 /\ lastCallAt' = clock
        /\ CallNow(c)
     \/ /\ Wait > 0 /\ lastCallAt' = clock + Wait
        /\ Sleep(c, Wait)
  /\ UNCHANGED <<limiter, clock, ended>>

Wake(c) ==
  /\ call[c].at = "sleep" /\ call[c].due <= clock
  /\ CallNow(c)
  /\ lastCallAt' = IF limiter = "held" THEN clock ELSE lastCallAt
  /\ UNCHANGED <<limiter, clock, ended>>

\* Faulty variant: a call that is given up counts as one.
LeaveStamped(c) ==
  /\ call[c].at = "sleep" /\ IsEnded(c)
  /\ call' = [call EXCEPT ![c].at = "gone"]
  /\ lastCallAt' = IF limiter = "held" THEN clock ELSE lastCallAt
  /\ UNCHANGED <<limiter, clock, ended>>

(* The sleep is cut short; a reserved slot stays reserved.                 *)
Leave(c) ==
  /\ call[c].at = "sleep" /\ IsEnded(c)
  /\ call' = [call EXCEPT ![c].at = "gone"]
  /\ UNCHANGED <<limiter, clock, lastCallAt, ended>>

\* Faulty variant: the context is not watched.
CanMoveUnwatched(c) == \/ call[c].at = "lock" /\ (limiter = "reserved" \/ At("sleep") = {})
                       \/ call[c].at = "sleep" /\ call[c].due <= clock

CanMove(c) == \/ call[c].at = "lock" /\ (limiter = "reserved" \/ At("sleep") = {})
              \/ call[c].at = "sleep" /\ (call[c].due <= clock \/ IsEnded(c))

Tick ==
  /\ \A c \in Calls : ~CanMove(c)
  /\ clock < MaxClock /\ clock' = clock + 1
  /\ UNCHANGED <<limiter, lastCallAt, call, ended>>

(* At the bound the system rests. *)
TimeIsUp == clock = MaxClock /\ UNCHANGED limitVars

LimitNext == \/ \E c \in Calls : \/ Arrive(c) \/ GiveUp(c) \/ Wake(c) \/ Leave(c)
                                 \/ EnterHeld(c) \/ EnterReserved(c)
             \/ Tick \/ TimeIsUp

LimitSpec == LimitInit /\ [][LimitNext]_limitVars

-----------------------------------------------------------------------------
(* However calls arrive, wait and are given up, the client makes no two of *)
(* them within the interval.                                               *)
CallsSpaced ==
  \A c, d \in At("called") : c # d => \/ call[c].due - call[d].due >= MinInterval
                                      \/ call[d].due - call[c].due >= MinInterval

(* Nobody sleeps past the interval after the last call made.  That is so   *)
(* where the sleeper holds the mutex: a call given up costs the others     *)
(* nothing.  A reserved slot is lost: the next sleep past it.              *)
LastMade == IF At("called") = {} THEN Never
            ELSE call[CHOOSE c \in At("called") : \A d \in At("called") : call[d].due <= call[c].due].due
Ahead(c) == IF limiter = "held" THEN {}
            ELSE {d \in At("gone") \cup At("sleep") : call[d].due < call[c].due}
NoSlotTwice ==
  \A c \in At("sleep") : call[c].due <= LastMade + MinInterval * (1 + Cardinality(Ahead(c)))

(* A call that is given up returns at once where slots are reserved.  With *)
(* the mutex held it waits for the sleeper, and for whoever gets the mutex *)
(* before it: an interval each.                                            *)
GivenUpReturns ==
  \A c \in At("lock") \cup At("sleep") : IsEnded(c) =>
    clock - ended[c] <= IF limiter = "held" THEN MinInterval * (Cardinality(Calls) - 1) ELSE 0

(* What a call that is given up costs: the others no slot or exactly its   *)
(* own, and its caller no wait or exactly the queue's.                     *)
GivenUpCosts == NoSlotTwice /\ GivenUpReturns

=============================================================================
