----------------------------- MODULE MCSettlement -----------------------------
(***************************************************************************)
(* Small instances of Settlement for TLC.                                  *)
(***************************************************************************)
EXTENDS Settlement, TLC

CONSTANTS d1, d2, k1, k2

T(key, game, side, stake, odds) ==
  [key |-> key, snapshot |-> 0, game |-> game, market |-> "h2h",
   side |-> side, stake |-> stake, odds |-> odds]

\* Game 1 is hockey and can be reported as a tie; game 2 is baseball.
MCTickets == {T(k1, 1, "home", 2, -150), T(k2, 2, "away", 3, 120)}
MCTicketOne == {T(k1, 1, "home", 2, -150)}

MCNoTicket == [key |-> "no key"]
MCGames == {1, 2}
MCSportOf == [g \in MCGames |-> IF g = 1 THEN "NHL" ELSE "MLB"]

MCSymmetry == Permutations({d1, d2})

=============================================================================
