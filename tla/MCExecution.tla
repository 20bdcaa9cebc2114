----------------------------- MODULE MCExecution -----------------------------
(***************************************************************************)
(* Small instances of Execution for TLC.                                   *)
(***************************************************************************)
EXTENDS Execution

CONSTANTS c1, c2, k1, k2, k3

T(key, snapshot, side, stake, odds) ==
  [key |-> key, snapshot |-> snapshot, game |-> 1, market |-> "h2h",
   side |-> side, stake |-> stake, odds |-> odds]

\* Two snapshots under one key, and two bets entered by hand on the same game
\* of hockey, which may be reported as a tie; the over/under bet is one the job
\* leaves alone.
MCInputs == {T(k1, 1, "home", 2, -150), T(k1, 2, "away", 3, 120)}
MCManual == {T(k2, 0, "home", 5, 100), T(k3, 0, "over", 4, -110)}
MCTickets == MCInputs \cup MCManual
MCNoTicket == [key |-> "no key"]
MCGames == {1}
MCSportOf == [g \in MCGames |-> "NHL"]

=============================================================================
