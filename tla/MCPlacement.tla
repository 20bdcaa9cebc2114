----------------------------- MODULE MCPlacement -----------------------------
(***************************************************************************)
(* Small instances of Placement for TLC.                                   *)
(***************************************************************************)
EXTENDS Placement, TLC

CONSTANTS c1, c2, c3, k1, k2

T(key, snapshot, stake, odds) ==
  [key |-> key, snapshot |-> snapshot, game |-> 1, market |-> "h2h",
   side |-> "home", stake |-> stake, odds |-> odds]

\* Two snapshots of one minute share a key but not a stake; a third one has a
\* key of its own; a snapshot sized to zero is one the table refuses.
MCTickets == {T(k1, 1, 2, -150), T(k1, 2, 3, 120), T(k2, 3, 5, -110)}
MCTicketsEdge == {T(k1, 1, 2, -150), T(k2, 2, 0, 120), T(k2, 3, 1, -110)}
MCTicketsOne == {T(k1, 1, 2, -150), T(k1, 2, 3, 120)}
MCNoTicket == [key |-> "no key"]

MCSymmetry == Permutations({c1, c2, c3})

=============================================================================
