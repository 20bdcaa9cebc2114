----------------------------- MODULE MCPipeline -----------------------------
(***************************************************************************)
(* Small instances of Pipeline for TLC.                                    *)
(***************************************************************************)
EXTENDS Pipeline

CONSTANTS r1, r2, b1, j1, j2

Offer(game, market, side, stake, odds, rank) ==
  [game |-> game, market |-> market, side |-> side, book |-> 1,
   stake |-> stake, odds |-> odds, rank |-> rank]

\* A moneyline pick; a total that the job does not support and ranks first;
\* a pick sized to zero.
Home == Offer(1, "h2h", "home", 3, -110, 5)
Over == Offer(1, "totals", "over", 3, 100, 9)
Unsized == Offer(2, "h2h", "home", 0, 150, 2)

MCOffersJob == {Home, Over, Unsized}
MCOffersOne == {Home}

MCKeys == {Key("button", o, m) : o \in Offers, m \in 0..MaxMinute} \cup
          {Key("job", o, id) : o \in Offers, id \in 1..MaxSnapshots}
MCTickets == {Ticket(o, id, k) : o \in Offers, id \in 1..MaxSnapshots, k \in MCKeys}
MCNoTicket == [key |-> "no key", snapshot |-> 0]

MCSymmetry == Permutations(Jobs)

=============================================================================
