\* Three concurrent calls over two keys; every adapter answer; calls cut short.
SPECIFICATION PlaceSpec
CONSTANTS
  c1 = c1
  c2 = c2
  c3 = c3
  k1 = k1
  k2 = k2
  Callers = {c1, c2, c3}
  Keys = {k1, k2}
  Tickets <- MCTickets
  Inputs <- MCTickets
  NoTicket <- MCNoTicket
  Answers = {"taken", "refused", "lost"}
  MayAbandon = TRUE
SYMMETRY MCSymmetry
INVARIANTS
  PlacementInv
PROPERTIES
  ResolvedOnce
  ImplementsContract
