\* Two requests and the job close two bets at the same time.
SPECIFICATION SettleSpec
CONSTANTS
  d1 = d1
  d2 = d2
  k1 = k1
  k2 = k2
  Keys = {k1, k2}
  Tickets <- MCTickets
  ManualTickets <- MCTickets
  NoTicket <- MCNoTicket
  Closers = {d1, d2}
  Games <- MCGames
  Sports = {"NHL", "MLB"}
  SportOf <- MCSportOf
  Unsourced = {}
  WindowCloses = TRUE
SYMMETRY MCSymmetry
INVARIANTS
  SettlementTypeOK
  NeverShort
PROPERTIES
  ClosedOnce
