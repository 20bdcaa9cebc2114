\* One request races the job.
SPECIFICATION SettleSpec
CONSTANTS
  d1 = d1
  d2 = d2
  k1 = k1
  k2 = k2
  Keys = {k1}
  Tickets <- MCTicketOne
  ManualTickets <- MCTicketOne
  NoTicket <- MCNoTicket
  Closers = {d1}
  Games <- MCGames
  Sports = {"NHL", "MLB"}
  SportOf <- MCSportOf
  Unsourced = {}
  WindowCloses = FALSE
INVARIANTS
  LedgerReconciles
