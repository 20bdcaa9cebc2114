\* Placement, manual entry and the job interleaved; calls are cut short and
\* runs of the job killed anywhere.
SPECIFICATION FairExecSpec
CONSTANTS
  c1 = c1
  c2 = c2
  k1 = k1
  k2 = k2
  k3 = k3
  Callers = {c1, c2}
  Keys = {k1, k2, k3}
  Tickets <- MCTickets
  Inputs <- MCInputs
  ManualTickets <- MCManual
  NoTicket <- MCNoTicket
  Answers = {"taken", "refused", "lost"}
  MayAbandon = TRUE
  Closers = {}
  Games <- MCGames
  Sports = {"NHL"}
  SportOf <- MCSportOf
  Unsourced = {}
  WindowCloses = FALSE
  Deposits = {10}
  MaxDeposited = 10
INVARIANTS
  PlacementUndisturbed
  BookAgrees
  BooksReconcile
PROPERTIES
  SettleableCloses
