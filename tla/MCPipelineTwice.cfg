\* A button and the job.
SPECIFICATION PipeSpec
CONSTANTS
  r1 = r1
  r2 = r2
  b1 = b1
  j1 = j1
  j2 = j2
  Requests = {r1}
  Buttons = {b1}
  Jobs = {j1}
  Callers = {b1, j1}
  Offers <- MCOffersOne
  PicksPerGame = 1
  DailyStop = 5
  Deposited = 100
  RowLimit = 2
  MaxSnapshots = 1
  MaxMinute = 0
  Keys <- MCKeys
  Tickets <- MCTickets
  Inputs <- MCTickets
  NoTicket <- MCNoTicket
  Answers = {"taken", "refused"}
  MayAbandon = TRUE
INVARIANTS
  SnapshotBetOnce
