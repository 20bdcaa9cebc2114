\* Page loads in two minutes, a button and two overlapping runs of the job, cut
\* short anywhere.
SPECIFICATION PipeSpec
CONSTANTS
  r1 = r1
  r2 = r2
  b1 = b1
  j1 = j1
  j2 = j2
  Requests = {r1}
  Buttons = {b1}
  Jobs = {j1, j2}
  Callers = {b1, j1, j2}
  Offers <- MCOffersOne
  PicksPerGame = 1
  DailyStop = 0
  Deposited = 100
  RowLimit = 2
  MaxSnapshots = 2
  MaxMinute = 1
  Keys <- MCKeys
  Tickets <- MCTickets
  Inputs <- MCTickets
  NoTicket <- MCNoTicket
  Answers = {"taken"}
  MayAbandon = TRUE
SYMMETRY MCSymmetry
INVARIANTS
  JobBetsOnce
  PipelineTypeOK
  RowsSayWhatWasAdvised
