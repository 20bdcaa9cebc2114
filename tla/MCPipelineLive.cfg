\* One run after the other, each of them possibly killed, with an
\* unsupported total ranked first, room for it in the listing, and a stop that
\* one stake at risk trips.
SPECIFICATION FairPipeSpec
CONSTANTS
  r1 = r1
  r2 = r2
  b1 = b1
  j1 = j1
  j2 = j2
  Requests = {r1}
  Buttons = {}
  Jobs = {j1}
  Callers = {j1}
  Offers <- MCOffersJob
  PicksPerGame = 1
  DailyStop = 3
  Deposited = 100
  RowLimit = 2
  MaxSnapshots = 2
  MaxMinute = 1
  Keys <- MCKeys
  Tickets <- MCTickets
  Inputs <- MCTickets
  NoTicket <- MCNoTicket
  Answers = {"taken", "refused"}
  MayAbandon = TRUE
PROPERTIES
  PlaceableGetsBet
