\* Calls can be cut short and are repeated for ever: a bet can stay pending.
SPECIFICATION RetryingPlaceSpec
CONSTANTS
  c1 = c1
  c2 = c2
  c3 = c3
  k1 = k1
  k2 = k2
  Callers = {c1, c2}
  Keys = {k1}
  Tickets <- MCTicketsOne
  Inputs <- MCTicketsOne
  NoTicket <- MCNoTicket
  Answers = {"taken"}
  MayAbandon = TRUE
PROPERTIES
  PendingResolves
