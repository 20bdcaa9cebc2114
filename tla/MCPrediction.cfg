\* The job and a handler predict a game whose odds move and which is put off.
SPECIFICATION FairSpec
CONSTANTS
  job = job
  page = page
  g1 = g1
  a1 = a1
  a2 = a2
  l1 = l1
  none = none
  Runners = {job, page}
  Games = {g1}
  Times = {1, 2}
  Moneylines = {a1, a2}
  Lines = {l1}
  None = none
  MovesEarlier = FALSE
INVARIANTS
  PredictionTypeOK
  TotalsBesideMoneyline
PROPERTIES
  MoneylineCatchesUp
