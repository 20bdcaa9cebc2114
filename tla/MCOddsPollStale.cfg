\* One poller: after a move of the line the old line is still quoted.
SPECIFICATION Spec
CONSTANTS
  p1 = p1
  g1 = g1
  g2 = g2
  Pollers = {p1}
  Sports <- TwoSports
  Offers <- MCOffers
  MaxPolls = 3
INVARIANTS
  QuotesAreLatest
