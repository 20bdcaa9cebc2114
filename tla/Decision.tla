------------------------------ MODULE Decision ------------------------------
(***************************************************************************)
(* The decision pipeline of internal/decision, as operators: EV threshold, *)
(* line shopping, Kelly sizing, the cap by the available bankroll, the     *)
(* ranking, the correlation guard and the circuit breaker.                 *)
(*                                                                         *)
(* The code computes in float64.  Here probabilities are whole percents,   *)
(* the Kelly multiplier is a percentage, caps are thousandths, odds are    *)
(* American and money is in cents, so every quotient is compared and       *)
(* rounded exactly.  The rejections of malformed input (NaN, empty names,  *)
(* unknown sports) are preconditions on the inputs.                        *)
(*                                                                         *)
(* A candidate is [game, day, market, model, price, quotes]: model and     *)
(* price are the home (or over) probabilities of the model and the market, *)
(* quotes a sequence of [book, home, away] prices.                         *)
(***************************************************************************)
EXTENDS Integers, Listings

CONSTANTS MinEdge,           \* EVThreshold, in percent
          KellyFraction,     \* fractional Kelly multiplier, in percent
          MaxBetFraction,    \* cap on one stake, thousandths of the bankroll
          MaxPicksPerGame, MaxStakePerGame, MaxPicksPerDay,
          DailyLossStop, WeeklyLossStop, DrawdownBreaker    \* in percent

ASSUME DecisionAssumption ==
  /\ MinEdge \in 1..100 /\ KellyFraction \in 1..100 /\ MaxBetFraction \in 1..1000
  /\ MaxPicksPerGame \in 1..25 /\ MaxStakePerGame \in 1..1000 /\ MaxPicksPerDay \in 0..500
  /\ {DailyLossStop, WeeklyLossStop, DrawdownBreaker} \subseteq 0..100

-----------------------------------------------------------------------------
(* EvaluateEVThreshold: the side the model thinks underpriced, if the gap  *)
(* is wide enough.                                                         *)
ModelEdge(c) == IF c.model < c.price THEN c.price - c.model ELSE c.model - c.price
FavouredSide(c) == IF c.model < c.price THEN "away" ELSE "home"
PassesThreshold(c) == ModelEdge(c) >= MinEdge /\ ModelEdge(c) > 0

\* Faulty variant: an away pick is sized with the home team's chances.
HomeProbability(c) == c.model

(* The probability of the recommended side. *)
SideProbability(c) == IF FavouredSide(c) = "away" THEN 100 - c.model ELSE c.model

(* ShopBestLine: the first quote with the highest American price. *)
PriceOf(quote, side) == IF side = "away" THEN quote.away ELSE quote.home

\* Faulty variant: the comparison is turned round.
ShopWorstLine(quotes, side) ==
  LET Better(best, quote) ==
        IF PriceOf(quote, side) <= PriceOf(best, side) THEN quote ELSE best
  IN  FoldLeft(Better, Head(quotes), Tail(quotes))

ShopBestLine(quotes, side) ==
  LET Better(best, quote) ==
        IF PriceOf(quote, side) > PriceOf(best, side) THEN quote ELSE best
  IN  FoldLeft(Better, Head(quotes), Tail(quotes))

-----------------------------------------------------------------------------
(* The Kelly fraction (p * d - 1) / (d - 1) for decimal odds d, as the     *)
(* numerator and denominator it has in percents and American odds.         *)
RawKelly(p, odds) ==
  IF odds >= 100 THEN [num |-> p * (100 + odds) - 10000, den |-> 100 * odds]
                 ELSE [num |-> p * (100 - odds) + 100 * odds, den |-> 10000]

\* math.Round of a non-negative quotient.
RoundHalfUp(n, d) == (2 * n + d) \div (2 * d)

(* EvaluateRecommendationStake up to the bankroll check: Kelly times the   *)
(* multiplier, capped, rounded to a cent.                                  *)
PreBankrollStake(p, odds, bankroll) ==
  LET kelly == RawKelly(p, odds)
      capped == 10 * kelly.num * KellyFraction > MaxBetFraction * kelly.den
  IN  IF p \notin 1..99 \/ kelly.num <= 0 THEN 0
      ELSE IF capped THEN RoundHalfUp(bankroll * MaxBetFraction, 1000)
      ELSE RoundHalfUp(bankroll * kelly.num * KellyFraction, 100 * kelly.den)

(* CheckBankrollAvailability, and what the sizing does with its verdict. *)
CapToAvailable(stake, available) == IF stake > available THEN available ELSE stake

(* SizingBankrollCents is zero in every request of the server, and the     *)
(* available balance stands in for it.                                     *)
SizingBankroll(cfg) == IF cfg.sizing = 0 THEN cfg.available ELSE cfg.sizing

\* Faulty variant: totals picks are not renamed.
PlainSide(c) == FavouredSide(c)

(* One candidate's recommendation. *)
SideLabel(c) == IF c.market # "totals" THEN FavouredSide(c)
                ELSE IF FavouredSide(c) = "home" THEN "over" ELSE "under"

Pick(c, cfg) ==
  LET line == ShopBestLine(c.quotes, FavouredSide(c))
      odds == PriceOf(line, FavouredSide(c))
      stake == PreBankrollStake(SideProbability(c), odds, SizingBankroll(cfg))
  IN  [game |-> c.game, day |-> c.day, market |-> c.market, side |-> SideLabel(c),
       book |-> line.book, odds |-> odds, edge |-> ModelEdge(c),
       stake |-> CapToAvailable(stake, cfg.available)]

-----------------------------------------------------------------------------
(* recommendationRank, 100 * edge + 1000 * stake / bankroll + odds / 10^5  *)
(* with the edge in percent, times bankroll / 100.  For bankrolls below    *)
(* 5000 cents and prices between -1000 and 1000 the odds term is below 1:  *)
(* it only breaks ties of the other two, and is the next key of the sort.  *)
Score(p, bankroll) == IF bankroll = 0 THEN p.edge ELSE p.edge * bankroll + 10 * p.stake
MarketOrder == [h2h |-> 1, totals |-> 2]

\* Faulty variant: no tie-break behind the edge.
RanksByEdge(p, q, bankroll) == p.edge > q.edge
RanksBefore(p, q, bankroll) ==
  LET Lex(a, b) == \E i \in DOMAIN a : a[i] > b[i] /\ \A j \in 1..(i - 1) : a[j] = b[j]
      Key(x) == <<Score(x, bankroll), x.odds, x.edge, x.stake, -x.game, -MarketOrder[x.market]>>
  IN  Lex(Key(p), Key(q))

SortByRank(picks, bankroll) == StableSort(picks, LAMBDA p, q : RanksBefore(p, q, bankroll))

-----------------------------------------------------------------------------
(* ApplyCorrelationGuard keeps a pick of a positive stake while its game,  *)
(* and its sport and day, have room for it; exposure is counted over the   *)
(* picks kept so far.  Picks of no stake are kept and not counted.         *)
OfGame(picks, g) == {i \in DOMAIN picks : picks[i].stake > 0 /\ picks[i].game = g}
OfDay(picks, d) == {i \in DOMAIN picks : picks[i].stake > 0 /\ picks[i].day = d}
TotalStake(picks, places) == SumFunction([i \in places |-> picks[i].stake])

\* Faulty variant: the stake already on the game is forgotten.
HasRoomForgetful(kept, p, bankroll) ==
  /\ Cardinality(OfGame(kept, p.game)) + 1 <= MaxPicksPerGame
  /\ 1000 * p.stake <= MaxStakePerGame * bankroll
  /\ MaxPicksPerDay > 0 => Cardinality(OfDay(kept, p.day)) + 1 <= MaxPicksPerDay

HasRoom(kept, p, bankroll) ==
  /\ Cardinality(OfGame(kept, p.game)) + 1 <= MaxPicksPerGame
  /\ 1000 * (TotalStake(kept, OfGame(kept, p.game)) + p.stake) <= MaxStakePerGame * bankroll
  /\ MaxPicksPerDay > 0 => Cardinality(OfDay(kept, p.day)) + 1 <= MaxPicksPerDay

ApplyCorrelationGuard(picks, bankroll) ==
  LET Keep(kept, p) == IF p.stake <= 0 \/ HasRoom(kept, p, bankroll) THEN Append(kept, p) ELSE kept
  IN  FoldLeft(Keep, <<>>, picks)

(* EvaluateCircuitBreakers: a stop of zero is off.  bankrollLossFraction   *)
(* of a start that is not positive is 1 once the balance is below it.      *)
LossReaches(start, current, percent) ==
  /\ percent > 0
  /\ current < start
  /\ start <= 0 \/ 100 * (start - current) >= percent * start

\* Faulty variant: the weekly and drawdown stops are not evaluated.
TripsDaily(m) == LossReaches(m.dayStart, m.current, DailyLossStop)

BreakerTrips(m) == \/ LossReaches(m.dayStart, m.current, DailyLossStop)
                   \/ LossReaches(m.weekStart, m.current, WeeklyLossStop)
                   \/ LossReaches(m.peak, m.current, DrawdownBreaker)

ApplyCircuitBreakerGuard(picks, m) ==
  IF BreakerTrips(m) THEN Where(picks, {i \in DOMAIN picks : picks[i].stake <= 0}) ELSE picks

(* BuildRecommendations: Retained of the one guard goes through the other, *)
(* and only what both retain is returned.                                  *)
Sized(candidates, cfg) ==
  LET passing == Where(candidates, {i \in DOMAIN candidates : PassesThreshold(candidates[i])})
  IN  [i \in DOMAIN passing |-> Pick(passing[i], cfg)]

BuildRecommendations(candidates, cfg) ==
  LET ranked == SortByRank(Sized(candidates, cfg), SizingBankroll(cfg))
  IN  ApplyCircuitBreakerGuard(ApplyCorrelationGuard(ranked, SizingBankroll(cfg)), cfg.metrics)

=============================================================================
