-------------------------------- MODULE Picks --------------------------------
(***************************************************************************)
(* The recommendations of internal/server: candidates are gathered from a  *)
(* map, one game and market after another, and go through the pipeline of  *)
(* internal/decision under the balances of the request.                    *)
(***************************************************************************)
EXTENDS Decision

CONSTANTS MaxCandidates,   \* bound: candidates of one request
          Configs,         \* [sizing, available, metrics]: balances in cents
          Universe         \* the candidates there may be

(* American prices; a quote has one of each side.  A request with a        *)
(* negative balance is turned down before.                                 *)
Prices == {odds \in Int : odds <= -100 \/ odds >= 100}
AllQuotes == [book : Int, home : Prices, away : Prices]
AllCandidates == [game : Int, day : Int, market : {"h2h", "totals"}, model : 0..100, price : 0..100,
                  quotes : Seq(AllQuotes) \ {<<>>}]
AllMetrics == [current : Nat, dayStart : Int, weekStart : Int, peak : Int]

ASSUME PicksAssumption ==
  /\ MaxCandidates \in Nat
  /\ Universe \subseteq AllCandidates
  /\ Configs \subseteq [sizing : Nat, available : Nat, metrics : AllMetrics]

VARIABLES candidates,   \* what recommendationCandidates has gathered
          cfg

pickVars == <<candidates, cfg>>

PickInit == candidates = <<>> /\ cfg \in Configs

(* One more prediction with quotes: a map entry per game and market. *)
Gather(c) == /\ Len(candidates) < MaxCandidates
             /\ \A i \in DOMAIN candidates : <<candidates[i].game, candidates[i].market>> # <<c.game, c.market>>
             /\ candidates' = Append(candidates, c)
             /\ UNCHANGED cfg

PickNext == \E c \in Universe : Gather(c)

PickSpec == PickInit /\ [][PickNext]_pickVars

-----------------------------------------------------------------------------
Result == BuildRecommendations(candidates, cfg)
Ranked == SortByRank(Sized(candidates, cfg), SizingBankroll(cfg))
CandidateOf(p) == CHOOSE c \in ToSet(candidates) : c.game = p.game /\ c.market = p.market
WinPercent(p) == IF p.side \in {"home", "over"} THEN CandidateOf(p).model ELSE 100 - CandidateOf(p).model

\* Net odds as a fraction <<n, d>>.
NetOdds(odds) == IF odds > 0 THEN <<odds, 100>> ELSE <<100, -odds>>

(* Every pick is a candidate's, on a side its market has, at a price one   *)
(* of its books quotes, and for whole cents.                               *)
PickTypeOK ==
  /\ cfg \in Configs
  /\ ToSet(candidates) \subseteq Universe
  /\ \A p \in ToSet(Result) : p.stake \in Nat /\ p.side \in {"home", "away", "over", "under"}
                              /\ (p.market = "totals" <=> p.side \in {"over", "under"})

(* No stake is above what maximises the expected growth of the bankroll at *)
(* the recommended side's own odds (the derivative of the expected         *)
(* logarithm is not negative one cent below the stake), nor above the      *)
(* balance: sizing, side and line shopping fit together.                   *)
NeverOverbets ==
  \A p \in ToSet(Result) : p.stake > 0 =>
    LET n == NetOdds(p.odds)[1]
        d == NetOdds(p.odds)[2]
        B == SizingBankroll(cfg)
        s == p.stake - 1
    IN  /\ p.stake <= cfg.available
        /\ WinPercent(p) * n * (B - s) >= (100 - WinPercent(p)) * (d * B + s * n)

(* The pick is made at a price that pays at least as much as any other     *)
(* book's price of the side that the model favours.                        *)
BestPriceTaken ==
  \A p \in ToSet(Result) : \A i \in DOMAIN CandidateOf(p).quotes :
    LET quote == CandidateOf(p).quotes[i]
        other == NetOdds(IF p.side \in {"home", "over"} THEN quote.home ELSE quote.away)
    IN  NetOdds(p.odds)[1] * other[2] >= other[1] * NetOdds(p.odds)[2]

(* The ranking is a total order: the answer does not depend on the order   *)
(* in which candidates arrive, so nothing rests on their being sorted when *)
(* they are gathered from a Go map.                                        *)
PicksOrderFree ==
  LET n == Len(candidates) IN
  \A perm \in {f \in [1..n -> 1..n] : \A i, j \in 1..n : i # j => f[i] # f[j]} :
    BuildRecommendations([i \in 1..n |-> candidates[perm[i]]], cfg) = Result

(* The retained picks are the greedy choice in rank order: together they   *)
(* respect every limit, and one that is missing although the breaker is    *)
(* calm does not fit beside the retained ones ranked before it.            *)
Fits(picks) ==
  \A i \in DOMAIN picks : picks[i].stake > 0 =>
    /\ Cardinality(OfGame(picks, picks[i].game)) <= MaxPicksPerGame
    /\ 1000 * TotalStake(picks, OfGame(picks, picks[i].game)) <= MaxStakePerGame * SizingBankroll(cfg)
    /\ MaxPicksPerDay > 0 => Cardinality(OfDay(picks, picks[i].day)) <= MaxPicksPerDay

RetainedBefore(i) == Where(Ranked, {j \in 1..(i - 1) : Ranked[j] \in ToSet(Result)})

GreedyWithinLimits ==
  /\ Fits(Result)
  /\ ~BreakerTrips(cfg.metrics) =>
       \A i \in DOMAIN Ranked : Ranked[i] \notin ToSet(Result) => ~Fits(Append(RetainedBefore(i), Ranked[i]))

(* No stake is recommended once the balance is down to what a stop leaves  *)
(* of the day's start, the week's start or the peak (zero is no stop).     *)
HaltedAtStop ==
  LET m == cfg.metrics
      DownTo(start, percent) == percent > 0 /\ start > 0 /\ 100 * m.current <= (100 - percent) * start
  IN  DownTo(m.dayStart, DailyLossStop) \/ DownTo(m.weekStart, WeeklyLossStop) \/ DownTo(m.peak, DrawdownBreaker)
        => \A p \in ToSet(Result) : p.stake = 0

=============================================================================
