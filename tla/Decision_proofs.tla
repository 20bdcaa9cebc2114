--------------------------- MODULE Decision_proofs ---------------------------
(***************************************************************************)
(* Proofs about Picks, Reports, Outcomes and Replay, for any number of     *)
(* candidates, rows, snapshots, requests and odds.                         *)
(*                                                                         *)
(* The operators of Decision and Calibration are folds over sequences.  A  *)
(* fold is a run of its steps (LeftRuns), so what it returns is proved by  *)
(* induction over the places of the sequence (CountUp).  An order that is  *)
(* strict and total sorts a set in one way (SortedOnce), and so what is    *)
(* sorted first does not depend on the order in which it came.             *)
(*                                                                         *)
(* The monitoring pages rest on one invariant, LogInv: whatever is in      *)
(* flight was evaluated from a true row, is about to be written or is in   *)
(* the log, and copies of a row and those about to write it are together   *)
(* no more than the requests.  AllPaged says which rows a load has, and    *)
(* AllFiled which runs an alert has left so far.                           *)
(*                                                                         *)
(* A replay writes the table whose news it needs.  GoodReplay says that a  *)
(* row that is not yet done finds the table as the replay found it: a key  *)
(* names its game and book, and a listing has a row of each once.          *)
(*                                                                         *)
(* Foreseen says where each outcome of a replay is from: a listed row with *)
(* the score game_results had when it was read, or a home game of a        *)
(* season.  What is sorted by closing time is in time, and the last games  *)
(* of a list that keeps its order have the newest of them, so a game sees  *)
(* its own night and nothing later.                                        *)
(***************************************************************************)
EXTENDS Decisions, Collections

-----------------------------------------------------------------------------
Ranks(run, s, bankroll) ==
  /\ run[0] = <<>> /\ run[Len(s)] = SortByRank(s, bankroll)
  /\ \A i \in 1..Len(s) :
       run[i] = InsertBehind(run[i - 1], s[i],
                             {j \in DOMAIN run[i - 1] : ~RanksBefore(s[i], run[i - 1][j], bankroll)})

(* SortByRank inserts one pick after the other. *)
LEMMA SortByRankRuns ==
  ASSUME NEW A, NEW s, s \in Seq(A), NEW bankroll
  PROVE  \E run \in [0..Len(s) -> Seq(A)] : Ranks(run, s, bankroll)
<1> DEFINE n == Len(s)
           V == Seq(A)
           op(v, x) == InsertBehind(v, x, {j \in DOMAIN v : ~RanksBefore(x, v[j], bankroll)})
           IsIter(h) == h = [T \in SUBSET (1..n) |->
                               IF T = {} THEN <<>> ELSE op(h[T \ {Max(T)}], s[Max(T)])]
           iter == CHOOSE h : IsIter(h)
           base == <<>>
           step == [i \in 1..n |-> [v \in V |-> op(v, s[i])]]
<1>0. n \in Nat /\ DOMAIN s = 1..n /\ base \in V
  OBVIOUS
<1>1. SortByRank(s, bankroll) = iter[1..n]
  BY <1>0 DEF SortByRank, StableSort, FoldLeft, MapThenFoldSet
<1>2. \A i \in 1..n : s[i] \in A
  OBVIOUS
<1>3. step \in [1..n -> [V -> V]]
  <2>1. ASSUME NEW v \in V, NEW x \in A PROVE op(v, x) \in V
    BY InsertedIsSequence
  <2> HIDE DEF op, n, V
  <2> QED
    BY <1>2, <2>1
<1> HIDE DEF n, op
<1>4. \E h : IsIter(h)
  <2>1. PICK g \in [SUBSET (1..n) -> V] : FoldsLeft(g, base, step, n, V)
    <3> HIDE DEF step, V, base
    <3> QED
      BY <1>0, <1>3, LeftFolds
  <2> HIDE DEF V
  <2>2. \A T \in SUBSET (1..n) : g[T] = IF T = {} THEN <<>> ELSE op(g[T \ {Max(T)}], s[Max(T)])
    BY <2>1 DEF FoldsLeft
  <2>3. g = [T \in SUBSET (1..n) |-> g[T]]
    BY <2>1
  <2>4. IsIter(g)
    BY <2>2, <2>3
  <2> QED
    BY <2>4
<1>5. IsIter(iter)
  <2> HIDE DEF IsIter
  <2> QED
    BY <1>4
<1>6. Iterates(iter, base, step, n, V)
  <2> HIDE DEF iter, V
  <2>1. ASSUME NEW T \in SUBSET (1..n), T # {}, iter[T \ {Max(T)}] \in V
        PROVE  iter[T] = step[Max(T)][iter[T \ {Max(T)}]]
    <3>1. Max(T) \in 1..n
      BY <1>0, <2>1, MaxOfPlaces
    <3> QED
      BY <1>5, <2>1, <3>1
  <2>2. \A T \in SUBSET (1..n) : T = {} => iter[T] = base
    BY <1>5
  <2> HIDE DEF step, base
  <2> QED
    BY <2>1, <2>2 DEF Iterates
<1>7. PICK run \in [0..n -> V] : StepsBy(run, base, step, n, iter[1..n])
  <2> HIDE DEF iter, step, V, base
  <2> QED
    BY <1>0, <1>3, <1>6, LeftRuns
<1>8. ASSUME NEW i \in 1..n PROVE run[i] = op(run[i - 1], s[i])
  <2>1. i - 1 \in 0..n
    BY <1>0
  <2>2. run[i - 1] \in V
    <3> HIDE DEF V
    <3> QED
      BY <1>7, <2>1
  <2> HIDE DEF V
  <2> QED
    BY <1>7, <2>2 DEF StepsBy
<1>9. run[0] = <<>> /\ run[n] = SortByRank(s, bankroll)
  BY <1>1, <1>7 DEF StepsBy
<1> HIDE DEF iter
<1> QED
  BY <1>8, <1>9 DEF n, op, Ranks

-----------------------------------------------------------------------------
(* Sizing a pick. *)

Shops(run, quotes, side) ==
  /\ run[0] = quotes[1] /\ run[Len(quotes) - 1] = ShopBestLine(quotes, side)
  /\ \A i \in 1..(Len(quotes) - 1) :
       run[i] = IF PriceOf(quotes[i + 1], side) > PriceOf(run[i - 1], side)
                  THEN quotes[i + 1] ELSE run[i - 1]

(* ShopBestLine goes through the quotes once and keeps the better one. *)
LEMMA ShopBestLineRuns ==
  ASSUME NEW quotes, quotes \in Seq(AllQuotes), quotes # <<>>, NEW side
  PROVE  \E run \in [0..(Len(quotes) - 1) -> AllQuotes] : Shops(run, quotes, side)
<1> DEFINE s == Tail(quotes)
           n == Len(quotes) - 1
           V == AllQuotes
           op(best, quote) == IF PriceOf(quote, side) > PriceOf(best, side) THEN quote ELSE best
           base == Head(quotes)
           IsIter(h) == h = [T \in SUBSET (1..n) |->
                               IF T = {} THEN base ELSE op(h[T \ {Max(T)}], s[Max(T)])]
           iter == CHOOSE h : IsIter(h)
           step == [i \in 1..n |-> [v \in V |-> op(v, s[i])]]
<1>0. n \in Nat /\ DOMAIN s = 1..n
  OBVIOUS
<1>a. base \in V /\ base = quotes[1]
  OBVIOUS
<1>2. \A i \in 1..n : s[i] \in V /\ s[i] = quotes[i + 1]
  OBVIOUS
<1>1. ShopBestLine(quotes, side) = iter[1..n]
  BY <1>0 DEF ShopBestLine, FoldLeft, MapThenFoldSet
<1> HIDE DEF s, n, V, base
<1>3. step \in [1..n -> [V -> V]]
  BY <1>2
<1> HIDE DEF op
<1>4. \E h : IsIter(h)
  <2>1. PICK g \in [SUBSET (1..n) -> V] : FoldsLeft(g, base, step, n, V)
    <3> HIDE DEF step
    <3> QED
      BY <1>0, <1>a, <1>3, LeftFolds
  <2>2. \A T \in SUBSET (1..n) : g[T] = IF T = {} THEN base ELSE op(g[T \ {Max(T)}], s[Max(T)])
    BY <2>1 DEF FoldsLeft
  <2>3. g = [T \in SUBSET (1..n) |-> g[T]]
    BY <2>1
  <2>4. IsIter(g)
    BY <2>2, <2>3
  <2> QED
    BY <2>4
<1>5. IsIter(iter)
  <2> HIDE DEF IsIter
  <2> QED
    BY <1>4
<1>6. Iterates(iter, base, step, n, V)
  <2> HIDE DEF iter
  <2>1. ASSUME NEW T \in SUBSET (1..n), T # {}, iter[T \ {Max(T)}] \in V
        PROVE  iter[T] = step[Max(T)][iter[T \ {Max(T)}]]
    <3>1. Max(T) \in 1..n
      BY <1>0, <2>1, MaxOfPlaces
    <3> QED
      BY <1>5, <2>1, <3>1
  <2>2. \A T \in SUBSET (1..n) : T = {} => iter[T] = base
    BY <1>5
  <2> HIDE DEF step
  <2> QED
    BY <2>1, <2>2 DEF Iterates
<1>7. PICK run \in [0..n -> V] : StepsBy(run, base, step, n, iter[1..n])
  <2> HIDE DEF iter, step
  <2> QED
    BY <1>0, <1>a, <1>3, <1>6, LeftRuns
<1>8. ASSUME NEW i \in 1..n PROVE run[i] = op(run[i - 1], s[i])
  <2>1. i - 1 \in 0..n
    BY <1>0
  <2>2. run[i - 1] \in V
    BY <1>7, <2>1
  <2> QED
    BY <1>7, <2>2 DEF StepsBy
<1>9. run[0] = base /\ run[n] = ShopBestLine(quotes, side)
  BY <1>1, <1>7 DEF StepsBy
<1>10. ASSUME NEW i \in 1..n
       PROVE run[i] = IF PriceOf(quotes[i + 1], side) > PriceOf(run[i - 1], side)
                           THEN quotes[i + 1] ELSE run[i - 1]
  BY <1>2, <1>8 DEF op
<1> HIDE DEF iter
<1> QED
  BY <1>a, <1>9, <1>10 DEF n, V, Shops

(* The line that is shopped is one of the lines, and no line has a higher price. *)
LEMMA BestLineIsBest ==
  ASSUME NEW quotes, quotes \in Seq(AllQuotes), quotes # <<>>, NEW side
  PROVE  \E k \in DOMAIN quotes :
           /\ ShopBestLine(quotes, side) = quotes[k]
           /\ \A i \in DOMAIN quotes : PriceOf(quotes[i], side) <= PriceOf(quotes[k], side)
<1> DEFINE n == Len(quotes) - 1
           P(q) == PriceOf(q, side)
<1>1. n \in Nat /\ DOMAIN quotes = 1..(n + 1) /\ \A i \in 1..(n + 1) : quotes[i] \in AllQuotes
  OBVIOUS
<1>2. \A q \in AllQuotes : P(q) \in Int
  BY DEF AllQuotes, Prices, PriceOf
<1>b. PICK run \in [0..(Len(quotes) - 1) -> AllQuotes] : Shops(run, quotes, side)
  BY ShopBestLineRuns
<1>3. /\ run \in [0..n -> AllQuotes]
      /\ run[0] = quotes[1] /\ run[n] = ShopBestLine(quotes, side)
      /\ \A i \in 1..n : run[i] = IF P(quotes[i + 1]) > P(run[i - 1]) THEN quotes[i + 1] ELSE run[i - 1]
  BY <1>b DEF Shops
<1> HIDE DEF n, P
<1> DEFINE Good == {i \in 0..n : \E k \in 1..(n + 1) : run[i] = quotes[k] /\ \A j \in 1..(i + 1) : P(quotes[j]) <= P(quotes[k])}
<1>4. 0 \in Good
  <2>1. 1 \in 1..(n + 1) /\ \A j \in 1..(0 + 1) : j = 1
    BY <1>1
  <2>2. P(quotes[1]) <= P(quotes[1])
    BY <1>1, <1>2, <2>1
  <2> QED
    BY <1>1, <1>3, <2>1, <2>2
<1>5. ASSUME NEW i \in 1..n, i - 1 \in Good PROVE i \in Good
  <2>1. PICK k \in 1..(n + 1) : run[i - 1] = quotes[k] /\ \A j \in 1..((i - 1) + 1) : P(quotes[j]) <= P(quotes[k])
    BY <1>5
  <2>2. i + 1 \in 1..(n + 1) /\ i \in 0..n /\ \A j \in 1..(i + 1) : j \in 1..((i - 1) + 1) \/ j = i + 1
    BY <1>1
  <2>3. P(quotes[k]) \in Int /\ P(quotes[i + 1]) \in Int /\ \A j \in 1..(i + 1) : P(quotes[j]) \in Int
    BY <1>1, <1>2, <2>2
  <2>4. CASE P(quotes[i + 1]) > P(run[i - 1])
    <3>1. run[i] = quotes[i + 1]
      BY <1>3, <2>4
    <3>2. \A j \in 1..(i + 1) : P(quotes[j]) <= P(quotes[i + 1])
      BY <2>1, <2>2, <2>3, <2>4
    <3> QED
      BY <2>2, <3>1, <3>2
  <2>5. CASE ~(P(quotes[i + 1]) > P(run[i - 1]))
    <3>1. run[i] = quotes[k]
      BY <1>3, <2>1, <2>5
    <3>2. \A j \in 1..(i + 1) : P(quotes[j]) <= P(quotes[k])
      BY <2>1, <2>2, <2>3, <2>5
    <3> QED
      BY <2>2, <3>1, <3>2
  <2> QED
    BY <2>4, <2>5
<1> HIDE DEF Good
<1>6. \A i \in 0..n : i \in Good
  BY <1>1, <1>4, <1>5, CountUp
<1>7. n \in Good
  BY <1>1, <1>6
<1>8. PICK k \in 1..(n + 1) : run[n] = quotes[k] /\ \A j \in 1..(n + 1) : P(quotes[j]) <= P(quotes[k])
  BY <1>7 DEF Good
<1> QED
  BY <1>1, <1>3, <1>8 DEF P

-----------------------------------------------------------------------------
(* A higher American price pays at least as much. *)
LEMMA HigherPricePaysMore ==
  ASSUME NEW a \in Prices, NEW b \in Prices, b <= a
  PROVE  NetOdds(a)[1] * NetOdds(b)[2] >= NetOdds(b)[1] * NetOdds(a)[2]
<1>1. a \in Int /\ b \in Int /\ (a <= -100 \/ a >= 100) /\ (b <= -100 \/ b >= 100)
  BY DEF Prices
<1>2. CASE b >= 100
  <2>1. NetOdds(a) = <<a, 100>> /\ NetOdds(b) = <<b, 100>>
    BY <1>1, <1>2 DEF NetOdds
  <2> QED
    BY <1>1, <2>1
<1>3. CASE a >= 100 /\ b <= -100
  <2>1. NetOdds(a) = <<a, 100>> /\ NetOdds(b) = <<100, -b>>
    BY <1>1, <1>3 DEF NetOdds
  <2>2. a * (-b) >= 100 * 100
    <3>1. a * (-b) >= 100 * (-b)
      BY <1>1, <1>3
    <3> QED
      BY <1>1, <1>3, <3>1
  <2> QED
    BY <1>1, <2>1, <2>2
<1>4. CASE a <= -100
  <2>1. NetOdds(a) = <<100, -a>> /\ NetOdds(b) = <<100, -b>>
    BY <1>1, <1>4 DEF NetOdds
  <2> QED
    BY <1>1, <1>4, <2>1
<1> QED
  BY <1>1, <1>2, <1>3, <1>4

(* Rounding to the nearest adds less than one. *)
LEMMA RoundingIsNear ==
  ASSUME NEW n \in Nat, NEW d \in Nat, d > 0
  PROVE  RoundHalfUp(n, d) \in Nat /\ d * (RoundHalfUp(n, d) - 1) <= n
<1> DEFINE q == (2 * n + d) \div (2 * d)
<1>1. 2 * d > 0 /\ 2 * d \in Nat /\ 2 * n + d \in Nat
  OBVIOUS
<1>2. q \in Nat /\ (2 * d) * q <= 2 * n + d
  <2> DEFINE a == 2 * n + d
             b == 2 * d
  <2> HIDE DEF a, b
  <2>0. a \in Nat /\ b \in Nat /\ b > 0
    BY <1>1 DEF a, b
  <2>1. (a \div b) \in Nat /\ b * (a \div b) <= a
    BY <2>0
  <2> QED
    BY <2>1 DEF a, b
<1> HIDE DEF q
<1>3. d * q \in Int /\ 2 * (d * q) <= 2 * n + d
  <2>1. (2 * d) * q = 2 * (d * q)
    BY <1>2
  <2> QED
    BY <1>2, <2>1
<1>4. d * (q - 1) = d * q - d
  BY <1>2
<1>5. d * (q - 1) <= n
  BY <1>3, <1>4
<1> QED
  BY <1>2, <1>5 DEF RoundHalfUp, q

(* Kelly in whole numbers: what is won times the chance of winning less    *)
(* what is lost times the chance of losing, over what is won.              *)
LEMMA KellyFractionIs ==
  ASSUME NEW p \in 0..100, NEW odds \in Prices
  PROVE  LET n == NetOdds(odds)[1]
             d == NetOdds(odds)[2]
         IN  /\ n \in Nat /\ d \in Nat /\ n >= 100 /\ d >= 100
             /\ RawKelly(p, odds).num = p * n - (100 - p) * d
             /\ RawKelly(p, odds).den = 100 * n
<1>1. odds \in Int /\ (odds <= -100 \/ odds >= 100)
  BY DEF Prices
<1>2. CASE odds >= 100
  <2>1. NetOdds(odds) = <<odds, 100>>
    BY <1>1, <1>2 DEF NetOdds
  <2>2. RawKelly(p, odds) = [num |-> p * (100 + odds) - 10000, den |-> 100 * odds]
    BY <1>1, <1>2 DEF RawKelly
  <2>3. p * (100 + odds) - 10000 = p * odds - (100 - p) * 100
    BY <1>1
  <2> QED
    BY <1>1, <1>2, <2>1, <2>2, <2>3
<1>3. CASE odds <= -100
  <2>1. NetOdds(odds) = <<100, -odds>>
    BY <1>1, <1>3 DEF NetOdds
  <2>2. RawKelly(p, odds) = [num |-> p * (100 - odds) + 100 * odds, den |-> 10000]
    BY <1>1, <1>3 DEF RawKelly
  <2>3. p * (100 - odds) + 100 * odds = p * 100 - (100 - p) * (-odds)
    BY <1>1
  <2> QED
    BY <1>1, <1>3, <2>1, <2>2, <2>3
<1> QED
  BY <1>1, <1>2, <1>3

(* A cent below the stake is within the Kelly fraction of the bankroll.    *)
LEMMA StakeWithinKelly ==
  ASSUME NEW p \in 0..100, NEW odds \in Prices, NEW bankroll \in Nat
  PROVE  LET stake == PreBankrollStake(p, odds, bankroll)
             kelly == RawKelly(p, odds)
         IN  /\ stake \in Nat
             /\ stake > 0 => p \in 1..99 /\ kelly.den * (stake - 1) <= kelly.num * bankroll
<1> DEFINE stake == PreBankrollStake(p, odds, bankroll)
           num == RawKelly(p, odds).num
           den == RawKelly(p, odds).den
           K == KellyFraction
           M == MaxBetFraction
<1>0. SUFFICES /\ stake \in Nat
               /\ stake > 0 => p \in 1..99 /\ den * (stake - 1) <= num * bankroll
  OBVIOUS
<1>1. num \in Int /\ den \in Nat /\ den > 0
  <2> DEFINE n == NetOdds(odds)[1]
             d == NetOdds(odds)[2]
  <2>1. /\ n \in Nat /\ d \in Nat /\ n >= 100 /\ d >= 100
        /\ num = p * n - (100 - p) * d /\ den = 100 * n
    BY KellyFractionIs
  <2> HIDE DEF n, d, num, den
  <2>2. p * n \in Int /\ (100 - p) * d \in Int
    BY <2>1
  <2> QED
    BY <2>1, <2>2
<1>2. K \in 1..100 /\ M \in 1..1000
  BY DecisionAssumption DEF DecisionAssumption
<1>3. stake = IF p \notin 1..99 \/ num <= 0 THEN 0
              ELSE IF 10 * num * K > M * den THEN RoundHalfUp(bankroll * M, 1000)
              ELSE RoundHalfUp(bankroll * num * K, 100 * den)
  BY DEF PreBankrollStake
<1> HIDE DEF stake, num, den, K, M
<1>4. CASE p \notin 1..99 \/ num <= 0
  <2>1. stake = 0
    BY <1>3, <1>4
  <2> QED
    BY <2>1
<1>5. CASE p \in 1..99 /\ num > 0 /\ 10 * num * K > M * den
  <2>1. stake = RoundHalfUp(bankroll * M, 1000)
    <3>1. ~(p \notin 1..99 \/ num <= 0)
      BY <1>1, <1>5
    <3> QED
      BY <1>3, <1>5, <3>1, Zenon
  <2>2. bankroll * M \in Nat
    BY <1>2
  <2>3. stake \in Nat /\ 1000 * (stake - 1) <= bankroll * M
    BY <2>1, <2>2, RoundingIsNear
  <2>4. ASSUME stake > 0 PROVE den * (stake - 1) <= num * bankroll
    <3> DEFINE s == stake - 1
               top == num * bankroll
    <3>1. s \in Nat /\ top \in Nat /\ s = stake - 1
      BY <1>1, <1>5, <2>3, <2>4
    <3>2. den * s \in Nat
      BY <1>1, <3>1
    <3>3. 1000 * (den * s) <= den * (bankroll * M)
      <4>1. den * (1000 * s) <= den * (bankroll * M)
        BY <1>1, <2>2, <2>3, <3>1
      <4>2. den * (1000 * s) = 1000 * (den * s)
        BY <1>1, <3>1
      <4> QED
        BY <4>1, <4>2
    <3>4. den * (bankroll * M) = bankroll * (M * den)
      BY <1>1, <1>2
    <3>5. bankroll * (M * den) <= bankroll * (10 * num * K)
      BY <1>1, <1>2, <1>5
    <3>6. bankroll * (10 * num * K) = (10 * K) * (num * bankroll)
      BY <1>1, <1>2
    <3>7. (10 * K) * top <= 1000 * top
      BY <1>2, <3>1
    <3>8. 1000 * (den * s) <= 1000 * top
      <4>1. M * den \in Int /\ 10 * num * K \in Int
        BY <1>1, <1>2
      <4>2. bankroll * (M * den) \in Int /\ bankroll * (10 * num * K) \in Int /\ (10 * K) * top \in Int
        BY <1>2, <3>1, <4>1
      <4> QED
        BY <3>1, <3>2, <3>3, <3>4, <3>5, <3>6, <3>7, <4>2
    <3> QED
      BY <3>1, <3>2, <3>8
  <2> QED
    BY <1>5, <2>3, <2>4
<1>6. CASE p \in 1..99 /\ num > 0 /\ ~(10 * num * K > M * den)
  <2> DEFINE top == num * bankroll
             share == bankroll * num * K
             scale == 100 * den
  <2>1. stake = RoundHalfUp(share, scale)
    <3>1. ~(p \notin 1..99 \/ num <= 0)
      BY <1>1, <1>6
    <3> QED
      BY <1>3, <1>6, <3>1, Zenon
  <2>2. top \in Nat /\ scale \in Nat /\ scale > 0
    BY <1>1, <1>6
  <2>3. share = top * K
    BY <1>1, <1>2
  <2>4. share \in Nat /\ share <= 100 * top
    <3> HIDE DEF top, share
    <3> QED
      BY <1>2, <2>2, <2>3
  <2>5. stake \in Nat /\ scale * (stake - 1) <= share
    <3> HIDE DEF top, share, scale
    <3> QED
      BY <2>1, <2>2, <2>4, RoundingIsNear
  <2>6. scale * (stake - 1) = 100 * (den * (stake - 1)) /\ den * (stake - 1) \in Int
    BY <1>1, <2>5
  <2>7. den * (stake - 1) <= top
    <3> DEFINE less == den * (stake - 1)
    <3> HIDE DEF top, share, scale, less
    <3>1. less \in Int /\ 100 * less <= share
      BY <2>5, <2>6 DEF less
    <3> QED
      BY <2>2, <2>4, <3>1 DEF less
  <2> QED
    BY <1>6, <2>5, <2>7
<1>7. num <= 0 \/ num > 0
  BY <1>1
<1> QED
  BY <1>4, <1>5, <1>6, <1>7, Zenon

-----------------------------------------------------------------------------
AllConfigs == [sizing : Nat, available : Nat, metrics : AllMetrics]
AllPicks == [game : Int, day : Int, market : {"h2h", "totals"}, side : {"home", "away", "over", "under"},
             book : Int, odds : Prices, edge : Int, stake : Nat]

(* What a pick is: its candidate's game and market, a side of that market, *)
(* a price of one of its books that none of the others beats, and a stake  *)
(* within the balance and within the Kelly fraction.                       *)
IsPickOf(p, W, c, k) ==
  /\ p \in AllPicks
  /\ p.game = c.game /\ p.market = c.market
  /\ p.market = "totals" <=> p.side \in {"over", "under"}
  /\ \A i \in DOMAIN c.quotes :
       (IF p.side \in {"home", "over"} THEN c.quotes[i].home ELSE c.quotes[i].away) <= p.odds
  /\ p.stake <= k.available
  /\ W = IF p.side \in {"home", "over"} THEN c.model ELSE 100 - c.model
  /\ W \in 0..100
  /\ p.stake <= PreBankrollStake(W, p.odds, SizingBankroll(k))

(* buildRecommendation: the pick of a candidate is what IsPickOf says. *)
LEMMA PickIs ==
  ASSUME NEW c \in AllCandidates, NEW k \in AllConfigs
  PROVE  IsPickOf(Pick(c, k), SideProbability(c), c, k)
<1> DEFINE p == Pick(c, k)
           side == FavouredSide(c)
           line == ShopBestLine(c.quotes, side)
           odds == PriceOf(line, side)
           W == SideProbability(c)
           stake == PreBankrollStake(W, odds, SizingBankroll(k))
<1>1. /\ c.game \in Int /\ c.day \in Int /\ c.market \in {"h2h", "totals"}
      /\ c.quotes \in Seq(AllQuotes) /\ c.quotes # <<>>
  BY DEF AllCandidates
<1>m. c.model \in 0..100 /\ c.price \in 0..100
  BY DEF AllCandidates
<1>2. k.available \in Nat /\ SizingBankroll(k) \in Nat
  BY DEF AllConfigs, SizingBankroll
<1>3. side \in {"home", "away"}
  BY DEF FavouredSide
<1>4. /\ p.game = c.game /\ p.day = c.day /\ p.market = c.market /\ p.side = SideLabel(c) /\ p.book = line.book
      /\ p.odds = odds /\ p.edge = ModelEdge(c) /\ p.stake = CapToAvailable(stake, k.available)
  BY DEF Pick
<1>5. DOMAIN p = {"game", "day", "market", "side", "book", "odds", "edge", "stake"}
      /\ p = [game |-> p.game, day |-> p.day, market |-> p.market, side |-> p.side, book |-> p.book,
              odds |-> p.odds, edge |-> p.edge, stake |-> p.stake]
  BY DEF Pick
<1>6. /\ p.side \in {"home", "away", "over", "under"}
      /\ p.market = "totals" <=> p.side \in {"over", "under"}
      /\ p.side \in {"home", "over"} <=> side = "home"
  BY <1>1, <1>3, <1>4 DEF SideLabel
<1>7. (W = IF p.side \in {"home", "over"} THEN c.model ELSE 100 - c.model) /\ W \in 0..100
  <2>1. c.model \in Int /\ c.model \in 0..100 /\ 100 - c.model \in 0..100
    BY <1>m
  <2>2. W = IF side = "home" THEN c.model ELSE 100 - c.model
    BY <1>3 DEF SideProbability
  <2> HIDE DEF W, side, p
  <2> QED
    BY <1>6, <2>1, <2>2
<1>8. PICK j \in DOMAIN c.quotes :
        /\ line = c.quotes[j]
        /\ \A i \in DOMAIN c.quotes : PriceOf(c.quotes[i], side) <= PriceOf(c.quotes[j], side)
  BY <1>1, BestLineIsBest
<1>9. line \in AllQuotes
  BY <1>1, <1>8
<1>10. line.book \in Int /\ odds \in Prices
  BY <1>9 DEF AllQuotes, PriceOf
<1>11. ModelEdge(c) \in Int
  <2>1. c.model \in Int /\ c.price \in Int
    BY <1>m
  <2> QED
    BY <2>1 DEF ModelEdge
<1> HIDE DEF p, W, line
<1>12. \A i \in DOMAIN c.quotes :
         (IF p.side \in {"home", "over"} THEN c.quotes[i].home ELSE c.quotes[i].away) <= p.odds
  BY <1>3, <1>4, <1>6, <1>8 DEF PriceOf
<1> HIDE DEF odds, side
<1>13. stake \in Nat
  BY <1>2, <1>7, <1>10, StakeWithinKelly
<1>14. p.stake \in Nat /\ p.stake <= k.available /\ p.stake <= stake
  BY <1>2, <1>4, <1>13 DEF CapToAvailable
<1>15. stake = PreBankrollStake(W, p.odds, SizingBankroll(k))
  BY <1>4, <1>7
<1> HIDE DEF stake
<1>16. p \in AllPicks
  BY <1>1, <1>4, <1>5, <1>6, <1>10, <1>11, <1>14 DEF AllPicks
<1>17. IsPickOf(p, W, c, k)
  BY <1>4, <1>6, <1>7, <1>12, <1>14, <1>15, <1>16 DEF IsPickOf
<1> QED
  BY <1>17 DEF p, W

-----------------------------------------------------------------------------
(* The ranking. *)

(* The first of six keys in which two picks differ decides. *)
Decides(a, b) ==
  \/ a[1] > b[1]
  \/ a[1] = b[1] /\ a[2] > b[2]
  \/ a[1] = b[1] /\ a[2] = b[2] /\ a[3] > b[3]
  \/ a[1] = b[1] /\ a[2] = b[2] /\ a[3] = b[3] /\ a[4] > b[4]
  \/ a[1] = b[1] /\ a[2] = b[2] /\ a[3] = b[3] /\ a[4] = b[4] /\ a[5] > b[5]
  \/ a[1] = b[1] /\ a[2] = b[2] /\ a[3] = b[3] /\ a[4] = b[4] /\ a[5] = b[5] /\ a[6] > b[6]

SixKeys(a) == DOMAIN a = 1..6 /\ \A i \in 1..6 : a[i] \in Int

(* The first of six keys that differs decides. *)
LEMMA FirstDifference ==
  ASSUME NEW a, SixKeys(a), NEW b, SixKeys(b)
  PROVE  (\E i \in DOMAIN a : a[i] > b[i] /\ \A j \in 1..(i - 1) : a[j] = b[j]) <=> Decides(a, b)
<1> DEFINE At(i) == a[i] > b[i] /\ \A j \in 1..(i - 1) : a[j] = b[j]
<1>1. \A i \in 1..6 : i = 1 \/ i = 2 \/ i = 3 \/ i = 4 \/ i = 5 \/ i = 6
  OBVIOUS
<1>2. At(1) <=> a[1] > b[1]
  OBVIOUS
<1>3. At(2) <=> a[1] = b[1] /\ a[2] > b[2]
  OBVIOUS
<1>4. At(3) <=> a[1] = b[1] /\ a[2] = b[2] /\ a[3] > b[3]
  <2>1. \A j \in 1..(3 - 1) : j = 1 \/ j = 2
    OBVIOUS
  <2> QED
    BY <2>1
<1>5. At(4) <=> a[1] = b[1] /\ a[2] = b[2] /\ a[3] = b[3] /\ a[4] > b[4]
  <2>1. \A j \in 1..(4 - 1) : j = 1 \/ j = 2 \/ j = 3
    OBVIOUS
  <2> QED
    BY <2>1
<1>6. At(5) <=> a[1] = b[1] /\ a[2] = b[2] /\ a[3] = b[3] /\ a[4] = b[4] /\ a[5] > b[5]
  <2>1. \A j \in 1..(5 - 1) : j = 1 \/ j = 2 \/ j = 3 \/ j = 4
    OBVIOUS
  <2> QED
    BY <2>1
<1>7. At(6) <=> a[1] = b[1] /\ a[2] = b[2] /\ a[3] = b[3] /\ a[4] = b[4] /\ a[5] = b[5] /\ a[6] > b[6]
  <2>1. \A j \in 1..(6 - 1) : j = 1 \/ j = 2 \/ j = 3 \/ j = 4 \/ j = 5
    OBVIOUS
  <2> QED
    BY <2>1
<1>8. 1 \in 1..6 /\ 2 \in 1..6 /\ 3 \in 1..6 /\ 4 \in 1..6 /\ 5 \in 1..6 /\ 6 \in 1..6 /\ DOMAIN a = 1..6
  BY DEF SixKeys
<1>9. (\E i \in 1..6 : At(i)) <=> At(1) \/ At(2) \/ At(3) \/ At(4) \/ At(5) \/ At(6)
  <2> HIDE DEF At
  <2> QED
    BY <1>1, <1>8
<1> QED
  BY <1>2, <1>3, <1>4, <1>5, <1>6, <1>7, <1>8, <1>9 DEF Decides

Keys(p, bankroll) == <<Score(p, bankroll), p.odds, p.edge, p.stake, -p.game, -MarketOrder[p.market]>>

(* RanksBefore compares six integer keys. *)
LEMMA RanksByKeys ==
  ASSUME NEW p \in AllPicks, NEW q \in AllPicks, NEW bankroll \in Nat
  PROVE  /\ SixKeys(Keys(p, bankroll))
         /\ RanksBefore(p, q, bankroll) <=> Decides(Keys(p, bankroll), Keys(q, bankroll))
<1>1. ASSUME NEW x \in AllPicks PROVE SixKeys(Keys(x, bankroll))
  <2>1. /\ x.odds \in Int /\ x.edge \in Int /\ x.stake \in Int /\ x.game \in Int
        /\ x.market \in {"h2h", "totals"}
    BY DEF AllPicks, Prices
  <2>2. Score(x, bankroll) \in Int
    BY <2>1 DEF Score
  <2>3. MarketOrder["h2h"] = 1 /\ MarketOrder["totals"] = 2
    BY DEF MarketOrder
  <2>4. MarketOrder[x.market] \in Int
    BY <2>1, <2>3
  <2> DEFINE a1 == Score(x, bankroll)
             a6 == -MarketOrder[x.market]
             a5 == -x.game
  <2>5. a6 \in Int /\ a5 \in Int /\ a1 \in Int
    BY <2>1, <2>2, <2>4
  <2>6. Keys(x, bankroll) = <<a1, x.odds, x.edge, x.stake, a5, a6>>
    BY DEF Keys
  <2> HIDE DEF a1, a5, a6
  <2> QED
    BY <2>1, <2>5, <2>6 DEF SixKeys
<1>2. RanksBefore(p, q, bankroll) <=>
        \E i \in DOMAIN Keys(p, bankroll) :
          Keys(p, bankroll)[i] > Keys(q, bankroll)[i]
          /\ \A j \in 1..(i - 1) : Keys(p, bankroll)[j] = Keys(q, bankroll)[j]
  BY DEF RanksBefore, Keys
<1> QED
  BY <1>1, <1>2, FirstDifference

(* Such an order is strict, and total where the game or the market differs.*)
LEMMA RankIsStrict ==
  ASSUME NEW a, SixKeys(a), NEW b, SixKeys(b), NEW c, SixKeys(c)
  PROVE  /\ Decides(a, b) => ~Decides(b, a)
         /\ Decides(a, b) /\ Decides(b, c) => Decides(a, c)
         /\ (a[5] # b[5] \/ a[6] # b[6]) => Decides(a, b) \/ Decides(b, a)
<1>1. /\ a[1] \in Int /\ a[2] \in Int /\ a[3] \in Int /\ a[4] \in Int /\ a[5] \in Int /\ a[6] \in Int
      /\ b[1] \in Int /\ b[2] \in Int /\ b[3] \in Int /\ b[4] \in Int /\ b[5] \in Int /\ b[6] \in Int
      /\ c[1] \in Int /\ c[2] \in Int /\ c[3] \in Int /\ c[4] \in Int /\ c[5] \in Int /\ c[6] \in Int
  BY DEF SixKeys
<1> QED
  BY <1>1 DEF Decides

(* No two picks of one game and market. *)
OnePerMarket(S) == \A p, q \in S : p.game = q.game /\ p.market = q.market => p = q

RankOrder(S, bankroll) == {x \in S \X S : RanksBefore(x[1], x[2], bankroll)}

(* The rank orders picks of which each game and market has one. *)
LEMMA RankIsOrder ==
  ASSUME NEW S, S \in SUBSET AllPicks, OnePerMarket(S), NEW bankroll \in Nat
  PROVE  /\ StrictOrderOn(RankOrder(S, bankroll), S) /\ TotalOn(RankOrder(S, bankroll), S)
         /\ \A p, q \in S : <<p, q>> \in RankOrder(S, bankroll) <=> RanksBefore(p, q, bankroll)
<1> DEFINE K(p) == Keys(p, bankroll)
<1>1. \A p, q \in S : <<p, q>> \in RankOrder(S, bankroll) <=> RanksBefore(p, q, bankroll)
  BY DEF RankOrder
<1>2. \A p, q \in S : SixKeys(K(p)) /\ (RanksBefore(p, q, bankroll) <=> Decides(K(p), K(q)))
  BY RanksByKeys
<1>3. ASSUME NEW p \in S, NEW q \in S, p # q PROVE K(p)[5] # K(q)[5] \/ K(p)[6] # K(q)[6]
  <2>1. p.game \in Int /\ q.game \in Int /\ p.market \in {"h2h", "totals"} /\ q.market \in {"h2h", "totals"}
    BY DEF AllPicks
  <2>2. MarketOrder["h2h"] = 1 /\ MarketOrder["totals"] = 2
    BY DEF MarketOrder
  <2>3. K(p)[5] = -p.game /\ K(q)[5] = -q.game
        /\ K(p)[6] = -MarketOrder[p.market] /\ K(q)[6] = -MarketOrder[q.market]
    BY DEF Keys
  <2>4. p.game # q.game \/ p.market # q.market
    BY <1>3 DEF OnePerMarket
  <2> HIDE DEF K
  <2>5. CASE p.game # q.game
    BY <2>1, <2>3, <2>5
  <2>6. CASE p.market # q.market
    BY <2>1, <2>2, <2>3, <2>6
  <2> QED
    BY <2>4, <2>5, <2>6
<1> HIDE DEF K
<1>4. StrictOrderOn(RankOrder(S, bankroll), S)
  <2>1. ASSUME NEW p \in S, NEW q \in S, <<p, q>> \in RankOrder(S, bankroll)
        PROVE  <<q, p>> \notin RankOrder(S, bankroll)
    <3>1. Decides(K(p), K(q)) /\ SixKeys(K(p)) /\ SixKeys(K(q))
      BY <1>1, <1>2, <2>1
    <3>2. ~Decides(K(q), K(p))
      BY <3>1, RankIsStrict
    <3> QED
      BY <1>1, <1>2, <3>2
  <2>2. ASSUME NEW p \in S, NEW q \in S, NEW r \in S,
               <<p, q>> \in RankOrder(S, bankroll), <<q, r>> \in RankOrder(S, bankroll)
        PROVE  <<p, r>> \in RankOrder(S, bankroll)
    <3>1. Decides(K(p), K(q)) /\ Decides(K(q), K(r)) /\ SixKeys(K(p)) /\ SixKeys(K(q)) /\ SixKeys(K(r))
      BY <1>1, <1>2, <2>2
    <3>2. Decides(K(p), K(r))
      BY <3>1, RankIsStrict
    <3> QED
      BY <1>1, <1>2, <3>2
  <2> QED
    BY <2>1, <2>2 DEF StrictOrderOn
<1>5. TotalOn(RankOrder(S, bankroll), S)
  <2>1. ASSUME NEW p \in S, NEW q \in S, p # q
        PROVE  <<p, q>> \in RankOrder(S, bankroll) \/ <<q, p>> \in RankOrder(S, bankroll)
    <3>1. SixKeys(K(p)) /\ SixKeys(K(q))
      BY <1>2
    <3>2. Decides(K(p), K(q)) \/ Decides(K(q), K(p))
      BY <1>3, <2>1, <3>1, RankIsStrict
    <3> QED
      BY <1>1, <1>2, <3>2
  <2> QED
    BY <2>1 DEF TotalOn
<1> QED
  BY <1>1, <1>4, <1>5

(* The ranking: each pick once, in the order of their ranks. *)
LEMMA SortByRankSorts ==
  ASSUME NEW s, s \in Seq(AllPicks), IsInjective(s), OnePerMarket(ToSet(s)), NEW bankroll \in Nat
  PROVE  LET S == ToSet(s)
             r == SortByRank(s, bankroll)
         IN  r \in Seq(S) /\ ToSet(r) = S /\ SortedBy(r, RankOrder(S, bankroll))
<1> DEFINE S == ToSet(s)
           before == RankOrder(S, bankroll)
           n == Len(s)
<1>1. s \in Seq(S) /\ S \in SUBSET AllPicks /\ n \in Nat /\ DOMAIN s = 1..n
  <2>1. \A i \in DOMAIN s : s[i] \in AllPicks /\ s[i] \in S
    BY DEF ToSet
  <2>2. S \in SUBSET AllPicks
    BY <2>1 DEF ToSet
  <2>3. DOMAIN s = 1..n /\ n \in Nat /\ s = [i \in 1..n |-> s[i]]
    OBVIOUS
  <2> HIDE DEF S, n
  <2>4. s \in Seq(S)
    BY <2>1, <2>3
  <2> QED
    BY <2>2, <2>3, <2>4
<1>2. /\ StrictOrderOn(before, S) /\ TotalOn(before, S)
      /\ \A p, q \in S : <<p, q>> \in before <=> RanksBefore(p, q, bankroll)
  BY <1>1, RankIsOrder
<1>3. PICK run \in [0..n -> Seq(S)] : Ranks(run, s, bankroll)
  BY <1>1, SortByRankRuns
<1> HIDE DEF S, before
<1>4. ASSUME NEW i \in 1..n
      PROVE  run[i] = InsertBehind(run[i - 1], s[i], {j \in DOMAIN run[i - 1] : <<s[i], run[i - 1][j]>> \notin before})
  <2>1. i - 1 \in 0..n /\ s[i] \in S
    BY <1>1
  <2>2. run[i - 1] \in Seq(S)
    BY <2>1
  <2>3. \A j \in DOMAIN run[i - 1] : run[i - 1][j] \in S
    BY <2>2
  <2>4. {j \in DOMAIN run[i - 1] : <<s[i], run[i - 1][j]>> \notin before}
          = {j \in DOMAIN run[i - 1] : ~RanksBefore(s[i], run[i - 1][j], bankroll)}
    BY <1>2, <2>1, <2>3
  <2> QED
    BY <1>3, <2>4 DEF Ranks, n
<1>5. Insertions(run, s, before) /\ run[n] = SortByRank(s, bankroll)
  BY <1>3, <1>4 DEF Insertions, Ranks, n
<1>6. run[n] \in Seq(S) /\ SortedBy(run[n], before) /\ ToSet(run[n]) = ToSet(s)
  BY <1>1, <1>2, <1>3, <1>5, InsertionsSort DEF n
<1> QED
  BY <1>5, <1>6 DEF S, before

-----------------------------------------------------------------------------
(* The guards. *)

(* The correlation guard, pick by pick. *)
IsKept(kept, p, bankroll) == p.stake <= 0 \/ HasRoom(kept, p, bankroll)

Guards(run, s, bankroll) ==
  /\ run[0] = <<>> /\ run[Len(s)] = ApplyCorrelationGuard(s, bankroll)
  /\ \A i \in 1..Len(s) :
       run[i] = IF s[i].stake <= 0 \/ HasRoom(run[i - 1], s[i], bankroll) THEN Append(run[i - 1], s[i]) ELSE run[i - 1]

(* ApplyCorrelationGuard goes through the ranked picks once. *)
LEMMA GuardRuns ==
  ASSUME NEW A, NEW s, s \in Seq(A), NEW bankroll
  PROVE  \E run \in [0..Len(s) -> Seq(A)] : Guards(run, s, bankroll)
<1> DEFINE n == Len(s)
           V == Seq(A)
           op(v, x) == IF x.stake <= 0 \/ HasRoom(v, x, bankroll) THEN Append(v, x) ELSE v
           IsIter(h) == h = [T \in SUBSET (1..n) |->
                               IF T = {} THEN <<>> ELSE op(h[T \ {Max(T)}], s[Max(T)])]
           iter == CHOOSE h : IsIter(h)
           base == <<>>
           step == [i \in 1..n |-> [v \in V |-> op(v, s[i])]]
<1>0. n \in Nat /\ DOMAIN s = 1..n /\ base \in V
  OBVIOUS
<1>1. ApplyCorrelationGuard(s, bankroll) = iter[1..n]
  BY <1>0 DEF ApplyCorrelationGuard, FoldLeft, MapThenFoldSet
<1>2. \A i \in 1..n : s[i] \in A
  OBVIOUS
<1>3. step \in [1..n -> [V -> V]]
  <2>1. ASSUME NEW v \in V, NEW x \in A PROVE op(v, x) \in V
    OBVIOUS
  <2> HIDE DEF op, n, V
  <2> QED
    BY <1>2, <2>1
<1> HIDE DEF n, op
<1>4. \E h : IsIter(h)
  <2>1. PICK g \in [SUBSET (1..n) -> V] : FoldsLeft(g, base, step, n, V)
    <3> HIDE DEF step, V, base
    <3> QED
      BY <1>0, <1>3, LeftFolds
  <2> HIDE DEF V
  <2>2. \A T \in SUBSET (1..n) : g[T] = IF T = {} THEN <<>> ELSE op(g[T \ {Max(T)}], s[Max(T)])
    BY <2>1 DEF FoldsLeft
  <2>3. g = [T \in SUBSET (1..n) |-> g[T]]
    BY <2>1
  <2>4. IsIter(g)
    BY <2>2, <2>3
  <2> QED
    BY <2>4
<1>5. IsIter(iter)
  <2> HIDE DEF IsIter
  <2> QED
    BY <1>4
<1>6. Iterates(iter, base, step, n, V)
  <2> HIDE DEF iter, V
  <2>1. ASSUME NEW T \in SUBSET (1..n), T # {}, iter[T \ {Max(T)}] \in V
        PROVE  iter[T] = step[Max(T)][iter[T \ {Max(T)}]]
    <3>1. Max(T) \in 1..n
      BY <1>0, <2>1, MaxOfPlaces
    <3> QED
      BY <1>5, <2>1, <3>1
  <2>2. \A T \in SUBSET (1..n) : T = {} => iter[T] = base
    BY <1>5
  <2> HIDE DEF step, base
  <2> QED
    BY <2>1, <2>2 DEF Iterates
<1>7. PICK run \in [0..n -> V] : StepsBy(run, base, step, n, iter[1..n])
  <2> HIDE DEF iter, step, V, base
  <2> QED
    BY <1>0, <1>3, <1>6, LeftRuns
<1>8. ASSUME NEW i \in 1..n PROVE run[i] = op(run[i - 1], s[i])
  <2>1. i - 1 \in 0..n
    BY <1>0
  <2>2. run[i - 1] \in V
    <3> HIDE DEF V
    <3> QED
      BY <1>7, <2>1
  <2> HIDE DEF V
  <2> QED
    BY <1>7, <2>2 DEF StepsBy
<1>9. run[0] = <<>> /\ run[n] = ApplyCorrelationGuard(s, bankroll)
  BY <1>1, <1>7 DEF StepsBy
<1> HIDE DEF iter
<1> QED
  BY <1>8, <1>9 DEF n, op, Guards

KeptAt(run, s, bankroll, i) == {s[j] : j \in {k \in 1..i : IsKept(run[k - 1], s[k], bankroll)}}

(* It keeps some of the picks, in their order. *)
LEMMA GuardKeeps ==
  ASSUME NEW A, NEW s, s \in Seq(A), NEW bankroll, NEW run, run \in [0..Len(s) -> Seq(A)], Guards(run, s, bankroll)
  PROVE  /\ \A i \in 0..Len(s) : ToSet(run[i]) = KeptAt(run, s, bankroll, i)
         /\ ToSet(run[Len(s)]) \subseteq ToSet(s)
<1> DEFINE n == Len(s)
           kept(k) == IsKept(run[k - 1], s[k], bankroll)
           in(i) == {s[j] : j \in {k \in 1..i : kept(k)}}
           Good == {i \in 0..n : ToSet(run[i]) = in(i)}
<1>1. n \in Nat /\ DOMAIN s = 1..n /\ \A i \in 1..n : s[i] \in A
  OBVIOUS
<1>2. run \in [0..n -> Seq(A)] /\ run[0] = <<>>
  BY DEF Guards
<1>3. \A i \in 1..n : run[i] = IF kept(i) THEN Append(run[i - 1], s[i]) ELSE run[i - 1]
  BY DEF Guards, IsKept
<1> HIDE DEF n, kept
<1>4. 0 \in Good
  <2>1. ToSet(<<>>) = {} /\ in(0) = {}
    BY DEF ToSet
  <2> QED
    BY <1>1, <1>2, <2>1
<1>5. ASSUME NEW i \in 1..n, i - 1 \in Good
      PROVE  i \in Good
  <2>1. i - 1 \in 0..n /\ i \in 0..n /\ 1..i = (1..(i - 1)) \cup {i}
    BY <1>1
  <2>2. ToSet(run[i - 1]) = in(i - 1) /\ run[i - 1] \in Seq(A)
    BY <1>2, <1>5, <2>1
  <2>3. CASE kept(i)
    <3>1. in(i) = in(i - 1) \cup {s[i]}
      BY <2>1, <2>3
    <3>2. ToSet(run[i]) = ToSet(run[i - 1]) \cup {s[i]}
      BY <1>1, <1>3, <2>2, <2>3, ElementsAppended
    <3> QED
      BY <2>1, <2>2, <3>1, <3>2
  <2>4. CASE ~kept(i)
    <3>1. in(i) = in(i - 1)
      BY <2>1, <2>4
    <3> QED
      BY <1>3, <2>1, <2>2, <2>4, <3>1
  <2> QED
    BY <2>3, <2>4
<1> HIDE DEF Good
<1>6. \A i \in 0..n : i \in Good
  BY <1>1, <1>4, <1>5, CountUp
<1>7. \A i \in 0..n : ToSet(run[i]) = in(i)
  BY <1>6 DEF Good
<1>8. ToSet(run[n]) \subseteq ToSet(s)
  <2>1. n \in 0..n
    BY <1>1
  <2>2. ASSUME NEW x \in in(n) PROVE x \in ToSet(s)
    BY <1>1 DEF ToSet
  <2> HIDE DEF in
  <2> QED
    BY <1>7, <2>1, <2>2
<1> QED
  BY <1>7, <1>8 DEF n, kept, KeptAt

OneEach(cs) ==
  \A i, j \in DOMAIN cs : cs[i].game = cs[j].game /\ cs[i].market = cs[j].market => i = j

(* The sized picks: one of each candidate that passes. *)
LEMMA SizedIs ==
  ASSUME NEW cs, cs \in Seq(AllCandidates), OneEach(cs), NEW k, k \in AllConfigs
  PROVE  LET s == Sized(cs, k)
         IN  /\ s \in Seq(AllPicks) /\ IsInjective(s) /\ OnePerMarket(ToSet(s))
             /\ ToSet(s) = {Pick(c, k) : c \in {d \in ToSet(cs) : PassesThreshold(d)}}
<1> DEFINE places == {i \in DOMAIN cs : PassesThreshold(cs[i])}
           passing == Where(cs, places)
           s == Sized(cs, k)
           n == Len(passing)
<1>1. DOMAIN cs = 1..Len(cs) /\ \A i \in DOMAIN cs : cs[i] \in AllCandidates
  OBVIOUS
<1>2. IsInjective(cs)
  BY DEF OneEach, IsInjective
<1>3. passing \in Seq(AllCandidates) /\ IsInjective(passing) /\ ToSet(passing) = {cs[i] : i \in places \cap (1..Len(cs))}
  BY <1>2, WhereElements
<1>4. ToSet(passing) = {d \in ToSet(cs) : PassesThreshold(d)}
  BY <1>1, <1>3 DEF ToSet
<1>5. s = [i \in DOMAIN passing |-> Pick(passing[i], k)]
  BY DEF Sized
<1> HIDE DEF passing, s, places
<1>6. n \in Nat /\ DOMAIN passing = 1..n /\ \A i \in 1..n : passing[i] \in AllCandidates
  BY <1>3
<1>7. \A c \in AllCandidates : Pick(c, k) \in AllPicks /\ Pick(c, k).game = c.game /\ Pick(c, k).market = c.market
  BY PickIs DEF IsPickOf
<1> HIDE DEF n
<1>8. s \in Seq(AllPicks) /\ DOMAIN s = 1..n /\ \A i \in 1..n : s[i] = Pick(passing[i], k)
  <2>1. \A i \in 1..n : Pick(passing[i], k) \in AllPicks
    BY <1>6, <1>7
  <2>2. s = [i \in 1..n |-> Pick(passing[i], k)]
    BY <1>5, <1>6
  <2> QED
    BY <1>6, <2>1, <2>2
<1>9. ASSUME NEW i \in 1..n, NEW j \in 1..n, s[i].game = s[j].game, s[i].market = s[j].market
      PROVE  i = j
  <2>1. passing[i].game = passing[j].game /\ passing[i].market = passing[j].market
    BY <1>6, <1>7, <1>8, <1>9
  <2>2. passing[i] \in ToSet(cs) /\ passing[j] \in ToSet(cs)
    BY <1>4, <1>6 DEF ToSet
  <2>3. PICK a \in DOMAIN cs, b \in DOMAIN cs : passing[i] = cs[a] /\ passing[j] = cs[b]
    BY <2>2 DEF ToSet
  <2>4. a = b
    BY <2>1, <2>3 DEF OneEach
  <2> QED
    BY <1>3, <1>6, <2>3, <2>4 DEF IsInjective
<1>10. IsInjective(s)
  BY <1>8, <1>9 DEF IsInjective
<1>11. OnePerMarket(ToSet(s))
  <2>1. \A p \in ToSet(s) : \E i \in 1..n : p = s[i]
    BY <1>8 DEF ToSet
  <2> QED
    BY <1>9, <2>1 DEF OnePerMarket
<1>12. ToSet(s) = {Pick(c, k) : c \in ToSet(passing)}
  <2>1. ToSet(s) = {Pick(passing[i], k) : i \in 1..n}
    BY <1>8 DEF ToSet
  <2>2. ToSet(passing) = {passing[i] : i \in 1..n}
    BY <1>6 DEF ToSet
  <2> QED
    BY <2>1, <2>2
<1> QED
  BY <1>4, <1>8, <1>10, <1>11, <1>12 DEF s

(* The ranking of them. *)
LEMMA RankedIs ==
  ASSUME NEW cs, cs \in Seq(AllCandidates), OneEach(cs), NEW k, k \in AllConfigs
  PROVE  LET S == ToSet(Sized(cs, k))
             r == SortByRank(Sized(cs, k), SizingBankroll(k))
         IN  /\ r \in Seq(S) /\ ToSet(r) = S /\ SortedBy(r, RankOrder(S, SizingBankroll(k)))
             /\ S \in SUBSET AllPicks /\ SizingBankroll(k) \in Nat
             /\ StrictOrderOn(RankOrder(S, SizingBankroll(k)), S)
<1> DEFINE s == Sized(cs, k)
           S == ToSet(s)
           B == SizingBankroll(k)
<1>1. s \in Seq(AllPicks) /\ IsInjective(s) /\ OnePerMarket(S)
  BY SizedIs
<1>2. B \in Nat
  BY DEF SizingBankroll, AllConfigs
<1>3. S \in SUBSET AllPicks
  <2> HIDE DEF s
  <2>1. \A i \in DOMAIN s : s[i] \in AllPicks
    BY <1>1
  <2> QED
    BY <2>1 DEF ToSet
<1> HIDE DEF s, S, B
<1>4. StrictOrderOn(RankOrder(S, B), S)
  BY <1>1, <1>2, <1>3, RankIsOrder
<1>5. SortByRank(s, B) \in Seq(S) /\ ToSet(SortByRank(s, B)) = S /\ SortedBy(SortByRank(s, B), RankOrder(S, B))
  BY <1>1, <1>2, SortByRankSorts DEF S
<1> QED
  BY <1>2, <1>3, <1>4, <1>5 DEF s, S, B

(* A recommendation is a candidate's pick; once a breaker trips, of no stake. *)
LEMMA ResultIs ==
  ASSUME NEW cs, cs \in Seq(AllCandidates), OneEach(cs), NEW k, k \in AllConfigs,
         NEW p, p \in ToSet(BuildRecommendations(cs, k))
  PROVE  /\ p \in ToSet(Sized(cs, k))
         /\ BreakerTrips(k.metrics) => p.stake <= 0
<1> DEFINE S == ToSet(Sized(cs, k))
           B == SizingBankroll(k)
           r == SortByRank(Sized(cs, k), B)
           kept == ApplyCorrelationGuard(r, B)
           places == {i \in DOMAIN kept : kept[i].stake <= 0}
<1>1. r \in Seq(S) /\ ToSet(r) = S
  BY RankedIs
<1>2. BuildRecommendations(cs, k) = IF BreakerTrips(k.metrics) THEN Where(kept, places) ELSE kept
  BY DEF BuildRecommendations, ApplyCircuitBreakerGuard
<1> HIDE DEF S, r
<1>3. PICK run \in [0..Len(r) -> Seq(S)] : Guards(run, r, B)
  BY <1>1, GuardRuns
<1>4. Len(r) \in 0..Len(r) /\ run[Len(r)] = kept
  BY <1>1, <1>3 DEF Guards
<1>5. kept \in Seq(S) /\ ToSet(kept) \subseteq S
  BY <1>1, <1>3, <1>4, GuardKeeps
<1> HIDE DEF kept
<1>6. ToSet(Where(kept, places)) = {kept[i] : i \in places \cap (1..Len(kept))}
  <2> HIDE DEF places
  <2> QED
    BY <1>5, WhereElements
<1>7. CASE BreakerTrips(k.metrics)
  <2>1. p \in {kept[i] : i \in places \cap (1..Len(kept))}
    BY <1>2, <1>6, <1>7
  <2>2. PICK i \in DOMAIN kept : p = kept[i] /\ kept[i].stake <= 0
    BY <2>1
  <2>3. p \in S
    BY <1>5, <2>2 DEF ToSet
  <2> QED
    BY <2>2, <2>3 DEF S
<1>8. CASE ~BreakerTrips(k.metrics)
  BY <1>2, <1>5, <1>8 DEF S
<1> QED
  BY <1>7, <1>8

-----------------------------------------------------------------------------
(* Recommendations. *)

(* What requests are: candidates that there may be, one for each game and  *)
(* market, and the balances of a ledger.                                   *)
PickInv == candidates \in Seq(Universe) /\ OneEach(candidates) /\ cfg \in Configs

(* Candidates are of the universe, one of each game and market. *)
LEMMA PickInvHolds == PickSpec => []PickInv
<1>1. PickInit => PickInv
  BY DEF PickInit, PickInv, OneEach
<1>2. ASSUME PickInv, [PickNext]_pickVars
      PROVE  PickInv'
  <2>1. CASE UNCHANGED pickVars
    BY <1>2, <2>1 DEF PickInv, pickVars, OneEach
  <2>2. ASSUME NEW c \in Universe, Gather(c)
        PROVE  PickInv'
    <3>1. candidates' = Append(candidates, c) /\ cfg' = cfg
      BY <2>2 DEF Gather
    <3>2. candidates' \in Seq(Universe) /\ cfg' \in Configs
      BY <1>2, <3>1 DEF PickInv
    <3>3. OneEach(candidates')
      <4> DEFINE n == Len(candidates)
      <4>1. n \in Nat /\ DOMAIN candidates = 1..n /\ DOMAIN candidates' = 1..(n + 1)
            /\ candidates'[n + 1] = c /\ \A i \in 1..n : candidates'[i] = candidates[i]
        BY <1>2, <3>1 DEF PickInv
      <4> HIDE DEF n
      <4>2. \A i \in 1..n : ~(candidates[i].game = c.game /\ candidates[i].market = c.market)
        BY <2>2, <4>1 DEF Gather
      <4>3. \A i, j \in 1..n : candidates[i].game = candidates[j].game /\ candidates[i].market = candidates[j].market => i = j
        BY <1>2, <4>1 DEF PickInv, OneEach
      <4>4. \A i \in 1..(n + 1) : i \in 1..n \/ i = n + 1
        BY <4>1
      <4> QED
        BY <4>1, <4>2, <4>3, <4>4 DEF OneEach
    <3> QED
      BY <3>2, <3>3 DEF PickInv
  <2> QED
    BY <1>2, <2>1, <2>2 DEF PickNext
<1> QED
  BY <1>1, <1>2, PTL DEF PickSpec

(* They have the types that the operators of Decision expect. *)
LEMMA PickInvTypes ==
  ASSUME PickInv
  PROVE  candidates \in Seq(AllCandidates) /\ OneEach(candidates) /\ cfg \in AllConfigs
<1>1. Universe \subseteq AllCandidates /\ Configs \subseteq AllConfigs
  BY PicksAssumption DEF PicksAssumption, AllConfigs
<1>2. candidates \in Seq(Universe) /\ DOMAIN candidates = 1..Len(candidates)
  BY DEF PickInv
<1>3. \A i \in DOMAIN candidates : candidates[i] \in AllCandidates
  BY <1>1, <1>2
<1>4. candidates \in Seq(AllCandidates)
  BY <1>2, <1>3
<1> QED
  BY <1>1, <1>4 DEF PickInv

(* Each recommendation belongs to the candidate of its game and market.    *)
LEMMA RecommendationIs ==
  ASSUME PickInv, NEW p, p \in ToSet(Result)
  PROVE  /\ CandidateOf(p) \in AllCandidates
         /\ IsPickOf(p, WinPercent(p), CandidateOf(p), cfg)
         /\ BreakerTrips(cfg.metrics) => p.stake <= 0
<1>1. candidates \in Seq(AllCandidates) /\ OneEach(candidates) /\ cfg \in AllConfigs
  BY PickInvTypes
<1>2. p \in ToSet(Sized(candidates, cfg)) /\ (BreakerTrips(cfg.metrics) => p.stake <= 0)
  BY <1>1, ResultIs DEF Result
<1>3. PICK c \in ToSet(candidates) : p = Pick(c, cfg)
  BY <1>1, <1>2, SizedIs
<1>4. c \in AllCandidates
  BY <1>1 DEF ToSet
<1>5. IsPickOf(p, SideProbability(c), c, cfg)
  BY <1>1, <1>3, <1>4, PickIs
<1>6. CandidateOf(p) = c
  <2>1. c.game = p.game /\ c.market = p.market
    BY <1>5 DEF IsPickOf
  <2>2. ASSUME NEW d \in ToSet(candidates), d.game = p.game, d.market = p.market PROVE d = c
    <3>1. PICK i \in DOMAIN candidates, j \in DOMAIN candidates : candidates[i] = c /\ candidates[j] = d
      BY DEF ToSet
    <3> QED
      BY <1>1, <2>1, <2>2, <3>1 DEF OneEach
  <2> QED
    BY <2>1, <2>2 DEF CandidateOf
<1>7. WinPercent(p) = SideProbability(c)
  BY <1>5, <1>6 DEF IsPickOf, WinPercent
<1> QED
  BY <1>2, <1>4, <1>5, <1>6, <1>7

(* Every pick has a whole stake in cents and a side of its own market. *)
THEOREM PickTypeCorrect == PickSpec => []PickTypeOK
<1>1. PickInv => PickTypeOK
  <2> SUFFICES ASSUME PickInv PROVE PickTypeOK
    OBVIOUS
  <2>1. cfg \in Configs /\ ToSet(candidates) \subseteq Universe
    BY DEF PickInv, ToSet
  <2>2. ASSUME NEW p \in ToSet(Result)
        PROVE  p.stake \in Nat /\ p.side \in {"home", "away", "over", "under"}
               /\ (p.market = "totals" <=> p.side \in {"over", "under"})
    <3>1. IsPickOf(p, WinPercent(p), CandidateOf(p), cfg)
      BY RecommendationIs
    <3> QED
      BY <3>1 DEF IsPickOf, AllPicks
  <2> QED
    BY <2>1, <2>2 DEF PickTypeOK
<1> QED
  BY <1>1, PickInvHolds, PTL

(* Where the balances are at a stop that is switched on, no pick carries a stake*)
(* (EvaluateCircuitBreakers and the guard that applies it).                *)
THEOREM NoStakeAtAStop == PickSpec => []HaltedAtStop
<1>1. PickInv => HaltedAtStop
  <2> SUFFICES ASSUME PickInv PROVE HaltedAtStop
    OBVIOUS
  <2> DEFINE m == cfg.metrics
             DownTo(start, percent) == percent > 0 /\ start > 0 /\ 100 * m.current <= (100 - percent) * start
  <2>1. m.current \in Nat /\ m.dayStart \in Int /\ m.weekStart \in Int /\ m.peak \in Int
    BY PickInvTypes DEF AllConfigs, AllMetrics
  <2>2. DailyLossStop \in 0..100 /\ WeeklyLossStop \in 0..100 /\ DrawdownBreaker \in 0..100
    BY DecisionAssumption DEF DecisionAssumption
  <2> HIDE DEF m
  <2>3. ASSUME NEW start \in Int, NEW percent \in 0..100, DownTo(start, percent)
        PROVE  LossReaches(start, m.current, percent)
    <3>1. (100 - percent) * start = 100 * start - percent * start /\ percent * start \in Int
      BY <2>3
    <3>2. percent * start > 0
      BY <2>3
    <3>3. m.current < start
      BY <2>1, <2>3, <3>1, <3>2
    <3>4. 100 * (start - m.current) >= percent * start
      BY <2>1, <2>3, <3>1
    <3> QED
      BY <2>3, <3>3, <3>4 DEF LossReaches
  <2> HIDE DEF DownTo
  <2>4. DownTo(m.dayStart, DailyLossStop) \/ DownTo(m.weekStart, WeeklyLossStop) \/ DownTo(m.peak, DrawdownBreaker)
          => BreakerTrips(m)
    BY <2>1, <2>2, <2>3 DEF BreakerTrips
  <2>5. ASSUME BreakerTrips(m), NEW p \in ToSet(Result) PROVE p.stake = 0
    <3>1. IsPickOf(p, WinPercent(p), CandidateOf(p), cfg) /\ p.stake <= 0
      BY <2>5, RecommendationIs DEF m
    <3>2. p.stake \in Nat
      BY <3>1 DEF IsPickOf, AllPicks
    <3> QED
      BY <3>1, <3>2
  <2> QED
    BY <2>4, <2>5 DEF HaltedAtStop, m, DownTo
<1> QED
  BY <1>1, PickInvHolds, PTL

(* No other book pays more for the side of a pick: ShopBestLine. *)
THEOREM BestPriceIsTaken == PickSpec => []BestPriceTaken
<1>1. PickInv => BestPriceTaken
  <2> SUFFICES ASSUME PickInv, NEW p \in ToSet(Result), NEW i \in DOMAIN CandidateOf(p).quotes
               PROVE  LET quote == CandidateOf(p).quotes[i]
                          other == NetOdds(IF p.side \in {"home", "over"} THEN quote.home ELSE quote.away)
                      IN  NetOdds(p.odds)[1] * other[2] >= other[1] * NetOdds(p.odds)[2]
    BY DEF BestPriceTaken
  <2> DEFINE quote == CandidateOf(p).quotes[i]
             price == IF p.side \in {"home", "over"} THEN quote.home ELSE quote.away
  <2>1. IsPickOf(p, WinPercent(p), CandidateOf(p), cfg) /\ CandidateOf(p) \in AllCandidates
    BY RecommendationIs
  <2>2. quote \in AllQuotes
    <3>1. CandidateOf(p).quotes \in Seq(AllQuotes)
      BY <2>1 DEF AllCandidates
    <3> QED
      BY <3>1
  <2>3. price \in Prices /\ p.odds \in Prices
    BY <2>1, <2>2 DEF IsPickOf, AllPicks, AllQuotes
  <2>4. price <= p.odds
    BY <2>1 DEF IsPickOf
  <2> HIDE DEF price
  <2>5. NetOdds(p.odds)[1] * NetOdds(price)[2] >= NetOdds(price)[1] * NetOdds(p.odds)[2]
    BY <2>3, <2>4, HigherPricePaysMore
  <2> QED
    BY <2>5 DEF price
<1> QED
  BY <1>1, PickInvHolds, PTL

(* No stake is above the balance or more than a cent above the full Kelly  *)
(* stake at its price: EvaluateRecommendationStake.                        *)
THEOREM StakesStayWithinKelly == PickSpec => []NeverOverbets
<1>1. PickInv => NeverOverbets
  <2> SUFFICES ASSUME PickInv, NEW p \in ToSet(Result), p.stake > 0
               PROVE  LET n == NetOdds(p.odds)[1]
                          d == NetOdds(p.odds)[2]
                          B == SizingBankroll(cfg)
                          s == p.stake - 1
                      IN  /\ p.stake <= cfg.available
                          /\ WinPercent(p) * n * (B - s) >= (100 - WinPercent(p)) * (d * B + s * n)
    BY DEF NeverOverbets
  <2> DEFINE W == WinPercent(p)
             n == NetOdds(p.odds)[1]
             d == NetOdds(p.odds)[2]
             B == SizingBankroll(cfg)
             s == p.stake - 1
             pre == PreBankrollStake(W, p.odds, B)
             num == RawKelly(W, p.odds).num
             den == RawKelly(W, p.odds).den
  <2>1. IsPickOf(p, W, CandidateOf(p), cfg) /\ B \in Nat
    BY RecommendationIs, PickInvTypes DEF AllConfigs, SizingBankroll
  <2>2. p.odds \in Prices /\ p.stake \in Nat /\ W \in 0..100 /\ p.stake <= cfg.available /\ p.stake <= pre
    BY <2>1 DEF IsPickOf, AllPicks
  <2> HIDE DEF W, B, n, d, pre, num, den
  <2>3. n \in Nat /\ d \in Nat /\ num = W * n - (100 - W) * d /\ den = 100 * n
    <3> DEFINE odds == p.odds
    <3>1. odds \in Prices /\ W \in 0..100
      BY <2>2
    <3>2. n = NetOdds(odds)[1] /\ d = NetOdds(odds)[2] /\ num = RawKelly(W, odds).num /\ den = RawKelly(W, odds).den
      BY DEF n, d, num, den
    <3> HIDE DEF odds
    <3>3. /\ NetOdds(odds)[1] \in Nat /\ NetOdds(odds)[2] \in Nat
          /\ RawKelly(W, odds).num = W * NetOdds(odds)[1] - (100 - W) * NetOdds(odds)[2]
          /\ RawKelly(W, odds).den = 100 * NetOdds(odds)[1]
      BY <3>1, KellyFractionIs
    <3> QED
      BY <3>2, <3>3
  <2>4. pre \in Nat /\ (pre > 0 => den * (pre - 1) <= num * B)
    BY <2>1, <2>2, StakeWithinKelly DEF pre, num, den
  <2>5. s \in Nat /\ s <= pre - 1 /\ pre > 0
    BY <2>2, <2>4
  <2>6. den * s <= num * B
    <3>1. den \in Nat
      BY <2>3
    <3>2. den * s <= den * (pre - 1) /\ den * s \in Int /\ den * (pre - 1) \in Int
      BY <2>4, <2>5, <3>1
    <3>3. num \in Int
      <4>1. W * n \in Int /\ (100 - W) * d \in Int
        BY <2>2, <2>3
      <4> QED
        BY <2>3, <4>1
    <3>4. num * B \in Int
      BY <2>1, <3>3
    <3> QED
      BY <2>4, <2>5, <3>2, <3>4
  <2> HIDE DEF s
  <2>7. W \in Int /\ n \in Int /\ d \in Int /\ B \in Int /\ s \in Int
    BY <2>1, <2>2, <2>3, <2>5
  <2>8. (100 * n) * s <= (W * n - (100 - W) * d) * B
    BY <2>3, <2>6
  <2>9. W * n * (B - s) >= (100 - W) * (d * B + s * n)
    <3>1. W * n * (B - s) - (100 - W) * (d * B + s * n) = (W * n - (100 - W) * d) * B - (100 * n) * s
      BY <2>7
    <3> DEFINE left == W * n * (B - s)
               right == (100 - W) * (d * B + s * n)
               top == (W * n - (100 - W) * d) * B
               less == (100 * n) * s
    <3>2. left \in Int /\ right \in Int /\ top \in Int /\ less \in Int
      <4>1. W * n \in Int /\ B - s \in Int /\ 100 - W \in Int /\ d * B \in Int /\ s * n \in Int /\ (100 - W) * d \in Int /\ 100 * n \in Int
        BY <2>7
      <4>2. d * B + s * n \in Int /\ W * n - (100 - W) * d \in Int
        BY <4>1
      <4> QED
        BY <2>7, <4>1, <4>2
    <3>3. left - right = top - less /\ less <= top
      BY <2>8, <3>1
    <3> HIDE DEF left, right, top, less
    <3>4. left >= right
      BY <3>2, <3>3
    <3> QED
      BY <3>4 DEF left, right
  <2> QED
    BY <2>2, <2>9 DEF W, n, d, B, s
<1> QED
  BY <1>1, PickInvHolds, PTL

-----------------------------------------------------------------------------
(* Limits of games and days. *)

(* What one more pick makes of a game's or a day's picks. *)
LEMMA CountsOf ==
  ASSUME NEW kept, kept \in Seq(AllPicks), NEW p, p \in AllPicks, NEW g, NEW d
  PROVE  LET t == Append(kept, p)
             new == Len(kept) + 1
         IN  /\ OfGame(t, g) = OfGame(kept, g) \cup (IF p.stake > 0 /\ p.game = g THEN {new} ELSE {})
             /\ OfDay(t, d) = OfDay(kept, d) \cup (IF p.stake > 0 /\ p.day = d THEN {new} ELSE {})
             /\ OfGame(kept, g) \in SUBSET (1..Len(kept)) /\ OfDay(kept, d) \in SUBSET (1..Len(kept))
<1> DEFINE t == Append(kept, p)
           n == Len(kept)
<1>1. n \in Nat /\ DOMAIN kept = 1..n /\ DOMAIN t = 1..(n + 1) /\ t[n + 1] = p /\ \A i \in 1..n : t[i] = kept[i]
  OBVIOUS
<1> HIDE DEF t, n
<1>2. \A i : i \in 1..(n + 1) <=> i \in 1..n \/ i = n + 1
  BY <1>1
<1>3. OfGame(t, g) = OfGame(kept, g) \cup (IF p.stake > 0 /\ p.game = g THEN {n + 1} ELSE {})
  BY <1>1, <1>2 DEF OfGame
<1>4. OfDay(t, d) = OfDay(kept, d) \cup (IF p.stake > 0 /\ p.day = d THEN {n + 1} ELSE {})
  BY <1>1, <1>2 DEF OfDay
<1>5. OfGame(kept, g) \in SUBSET (1..n) /\ OfDay(kept, d) \in SUBSET (1..n)
  BY <1>1 DEF OfGame, OfDay
<1> QED
  BY <1>3, <1>4, <1>5 DEF t, n

GameFits(picks, g) ==
  /\ Cardinality(OfGame(picks, g)) <= MaxPicksPerGame
  /\ 1000 * TotalStake(picks, OfGame(picks, g)) <= MaxStakePerGame * SizingBankroll(cfg)
DayFits(picks, d) == MaxPicksPerDay > 0 => Cardinality(OfDay(picks, d)) <= MaxPicksPerDay

(* Counts and stakes of a game and a day after one pick more. *)
LEMMA AddedUp ==
  ASSUME NEW kept, kept \in Seq(AllPicks), NEW p, p \in AllPicks, NEW g, NEW d
  PROVE  LET t == Append(kept, p) IN
         /\ IF p.stake > 0 /\ p.game = g
              THEN /\ Cardinality(OfGame(t, g)) = Cardinality(OfGame(kept, g)) + 1
                   /\ TotalStake(t, OfGame(t, g)) = TotalStake(kept, OfGame(kept, g)) + p.stake
              ELSE /\ Cardinality(OfGame(t, g)) = Cardinality(OfGame(kept, g))
                   /\ TotalStake(t, OfGame(t, g)) = TotalStake(kept, OfGame(kept, g))
         /\ IF p.stake > 0 /\ p.day = d
              THEN Cardinality(OfDay(t, d)) = Cardinality(OfDay(kept, d)) + 1
              ELSE Cardinality(OfDay(t, d)) = Cardinality(OfDay(kept, d))
<1> DEFINE t == Append(kept, p)
           n == Len(kept)
           G == OfGame(kept, g)
           D == OfDay(kept, d)
<1>1. n \in Nat /\ DOMAIN kept = 1..n /\ DOMAIN t = 1..(n + 1) /\ t[n + 1] = p /\ \A i \in 1..n : t[i] = kept[i]
  OBVIOUS
<1>2. \A i \in 1..n : kept[i] \in AllPicks
  OBVIOUS
<1>3. /\ OfGame(t, g) = G \cup (IF p.stake > 0 /\ p.game = g THEN {n + 1} ELSE {})
      /\ OfDay(t, d) = D \cup (IF p.stake > 0 /\ p.day = d THEN {n + 1} ELSE {})
      /\ G \in SUBSET (1..n) /\ D \in SUBSET (1..n)
  BY CountsOf
<1> HIDE DEF t, n, G, D
<1>4. IsFiniteSet(G) /\ IsFiniteSet(D)
  <2>1. IsFiniteSet(1..n)
    BY <1>1, FS_Interval
  <2> QED
    BY <1>3, <2>1, FS_Subset
<1>5. n + 1 \notin G /\ n + 1 \notin D
  BY <1>1, <1>3
<1>6. Cardinality(G \cup {n + 1}) = Cardinality(G) + 1 /\ Cardinality(D \cup {n + 1}) = Cardinality(D) + 1
  BY <1>4, <1>5, FS_AddElement
<1>7. p.stake \in Int /\ \A i \in 1..n : kept[i].stake \in Int
  BY <1>2 DEF AllPicks
<1>8. TotalStake(t, G) = TotalStake(kept, G)
  <2>1. [i \in G |-> t[i].stake] = [i \in G |-> kept[i].stake]
    BY <1>1, <1>3
  <2> QED
    BY <2>1 DEF TotalStake
<1>9. TotalStake(t, G \cup {n + 1}) = TotalStake(kept, G) + p.stake
  <2> DEFINE R == G \cup {n + 1}
             f == [i \in R |-> t[i].stake]
             e == [i \in G |-> kept[i].stake]
  <2>1. e \in [G -> Int] /\ DOMAIN e = G
    BY <1>3, <1>7
  <2>2. \A i \in R : t[i].stake \in Int
    BY <1>1, <1>3, <1>7
  <2>3. f \in [R -> Int] /\ DOMAIN f = R
    BY <2>2
  <2>4. (\A y \in G : e[y] = f[y]) /\ f[n + 1] = p.stake
    BY <1>1, <1>3
  <2>5. TotalStake(t, R) = SumFunctionOnSet(f, R) /\ TotalStake(kept, G) = SumFunctionOnSet(e, G)
    BY <2>1, <2>3 DEF TotalStake, SumFunction
  <2> HIDE DEF f, e
  <2>a. IsFiniteSet(R) /\ n + 1 \in R /\ G = R \ {n + 1}
    BY <1>4, <1>5, FS_AddElement
  <2>6. SumFunctionOnSet(f, R) = f[n + 1] + SumFunctionOnSet(e, R \ {n + 1})
    <3> HIDE DEF R
    <3> QED
      BY <2>1, <2>3, <2>4, <2>a, SumOneMore
  <2>7. SumFunctionOnSet(e, G) \in Int
    BY <1>4, <2>1, SumIsInt
  <2> HIDE DEF R
  <2>8. TotalStake(t, R) = TotalStake(kept, G) + p.stake
    BY <1>7, <2>4, <2>5, <2>6, <2>7, <2>a
  <2> QED
    BY <2>8 DEF R
<1>10. OfGame(t, g) = IF p.stake > 0 /\ p.game = g THEN G \cup {n + 1} ELSE G
  BY <1>3
<1>11. OfDay(t, d) = IF p.stake > 0 /\ p.day = d THEN D \cup {n + 1} ELSE D
  BY <1>3
<1>12. /\ IF p.stake > 0 /\ p.game = g
              THEN /\ Cardinality(OfGame(t, g)) = Cardinality(G) + 1
                   /\ TotalStake(t, OfGame(t, g)) = TotalStake(kept, G) + p.stake
              ELSE /\ Cardinality(OfGame(t, g)) = Cardinality(G)
                   /\ TotalStake(t, OfGame(t, g)) = TotalStake(kept, G)
  BY <1>6, <1>8, <1>9, <1>10
<1>13. IF p.stake > 0 /\ p.day = d
         THEN Cardinality(OfDay(t, d)) = Cardinality(D) + 1
         ELSE Cardinality(OfDay(t, d)) = Cardinality(D)
  BY <1>6, <1>11
<1> QED
  BY <1>12, <1>13 DEF t, G, D

FitsAt(picks, i) == picks[i].stake > 0 => GameFits(picks, picks[i].game) /\ DayFits(picks, picks[i].day)

(* Picks fit when each of them does. *)
LEMMA FitsIs ==
  ASSUME NEW picks
  PROVE  Fits(picks) <=> \A i \in DOMAIN picks : FitsAt(picks, i)
  BY DEF Fits, FitsAt, GameFits, DayFits

(* The numbers the limits are about. *)
LEMMA LimitsAreNumbers ==
  ASSUME NEW kept, kept \in Seq(AllPicks), NEW g, NEW d
  PROVE  /\ Cardinality(OfGame(kept, g)) \in Nat /\ Cardinality(OfDay(kept, d)) \in Nat
         /\ TotalStake(kept, OfGame(kept, g)) \in Int
<1> DEFINE n == Len(kept)
           G == OfGame(kept, g)
           D == OfDay(kept, d)
<1>1. n \in Nat /\ DOMAIN kept = 1..n /\ \A i \in 1..n : kept[i] \in AllPicks
  OBVIOUS
<1> HIDE DEF n
<1>2. G \in SUBSET (1..n) /\ D \in SUBSET (1..n)
  BY <1>1 DEF OfGame, OfDay
<1> HIDE DEF G, D
<1>3. IsFiniteSet(G) /\ IsFiniteSet(D)
  <2>1. IsFiniteSet(1..n)
    BY <1>1, FS_Interval
  <2> QED
    BY <1>2, <2>1, FS_Subset
<1>4. Cardinality(G) \in Nat /\ Cardinality(D) \in Nat
  BY <1>3, FS_CardinalityType
<1>5. TotalStake(kept, G) \in Int
  <2> DEFINE e == [i \in G |-> kept[i].stake]
  <2>1. \A i \in G : kept[i].stake \in Int
    BY <1>1, <1>2 DEF AllPicks
  <2>2. e \in [G -> Int] /\ DOMAIN e = G
    BY <2>1
  <2>3. TotalStake(kept, G) = SumFunctionOnSet(e, G)
    BY <2>2 DEF TotalStake, SumFunction
  <2> HIDE DEF e
  <2> QED
    BY <1>3, <2>2, <2>3, SumIsInt
<1> QED
  BY <1>4, <1>5 DEF G, D

(* One more pick fits if and only if there is room for it. *)
LEMMA RoomIsFit ==
  ASSUME NEW kept, kept \in Seq(AllPicks), Fits(kept), NEW p, p \in AllPicks
  PROVE  Fits(Append(kept, p)) <=> IsKept(kept, p, SizingBankroll(cfg))
<1> DEFINE t == Append(kept, p)
           n == Len(kept)
           B == SizingBankroll(cfg)
<1>1. n \in Nat /\ DOMAIN kept = 1..n /\ DOMAIN t = 1..(n + 1) /\ t[n + 1] = p
      /\ (\A i \in 1..n : t[i] = kept[i]) /\ t \in Seq(AllPicks)
  OBVIOUS
<1>2. \A i \in 1..n : kept[i] \in AllPicks
  OBVIOUS
<1>3. p.stake \in Nat /\ \A i \in 1..n : kept[i].stake \in Nat
  BY <1>2 DEF AllPicks
<1>4. MaxPicksPerGame \in Nat /\ MaxPicksPerDay \in Nat
  BY DecisionAssumption DEF DecisionAssumption
<1> HIDE DEF n, B
<1>5. \A i \in 1..n : FitsAt(kept, i)
  BY <1>1, FitsIs
<1>6. Fits(t) <=> \A i \in 1..(n + 1) : FitsAt(t, i)
  BY <1>1, FitsIs
<1>7. \A g, d : /\ Cardinality(OfGame(kept, g)) \in Nat /\ Cardinality(OfDay(kept, d)) \in Nat
                /\ TotalStake(kept, OfGame(kept, g)) \in Int
  BY LimitsAreNumbers
<1>8. ASSUME NEW g, ~(p.stake > 0 /\ p.game = g) PROVE GameFits(t, g) <=> GameFits(kept, g)
  <2>1. Cardinality(OfGame(t, g)) = Cardinality(OfGame(kept, g))
        /\ TotalStake(t, OfGame(t, g)) = TotalStake(kept, OfGame(kept, g))
    BY <1>8, AddedUp
  <2> HIDE DEF t
  <2> QED
    BY <2>1 DEF GameFits
<1>9. ASSUME NEW d, ~(p.stake > 0 /\ p.day = d) PROVE DayFits(t, d) <=> DayFits(kept, d)
  <2>1. Cardinality(OfDay(t, d)) = Cardinality(OfDay(kept, d))
    BY <1>9, AddedUp
  <2> HIDE DEF t
  <2> QED
    BY <2>1 DEF DayFits
<1>10. p.stake > 0 => (HasRoom(kept, p, B) <=> GameFits(t, p.game) /\ DayFits(t, p.day))
  <2> SUFFICES ASSUME p.stake > 0 PROVE HasRoom(kept, p, B) <=> GameFits(t, p.game) /\ DayFits(t, p.day)
    OBVIOUS
  <2>1. /\ Cardinality(OfGame(t, p.game)) = Cardinality(OfGame(kept, p.game)) + 1
        /\ TotalStake(t, OfGame(t, p.game)) = TotalStake(kept, OfGame(kept, p.game)) + p.stake
        /\ Cardinality(OfDay(t, p.day)) = Cardinality(OfDay(kept, p.day)) + 1
    BY AddedUp
  <2> HIDE DEF t
  <2> QED
    BY <2>1 DEF HasRoom, GameFits, DayFits, B
<1>11. n + 1 \in 1..(n + 1) /\ \A i \in 1..(n + 1) : i \in 1..n \/ i = n + 1
  BY <1>1
<1> HIDE DEF t
<1>12. CASE ~(p.stake > 0)
  <2>1. \A i \in 1..(n + 1) : FitsAt(t, i)
    <3>1. FitsAt(t, n + 1)
      BY <1>1, <1>12 DEF FitsAt
    <3>2. ASSUME NEW i \in 1..n PROVE FitsAt(t, i)
      BY <1>1, <1>5, <1>8, <1>9, <1>12 DEF FitsAt
    <3> QED
      BY <1>11, <3>1, <3>2
  <2>2. p.stake <= 0
    BY <1>3, <1>12
  <2> QED
    BY <1>6, <2>1, <2>2 DEF IsKept, B, t
<1>13. CASE p.stake > 0
  <2>1. FitsAt(t, n + 1) <=> HasRoom(kept, p, B)
    BY <1>1, <1>10, <1>13 DEF FitsAt
  <2>2. ASSUME HasRoom(kept, p, B), NEW i \in 1..n PROVE FitsAt(t, i)
    <3>1. SUFFICES ASSUME kept[i].stake > 0
                   PROVE  GameFits(t, kept[i].game) /\ DayFits(t, kept[i].day)
      BY <1>1 DEF FitsAt
    <3>2. GameFits(kept, kept[i].game) /\ DayFits(kept, kept[i].day)
      BY <1>5, <3>1 DEF FitsAt
    <3>3. GameFits(t, p.game) /\ DayFits(t, p.day)
      BY <1>10, <1>13, <2>2
    <3> QED
      BY <1>8, <1>9, <3>2, <3>3
  <2>3. Fits(t) <=> HasRoom(kept, p, B)
    BY <1>6, <1>11, <2>1, <2>2
  <2>4. ~(p.stake <= 0)
    BY <1>3, <1>13
  <2> QED
    BY <2>3, <2>4 DEF IsKept, B, t
<1> QED
  BY <1>12, <1>13

(* So what the guard has kept fits at every step. *)
LEMMA GuardFits ==
  ASSUME NEW S, S \in SUBSET AllPicks, NEW s, s \in Seq(S), NEW run, run \in [0..Len(s) -> Seq(S)],
         Guards(run, s, SizingBankroll(cfg))
  PROVE  \A i \in 0..Len(s) : Fits(run[i]) /\ run[i] \in Seq(AllPicks)
<1> DEFINE n == Len(s)
           Good == {i \in 0..n : Fits(run[i])}
<1>1. n \in Nat /\ \A i \in 1..n : s[i] \in S /\ s[i] \in AllPicks
  OBVIOUS
<1>2. \A i \in 0..n : run[i] \in Seq(AllPicks)
  <2> SUFFICES ASSUME NEW i \in 0..n PROVE run[i] \in Seq(AllPicks)
    OBVIOUS
  <2>1. run[i] \in Seq(S)
    OBVIOUS
  <2> QED
    BY <2>1, SeqMonotonic
<1>3. run[0] = <<>>
  BY DEF Guards
<1>4. \A i \in 1..n : run[i] = IF IsKept(run[i - 1], s[i], SizingBankroll(cfg)) THEN Append(run[i - 1], s[i]) ELSE run[i - 1]
  BY DEF Guards, IsKept
<1> HIDE DEF n
<1>5. 0 \in Good
  <2>1. Fits(<<>>)
    BY DEF Fits
  <2> QED
    BY <1>1, <1>3, <2>1
<1>6. ASSUME NEW i \in 1..n, i - 1 \in Good PROVE i \in Good
  <2>1. i - 1 \in 0..n /\ i \in 0..n
    BY <1>1
  <2>2. Fits(run[i - 1]) /\ run[i - 1] \in Seq(AllPicks)
    BY <1>2, <1>6, <2>1
  <2>3. CASE IsKept(run[i - 1], s[i], SizingBankroll(cfg))
    BY <1>1, <1>4, <2>1, <2>2, <2>3, RoomIsFit
  <2>4. CASE ~IsKept(run[i - 1], s[i], SizingBankroll(cfg))
    BY <1>4, <2>1, <2>2, <2>4
  <2> QED
    BY <2>3, <2>4
<1> HIDE DEF Good
<1>7. \A i \in 0..n : i \in Good
  BY <1>1, <1>5, <1>6, CountUp
<1> QED
  BY <1>2, <1>7 DEF Good, n

(* What the guard kept in the end, it kept when it came to it: before the  *)
(* i-th pick stand the retained ones that are ranked before it.            *)
LEMMA RetainedIs ==
  ASSUME NEW S, NEW s, s \in Seq(S), IsInjective(s), NEW bankroll, NEW run, run \in [0..Len(s) -> Seq(S)],
         Guards(run, s, bankroll), NEW i \in 1..Len(s)
  PROVE  /\ Where(s, {j \in 1..(i - 1) : s[j] \in ToSet(run[Len(s)])}) = run[i - 1]
         /\ s[i] \in ToSet(run[Len(s)]) <=> IsKept(run[i - 1], s[i], bankroll)
<1> DEFINE n == Len(s)
           kept(k) == IsKept(run[k - 1], s[k], bankroll)
           places == {j \in 1..(i - 1) : s[j] \in ToSet(run[n])}
<1>1. n \in Nat /\ DOMAIN s = 1..n /\ i \in 1..n
  OBVIOUS
<1>2. run[0] = <<>> /\ \A k \in 1..n : run[k] = IF kept(k) THEN Append(run[k - 1], s[k]) ELSE run[k - 1]
  BY DEF Guards, IsKept
<1>3. ToSet(run[n]) = {s[j] : j \in {k \in 1..n : kept(k)}}
  <2>1. \A k \in 0..n : ToSet(run[k]) = KeptAt(run, s, bankroll, k)
    BY GuardKeeps
  <2>2. n \in 0..n
    BY <1>1
  <2> QED
    BY <2>1, <2>2 DEF KeptAt
<1> HIDE DEF places
<1>w. PICK w \in [0..n -> Seq(S)] : WhereSteps(w, s, places)
  BY WhereRuns
<1>4. /\ w[0] = <<>> /\ w[n] = Where(s, places)
      /\ \A k \in 1..n : w[k] = IF k \in places THEN Append(w[k - 1], s[k]) ELSE w[k - 1]
  BY <1>w DEF WhereSteps
<1> USE DEF places
<1> HIDE DEF n, kept
<1>5. \A j \in 1..n : s[j] \in ToSet(run[n]) <=> kept(j)
  <2> SUFFICES ASSUME NEW j \in 1..n PROVE s[j] \in ToSet(run[n]) <=> kept(j)
    OBVIOUS
  <2>1. kept(j) => s[j] \in ToSet(run[n])
    BY <1>3
  <2>2. ASSUME s[j] \in ToSet(run[n]) PROVE kept(j)
    <3>1. PICK k \in 1..n : kept(k) /\ s[j] = s[k]
      BY <1>3, <2>2
    <3>2. j = k
      BY <1>1, <3>1 DEF IsInjective
    <3> QED
      BY <3>1, <3>2
  <2> QED
    BY <2>1, <2>2
<1> DEFINE Good == {k \in 0..n : (k <= i - 1 => w[k] = run[k]) /\ (k >= i - 1 => w[k] = run[i - 1])}
<1>6. 0 \in Good
  <2>1. (0 >= i - 1 => i - 1 = 0) /\ 0 \in 0..n
    BY <1>1
  <2>2. w[0] = run[0]
    BY <1>2, <1>4
  <2>3. 0 >= i - 1 => w[0] = run[i - 1]
    BY <2>1, <2>2
  <2> QED
    BY <2>1, <2>2, <2>3
<1>7. ASSUME NEW k \in 1..n, k - 1 \in Good PROVE k \in Good
  <2>1. k \in 0..n /\ k - 1 \in 0..n
    BY <1>1
  <2>2. CASE k <= i - 1
    <3>1. k - 1 <= i - 1 /\ k \in 1..(i - 1)
      BY <1>1, <2>2
    <3>2. w[k - 1] = run[k - 1]
      BY <1>7, <3>1
    <3>3. k \in places <=> kept(k)
      BY <1>5, <3>1
    <3>4. w[k] = run[k]
      BY <1>2, <1>4, <3>2, <3>3
    <3>5. k >= i - 1 => k = i - 1
      BY <1>1, <2>2
    <3> QED
      BY <2>1, <3>4, <3>5
  <2>3. CASE ~(k <= i - 1)
    <3>1. k - 1 >= i - 1 /\ k \notin 1..(i - 1)
      BY <1>1, <2>3
    <3>2. w[k - 1] = run[i - 1]
      BY <1>7, <3>1
    <3>3. w[k] = w[k - 1]
      BY <1>4, <3>1
    <3> QED
      BY <2>1, <2>3, <3>2, <3>3
  <2> QED
    BY <2>2, <2>3
<1> HIDE DEF Good
<1>8. \A k \in 0..n : k \in Good
  BY <1>1, <1>6, <1>7, CountUp
<1>9. n \in 0..n /\ n >= i - 1
  BY <1>1
<1>10. w[n] = run[i - 1]
  BY <1>8, <1>9 DEF Good
<1> QED
  BY <1>1, <1>4, <1>5, <1>10 DEF n, kept

(* What the two guards retain is what a greedy choice in the order of the rank*)
(* retains within the limits: ApplyCorrelationGuard.                       *)
THEOREM RetainedAreGreedy == PickSpec => []GreedyWithinLimits
<1>1. PickInv => GreedyWithinLimits
  <2> SUFFICES ASSUME PickInv PROVE GreedyWithinLimits
    OBVIOUS
  <2> DEFINE S == ToSet(Sized(candidates, cfg))
             B == SizingBankroll(cfg)
             r == Ranked
             kept == ApplyCorrelationGuard(r, B)
             places == {i \in DOMAIN kept : kept[i].stake <= 0}
             n == Len(r)
  <2>0. candidates \in Seq(AllCandidates) /\ OneEach(candidates) /\ cfg \in AllConfigs
    BY PickInvTypes
  <2>1. r \in Seq(S) /\ S \in SUBSET AllPicks /\ SortedBy(r, RankOrder(S, B)) /\ StrictOrderOn(RankOrder(S, B), S)
    BY <2>0, RankedIs DEF Ranked
  <2>2. IsInjective(r)
    BY <2>1, SortedIsInjective
  <2>3. Result = IF BreakerTrips(cfg.metrics) THEN Where(kept, places) ELSE kept
    BY DEF Result, BuildRecommendations, ApplyCircuitBreakerGuard, Ranked
  <2> HIDE DEF S, B, r
  <2>4. PICK run \in [0..n -> Seq(S)] : Guards(run, r, B)
    BY <2>1, GuardRuns
  <2>5. n \in Nat /\ DOMAIN r = 1..n /\ (\A i \in 1..n : r[i] \in AllPicks) /\ run[n] = kept
    BY <2>1, <2>4 DEF Guards
  <2>6. \A i \in 0..n : Fits(run[i]) /\ run[i] \in Seq(AllPicks)
    BY <2>1, <2>4, GuardFits DEF B
  <2>7. Fits(Result)
    <3>1. CASE BreakerTrips(cfg.metrics)
      <4>1. ASSUME NEW i \in DOMAIN Result PROVE ~(Result[i].stake > 0)
        <5>1. Result[i] \in ToSet(Result)
          BY DEF ToSet
        <5>2. IsPickOf(Result[i], WinPercent(Result[i]), CandidateOf(Result[i]), cfg) /\ Result[i].stake <= 0
          BY <3>1, <5>1, RecommendationIs
        <5>3. Result[i].stake \in Nat
          BY <5>2 DEF IsPickOf, AllPicks
        <5> QED
          BY <5>2, <5>3
      <4> QED
        BY <4>1 DEF Fits
    <3>2. CASE ~BreakerTrips(cfg.metrics)
      <4>1. n \in 0..n
        BY <2>5
      <4> QED
        BY <2>3, <2>5, <2>6, <3>2, <4>1
    <3> QED
      BY <3>1, <3>2
  <2>8. ASSUME ~BreakerTrips(cfg.metrics), NEW i \in DOMAIN Ranked, Ranked[i] \notin ToSet(Result)
        PROVE  ~Fits(Append(RetainedBefore(i), Ranked[i]))
    <3>1. i \in 1..n /\ i - 1 \in 0..n /\ r[i] = Ranked[i] /\ Result = run[n]
      BY <2>3, <2>5, <2>8 DEF r
    <3>2. RetainedBefore(i) = Where(r, {j \in 1..(i - 1) : r[j] \in ToSet(run[n])})
      BY <3>1 DEF RetainedBefore, r
    <3>3. /\ RetainedBefore(i) = run[i - 1]
          /\ r[i] \in ToSet(run[n]) <=> IsKept(run[i - 1], r[i], B)
      BY <2>1, <2>2, <2>4, <3>1, <3>2, RetainedIs
    <3>4. Fits(run[i - 1]) /\ run[i - 1] \in Seq(AllPicks) /\ r[i] \in AllPicks
      BY <2>5, <2>6, <3>1
    <3>5. Fits(Append(run[i - 1], r[i])) <=> IsKept(run[i - 1], r[i], B)
      BY <3>4, RoomIsFit DEF B
    <3> QED
      BY <2>8, <3>1, <3>3, <3>5
  <2> QED
    BY <2>7, <2>8 DEF GreedyWithinLimits
<1> QED
  BY <1>1, PickInvHolds, PTL

-----------------------------------------------------------------------------
(* The recommendations do not depend on the order of the candidates, which *)
(* the server gathers from a map.                                          *)
THEOREM ArrivalOrderIsIrrelevant == PickSpec => []PicksOrderFree
<1>1. PickInv => PicksOrderFree
  <2> SUFFICES ASSUME PickInv PROVE PicksOrderFree
    OBVIOUS
  <2> DEFINE n == Len(candidates)
             B == SizingBankroll(cfg)
  <2>0. candidates \in Seq(AllCandidates) /\ OneEach(candidates) /\ cfg \in AllConfigs
    BY PickInvTypes
  <2>1. n \in Nat /\ DOMAIN candidates = 1..n /\ \A i \in 1..n : candidates[i] \in AllCandidates
    BY <2>0
  <2> HIDE DEF n
  <2>2. ASSUME NEW perm \in [1..n -> 1..n], \A i, j \in 1..n : i # j => perm[i] # perm[j]
        PROVE  BuildRecommendations([i \in 1..n |-> candidates[perm[i]]], cfg) = Result
    <3> DEFINE cs == [i \in 1..n |-> candidates[perm[i]]]
               S == ToSet(Sized(candidates, cfg))
    <3>1. cs \in Seq(AllCandidates) /\ DOMAIN cs = 1..n /\ \A i \in 1..n : cs[i] = candidates[perm[i]]
      BY <2>1
    <3>2. OneEach(cs)
      BY <2>0, <2>1, <2>2, <3>1 DEF OneEach
    <3>3. ToSet(cs) = ToSet(candidates)
      <4>1. perm \in Injection(1..n, 1..n)
        BY <2>2 DEF Injection, IsInjective
      <4>2. IsFiniteSet(1..n)
        BY <2>1, FS_Interval
      <4>3. perm \in Surjection(1..n, 1..n)
        BY <4>1, <4>2, FS_Injection
      <4>4. \A k \in 1..n : \E i \in 1..n : perm[i] = k
        BY <4>3 DEF Surjection
      <4> HIDE DEF cs
      <4>5. ToSet(cs) = {cs[i] : i \in 1..n} /\ ToSet(candidates) = {candidates[i] : i \in 1..n}
        BY <2>1, <3>1 DEF ToSet
      <4>6. ASSUME NEW i \in 1..n PROVE cs[i] \in {candidates[k] : k \in 1..n}
        BY <2>2, <3>1
      <4>7. ASSUME NEW k \in 1..n PROVE candidates[k] \in {cs[i] : i \in 1..n}
        BY <3>1, <4>4
      <4> QED
        BY <4>5, <4>6, <4>7
    <3> HIDE DEF cs
    <3>4. ToSet(Sized(cs, cfg)) = S
      BY <2>0, <3>1, <3>2, <3>3, SizedIs
    <3> DEFINE r == SortByRank(Sized(candidates, cfg), B)
               q == SortByRank(Sized(cs, cfg), B)
    <3>5. /\ r \in Seq(S) /\ ToSet(r) = S /\ SortedBy(r, RankOrder(S, B)) /\ StrictOrderOn(RankOrder(S, B), S)
      BY <2>0, RankedIs
    <3>6. q \in Seq(S) /\ ToSet(q) = S /\ SortedBy(q, RankOrder(S, B))
      BY <2>0, <3>1, <3>2, <3>4, RankedIs
    <3> HIDE DEF r, q, S
    <3>7. q = r
      BY <3>5, <3>6, SortedOnce
    <3> QED
      BY <3>7 DEF BuildRecommendations, Result, q, r, B, cs
  <2> QED
    BY <2>2 DEF PicksOrderFree, n
<1> QED
  BY <1>1, PickInvHolds, PTL

-----------------------------------------------------------------------------
(* Calibration reports. *)

ListsRows(run, s) ==
  /\ run[0] = <<>> /\ run[Len(s)] = Ordered(s)
  /\ \A i \in 1..Len(s) :
       run[i] = InsertBehind(run[i - 1], s[i], {j \in DOMAIN run[i - 1] : ~ReportOrder(s[i], run[i - 1][j])})

(* A report orders its rows by inserting one after the other. *)
LEMMA OrderedRuns ==
  ASSUME NEW A, NEW s, s \in Seq(A)
  PROVE  \E run \in [0..Len(s) -> Seq(A)] : ListsRows(run, s)
<1> DEFINE n == Len(s)
           V == Seq(A)
           op(v, x) == InsertBehind(v, x, {j \in DOMAIN v : ~ReportOrder(x, v[j])})
           IsIter(h) == h = [T \in SUBSET (1..n) |->
                               IF T = {} THEN <<>> ELSE op(h[T \ {Max(T)}], s[Max(T)])]
           iter == CHOOSE h : IsIter(h)
           base == <<>>
           step == [i \in 1..n |-> [v \in V |-> op(v, s[i])]]
<1>0. n \in Nat /\ DOMAIN s = 1..n /\ base \in V
  OBVIOUS
<1>1. Ordered(s) = iter[1..n]
  BY <1>0 DEF Ordered, StableSort, FoldLeft, MapThenFoldSet
<1>2. \A i \in 1..n : s[i] \in A
  OBVIOUS
<1>3. step \in [1..n -> [V -> V]]
  <2>1. ASSUME NEW v \in V, NEW x \in A PROVE op(v, x) \in V
    BY InsertedIsSequence
  <2> HIDE DEF op, n, V
  <2> QED
    BY <1>2, <2>1
<1> HIDE DEF n, op
<1>4. \E h : IsIter(h)
  <2>1. PICK g \in [SUBSET (1..n) -> V] : FoldsLeft(g, base, step, n, V)
    <3> HIDE DEF step, V, base
    <3> QED
      BY <1>0, <1>3, LeftFolds
  <2> HIDE DEF V
  <2>2. \A T \in SUBSET (1..n) : g[T] = IF T = {} THEN <<>> ELSE op(g[T \ {Max(T)}], s[Max(T)])
    BY <2>1 DEF FoldsLeft
  <2>3. g = [T \in SUBSET (1..n) |-> g[T]]
    BY <2>1
  <2>4. IsIter(g)
    BY <2>2, <2>3
  <2> QED
    BY <2>4
<1>5. IsIter(iter)
  <2> HIDE DEF IsIter
  <2> QED
    BY <1>4
<1>6. Iterates(iter, base, step, n, V)
  <2> HIDE DEF iter, V
  <2>1. ASSUME NEW T \in SUBSET (1..n), T # {}, iter[T \ {Max(T)}] \in V
        PROVE  iter[T] = step[Max(T)][iter[T \ {Max(T)}]]
    <3>1. Max(T) \in 1..n
      BY <1>0, <2>1, MaxOfPlaces
    <3> QED
      BY <1>5, <2>1, <3>1
  <2>2. \A T \in SUBSET (1..n) : T = {} => iter[T] = base
    BY <1>5
  <2> HIDE DEF step, base
  <2> QED
    BY <2>1, <2>2 DEF Iterates
<1>7. PICK run \in [0..n -> V] : StepsBy(run, base, step, n, iter[1..n])
  <2> HIDE DEF iter, step, V, base
  <2> QED
    BY <1>0, <1>3, <1>6, LeftRuns
<1>8. ASSUME NEW i \in 1..n PROVE run[i] = op(run[i - 1], s[i])
  <2>1. i - 1 \in 0..n
    BY <1>0
  <2>2. run[i - 1] \in V
    <3> HIDE DEF V
    <3> QED
      BY <1>7, <2>1
  <2> HIDE DEF V
  <2> QED
    BY <1>7, <2>2 DEF StepsBy
<1>9. run[0] = <<>> /\ run[n] = Ordered(s)
  BY <1>1, <1>7 DEF StepsBy
<1> HIDE DEF iter
<1> QED
  BY <1>8, <1>9 DEF n, op, ListsRows

RowOrder(S) == {pair \in S \X S : ReportOrder(pair[1], pair[2])}

(* Each row once: an id names one of them. *)
OnePerId(S) == S \in SUBSET AllRows /\ \A r, s \in S : r.id = s.id => r = s

(* Rank and id order the rows of a report. *)
LEMMA RowOrderIsOrder ==
  ASSUME NEW S, OnePerId(S)
  PROVE  /\ StrictOrderOn(RowOrder(S), S) /\ TotalOn(RowOrder(S), S)
         /\ \A r, s \in S : <<r, s>> \in RowOrder(S) <=> ReportOrder(r, s)
<1>1. \A r, s \in S : <<r, s>> \in RowOrder(S) <=> ReportOrder(r, s)
  BY DEF RowOrder
<1>2. \A r \in S : r.rank \in Int /\ r.id \in Int
  BY DEF OnePerId, AllRows
<1>3. \A r, s \in S : r # s => r.id # s.id
  BY DEF OnePerId
<1>4. StrictOrderOn(RowOrder(S), S)
  <2>1. ASSUME NEW r \in S, NEW s \in S, ReportOrder(r, s) PROVE ~ReportOrder(s, r)
    BY <1>2, <2>1 DEF ReportOrder
  <2>2. ASSUME NEW r \in S, NEW s \in S, NEW t \in S, ReportOrder(r, s), ReportOrder(s, t)
        PROVE  ReportOrder(r, t)
    BY <1>2, <2>2 DEF ReportOrder
  <2> QED
    BY <1>1, <2>1, <2>2 DEF StrictOrderOn
<1>5. TotalOn(RowOrder(S), S)
  <2>1. ASSUME NEW r \in S, NEW s \in S, r # s PROVE ReportOrder(r, s) \/ ReportOrder(s, r)
    BY <1>2, <1>3, <2>1 DEF ReportOrder
  <2> QED
    BY <1>1, <2>1 DEF TotalOn
<1> QED
  BY <1>1, <1>4, <1>5

(* The order of a report: each row once, by rank and then by id. *)
LEMMA OrderedSorts ==
  ASSUME NEW S, OnePerId(S), NEW s, s \in Seq(S), IsInjective(s)
  PROVE  Ordered(s) \in Seq(S) /\ ToSet(Ordered(s)) = ToSet(s) /\ SortedBy(Ordered(s), RowOrder(S))
<1> DEFINE before == RowOrder(S)
           n == Len(s)
<1>1. n \in Nat /\ DOMAIN s = 1..n /\ \A i \in 1..n : s[i] \in S
  OBVIOUS
<1>2. /\ StrictOrderOn(before, S) /\ TotalOn(before, S)
      /\ \A p, q \in S : <<p, q>> \in before <=> ReportOrder(p, q)
  BY RowOrderIsOrder
<1>3. PICK run \in [0..n -> Seq(S)] : ListsRows(run, s)
  BY OrderedRuns
<1> HIDE DEF before
<1>4. ASSUME NEW i \in 1..n
      PROVE  run[i] = InsertBehind(run[i - 1], s[i], {j \in DOMAIN run[i - 1] : <<s[i], run[i - 1][j]>> \notin before})
  <2>1. i - 1 \in 0..n /\ s[i] \in S
    BY <1>1
  <2>2. run[i - 1] \in Seq(S)
    BY <2>1
  <2>3. \A j \in DOMAIN run[i - 1] : run[i - 1][j] \in S
    BY <2>2
  <2>4. {j \in DOMAIN run[i - 1] : <<s[i], run[i - 1][j]>> \notin before}
          = {j \in DOMAIN run[i - 1] : ~ReportOrder(s[i], run[i - 1][j])}
    BY <1>2, <2>1, <2>3
  <2> QED
    BY <1>3, <2>4 DEF ListsRows, n
<1>5. Insertions(run, s, before) /\ run[n] = Ordered(s)
  BY <1>3, <1>4 DEF Insertions, ListsRows, n
<1>6. run[n] \in Seq(S) /\ SortedBy(run[n], before) /\ ToSet(run[n]) = ToSet(s)
  BY <1>2, <1>3, <1>5, InsertionsSort DEF n
<1> QED
  BY <1>5, <1>6 DEF before

(* Two listings of the same rows make the same report. *)
LEMMA ListingIsIrrelevant ==
  ASSUME NEW S, OnePerId(S), NEW s, s \in Seq(S), IsInjective(s), NEW t, t \in Seq(S), IsInjective(t),
         ToSet(s) = ToSet(t)
  PROVE  Ordered(s) = Ordered(t)
<1>1. Ordered(s) \in Seq(S) /\ ToSet(Ordered(s)) = ToSet(s) /\ SortedBy(Ordered(s), RowOrder(S))
  BY OrderedSorts
<1>2. Ordered(t) \in Seq(S) /\ ToSet(Ordered(t)) = ToSet(t) /\ SortedBy(Ordered(t), RowOrder(S))
  BY OrderedSorts
<1>3. StrictOrderOn(RowOrder(S), S)
  BY RowOrderIsOrder
<1> QED
  BY <1>1, <1>2, <1>3, SortedOnce

-----------------------------------------------------------------------------
ReportInv == calibrationRows \in Seq(RowUniverse) /\ IsInjective(calibrationRows)

(* A report has each row once. *)
LEMMA ReportInvHolds == ReportSpec => []ReportInv
<1>1. ReportInit => ReportInv
  BY DEF ReportInit, ReportInv, IsInjective
<1>2. ReportInv /\ [ReportNext]_calibrationRows => ReportInv'
  <2> SUFFICES ASSUME ReportInv, [ReportNext]_calibrationRows PROVE ReportInv'
    OBVIOUS
  <2>1. CASE ReportNext
    <3>1. PICK r \in RowUniverse : AddRow(r)
      BY <2>1 DEF ReportNext
    <3>2. /\ r \notin ToSet(calibrationRows) /\ calibrationRows' = Append(calibrationRows, r)
          /\ calibrationRows \in Seq(RowUniverse) /\ IsInjective(calibrationRows)
      BY <3>1 DEF AddRow, ReportInv
    <3>3. Append(calibrationRows, r) \in Seq(RowUniverse) /\ IsInjective(Append(calibrationRows, r))
      BY <3>2, ElementsAppended
    <3> QED
      BY <3>2, <3>3 DEF ReportInv
  <2>2. CASE UNCHANGED calibrationRows
    BY <2>2 DEF ReportInv
  <2> QED
    BY <2>1, <2>2
<1> QED
  BY <1>1, <1>2, PTL DEF ReportSpec

(* A calibration report does not depend on the order in which its rows are *)
(* listed, though ties in rank decide on their buckets: ComputeCalibrationReport.*)
THEOREM ListingOrderIsIrrelevant == ReportSpec => []ReportOrderFree
<1>1. ReportInv => ReportOrderFree
  <2> SUFFICES ASSUME ReportInv, NEW i \in 1..(Len(calibrationRows) - 1), NEW n \in 1..3
               PROVE  CalibrationReport(Swapped(i), n) = CalibrationReport(calibrationRows, n)
    BY DEF ReportOrderFree
  <2> DEFINE S == RowUniverse
             m == Len(calibrationRows)
             t == Swapped(i)
  <2>1. OnePerId(S) /\ calibrationRows \in Seq(S) /\ IsInjective(calibrationRows)
    BY ReportsAssumption DEF OnePerId, ReportInv
  <2>2. /\ m \in Nat /\ DOMAIN calibrationRows = 1..m /\ i \in 1..m /\ i + 1 \in 1..m /\ i # i + 1
        /\ \A k \in 1..m : calibrationRows[k] \in S
    BY <2>1
  <2>3. /\ DOMAIN t = 1..m
        /\ \A k \in 1..m :
             t[k] = IF k = i + 1 THEN calibrationRows[i] ELSE IF k = i THEN calibrationRows[i + 1] ELSE calibrationRows[k]
        /\ t = [k \in 1..m |-> t[k]]
    BY <2>2 DEF Swapped
  <2> HIDE DEF t, m, S
  <2>4. t \in Seq(S)
    <3>1. \A k \in 1..m : t[k] \in S
      BY <2>2, <2>3
    <3> QED
      BY <2>2, <2>3, <3>1
  <2>5. IsInjective(t)
    BY <2>1, <2>2, <2>3 DEF IsInjective
  <2>6. ToSet(calibrationRows) = ToSet(t)
    <3>1. \A k \in 1..m : \E l \in 1..m : calibrationRows[k] = t[l]
      <4> TAKE k \in 1..m
      <4>1. CASE k = i
        BY <2>2, <2>3, <4>1
      <4>2. CASE k = i + 1
        BY <2>2, <2>3, <4>2
      <4>3. CASE k # i /\ k # i + 1
        BY <2>2, <2>3, <4>3
      <4> QED
        BY <4>1, <4>2, <4>3
    <3>2. \A k \in 1..m : \E l \in 1..m : t[k] = calibrationRows[l]
      BY <2>2, <2>3
    <3>3. ToSet(calibrationRows) \subseteq ToSet(t)
      BY <2>2, <2>3, <3>1 DEF ToSet
    <3>4. ToSet(t) \subseteq ToSet(calibrationRows)
      BY <2>2, <2>3, <3>2 DEF ToSet
    <3> QED
      BY <3>3, <3>4
  <2>7. Ordered(t) = Ordered(calibrationRows)
    BY <2>1, <2>4, <2>5, <2>6, ListingIsIrrelevant
  <2> QED
    BY <2>7 DEF CalibrationReport, t
<1> QED
  BY <1>1, ReportInvHolds, PTL

-----------------------------------------------------------------------------
(* Listings of the monitoring pages. *)

(* The order of a listing: rows of a set, put in one after the other.      *)
Lists(run, s) ==
  /\ run[0] = <<>> /\ run[Len(s)] = StableSort(s, ListedBefore)
  /\ \A i \in 1..Len(s) :
       run[i] = InsertBehind(run[i - 1], s[i], {j \in DOMAIN run[i - 1] : ~ListedBefore(s[i], run[i - 1][j])})

(* A listing inserts one snapshot after the other. *)
LEMMA ListingRuns ==
  ASSUME NEW A, NEW s, s \in Seq(A)
  PROVE  \E run \in [0..Len(s) -> Seq(A)] : Lists(run, s)
<1> DEFINE n == Len(s)
           V == Seq(A)
           op(v, x) == InsertBehind(v, x, {j \in DOMAIN v : ~ListedBefore(x, v[j])})
           IsIter(h) == h = [T \in SUBSET (1..n) |->
                               IF T = {} THEN <<>> ELSE op(h[T \ {Max(T)}], s[Max(T)])]
           iter == CHOOSE h : IsIter(h)
           base == <<>>
           step == [i \in 1..n |-> [v \in V |-> op(v, s[i])]]
<1>0. n \in Nat /\ DOMAIN s = 1..n /\ base \in V
  OBVIOUS
<1>1. StableSort(s, ListedBefore) = iter[1..n]
  BY <1>0 DEF StableSort, FoldLeft, MapThenFoldSet
<1>2. \A i \in 1..n : s[i] \in A
  OBVIOUS
<1>3. step \in [1..n -> [V -> V]]
  <2>1. ASSUME NEW v \in V, NEW x \in A PROVE op(v, x) \in V
    BY InsertedIsSequence
  <2> HIDE DEF op, n, V
  <2> QED
    BY <1>2, <2>1
<1> HIDE DEF n, op
<1>4. \E h : IsIter(h)
  <2>1. PICK g \in [SUBSET (1..n) -> V] : FoldsLeft(g, base, step, n, V)
    <3> HIDE DEF step, V, base
    <3> QED
      BY <1>0, <1>3, LeftFolds
  <2> HIDE DEF V
  <2>2. \A T \in SUBSET (1..n) : g[T] = IF T = {} THEN <<>> ELSE op(g[T \ {Max(T)}], s[Max(T)])
    BY <2>1 DEF FoldsLeft
  <2>3. g = [T \in SUBSET (1..n) |-> g[T]]
    BY <2>1
  <2>4. IsIter(g)
    BY <2>2, <2>3
  <2> QED
    BY <2>4
<1>5. IsIter(iter)
  <2> HIDE DEF IsIter
  <2> QED
    BY <1>4
<1>6. Iterates(iter, base, step, n, V)
  <2> HIDE DEF iter, V
  <2>1. ASSUME NEW T \in SUBSET (1..n), T # {}, iter[T \ {Max(T)}] \in V
        PROVE  iter[T] = step[Max(T)][iter[T \ {Max(T)}]]
    <3>1. Max(T) \in 1..n
      BY <1>0, <2>1, MaxOfPlaces
    <3> QED
      BY <1>5, <2>1, <3>1
  <2>2. \A T \in SUBSET (1..n) : T = {} => iter[T] = base
    BY <1>5
  <2> HIDE DEF step, base
  <2> QED
    BY <2>1, <2>2 DEF Iterates
<1>7. PICK run \in [0..n -> V] : StepsBy(run, base, step, n, iter[1..n])
  <2> HIDE DEF iter, step, V, base
  <2> QED
    BY <1>0, <1>3, <1>6, LeftRuns
<1>8. ASSUME NEW i \in 1..n PROVE run[i] = op(run[i - 1], s[i])
  <2>1. i - 1 \in 0..n
    BY <1>0
  <2>2. run[i - 1] \in V
    <3> HIDE DEF V
    <3> QED
      BY <1>7, <2>1
  <2> HIDE DEF V
  <2> QED
    BY <1>7, <2>2 DEF StepsBy
<1>9. run[0] = <<>> /\ run[n] = StableSort(s, ListedBefore)
  BY <1>1, <1>7 DEF StepsBy
<1> HIDE DEF iter
<1> QED
  BY <1>8, <1>9 DEF n, op, Lists

ListOrder(S) == {pair \in S \X S : ListedBefore(pair[1], pair[2])}

(* Minute, rank and id order the snapshots of a listing. *)
LEMMA ListOrderIsOrder ==
  ASSUME NEW S, S \in SUBSET Snapshots
  PROVE  /\ StrictOrderOn(ListOrder(S), S) /\ TotalOn(ListOrder(S), S)
         /\ \A r, s \in S : <<r, s>> \in ListOrder(S) <=> ListedBefore(r, s)
<1>1. \A r, s \in S : <<r, s>> \in ListOrder(S) <=> ListedBefore(r, s)
  BY DEF ListOrder
<1>2. \A r \in S : Advice[r].rank \in Int /\ Advice[r].minute \in Int /\ r \in Int
  <2> SUFFICES ASSUME NEW r \in S PROVE Advice[r].rank \in Int /\ Advice[r].minute \in Int /\ r \in Int
    OBVIOUS
  <2>1. r \in Int /\ Advice[r] \in AllAdvice
    BY OutcomesAssumption DEF Snapshots
  <2> QED
    BY <2>1 DEF AllAdvice
<1>4. StrictOrderOn(ListOrder(S), S)
  <2>1. ASSUME NEW r \in S, NEW s \in S, ListedBefore(r, s) PROVE ~ListedBefore(s, r)
    BY <1>2, <2>1 DEF ListedBefore
  <2>2. ASSUME NEW r \in S, NEW s \in S, NEW t \in S, ListedBefore(r, s), ListedBefore(s, t)
        PROVE  ListedBefore(r, t)
    BY <1>2, <2>2 DEF ListedBefore
  <2> QED
    BY <1>1, <2>1, <2>2 DEF StrictOrderOn
<1>5. TotalOn(ListOrder(S), S)
  <2>1. ASSUME NEW r \in S, NEW s \in S, r # s PROVE ListedBefore(r, s) \/ ListedBefore(s, r)
    BY <1>2, <2>1 DEF ListedBefore
  <2> QED
    BY <1>1, <2>1 DEF TotalOn
<1> QED
  BY <1>1, <1>4, <1>5

(* The snapshots of a set in the order of a listing. *)
LEMMA SnapshotsInOrder ==
  ASSUME NEW S, S \in SUBSET Snapshots
  PROVE  /\ Arranged(S, ListedBefore) \in Seq(S) /\ ToSet(Arranged(S, ListedBefore)) = S
         /\ SortedBy(Arranged(S, ListedBefore), ListOrder(S))
<1> DEFINE s == SetToSeq(S)
           before == ListOrder(S)
           n == Len(s)
<1>0. IsFiniteSet(S)
  <2>1. Snapshots = 1..Len(Advice) /\ Len(Advice) \in Nat
    BY OutcomesAssumption DEF Snapshots
  <2>2. IsFiniteSet(Snapshots)
    BY <2>1, FS_Interval
  <2> QED
    BY <2>2, FS_Subset
<1>s. s \in Seq(S) /\ IsInjective(s) /\ ToSet(s) = S
  BY <1>0, SetsHaveListings
<1>a. Arranged(S, ListedBefore) = StableSort(s, ListedBefore)
  BY DEF Arranged
<1> HIDE DEF s
<1>1. n \in Nat /\ DOMAIN s = 1..n /\ \A i \in 1..n : s[i] \in S
  BY <1>s
<1>2. /\ StrictOrderOn(before, S) /\ TotalOn(before, S)
      /\ \A p, q \in S : <<p, q>> \in before <=> ListedBefore(p, q)
  BY ListOrderIsOrder
<1>3. PICK run \in [0..n -> Seq(S)] : Lists(run, s)
  BY <1>s, ListingRuns
<1> HIDE DEF before
<1>4. ASSUME NEW i \in 1..n
      PROVE  run[i] = InsertBehind(run[i - 1], s[i], {j \in DOMAIN run[i - 1] : <<s[i], run[i - 1][j]>> \notin before})
  <2>1. i - 1 \in 0..n /\ s[i] \in S
    BY <1>1
  <2>2. run[i - 1] \in Seq(S)
    BY <2>1
  <2>3. \A j \in DOMAIN run[i - 1] : run[i - 1][j] \in S
    BY <2>2
  <2>4. {j \in DOMAIN run[i - 1] : <<s[i], run[i - 1][j]>> \notin before}
          = {j \in DOMAIN run[i - 1] : ~ListedBefore(s[i], run[i - 1][j])}
    BY <1>2, <2>1, <2>3
  <2> QED
    BY <1>3, <2>4 DEF Lists, n
<1>5. Insertions(run, s, before) /\ run[n] = StableSort(s, ListedBefore)
  BY <1>3, <1>4 DEF Insertions, Lists, n
<1>6. run[n] \in Seq(S) /\ SortedBy(run[n], before) /\ ToSet(run[n]) = ToSet(s)
  BY <1>s, <1>2, <1>3, <1>5, InsertionsSort DEF n
<1> QED
  BY <1>a, <1>s, <1>5, <1>6 DEF before

-----------------------------------------------------------------------------
Results == {"win", "loss", "push", "unknown"}
AllOutcomes == [snapshot : Snapshots, status : {"close_unavailable", "pending_outcome", "settled"},
                close : Seq(Int), clv : Seq(Int), result : Results, settledAt : Seq(Nat),
                sources : {"odds_history", "persisted", "unavailable"} \X {"scores", "persisted", "unavailable"} \X BOOLEAN]

(* What a row of the log is made from: a closing line value is that of its *)
(* closing chance, a result that of the final score, and a row is settled  *)
(* when it has a result, which is never without a closing line value.      *)
IsTrue(o) ==
  LET a == Advice[o.snapshot]
  IN  /\ a.side \in Sides
      /\ o.close # <<>> => o.clv = <<o.close[1] - SideChance(a.side, a.home)>>
      /\ o.result # "unknown" => o.result = GradeOutcome(a.market, a.side, FinalScore[o.snapshot]) /\ o.clv # <<>>
      /\ o.status = "settled" <=> IsSettledResult(o.result)
TrueOutcomes == {o \in AllOutcomes : IsTrue(o)}

ListedRows ==
  {row \in [snapshot : Snapshots, at : Nat, line : Seq(AllLines), latest : Seq(TrueOutcomes)] :
     row.latest # <<>> => row.latest[1].snapshot = row.snapshot}

(* A grade is that of the final score, whatever is known of it. *)
LEMMA GradeIs ==
  ASSUME NEW market, NEW side \in Sides, NEW score \in Int \X Int
  PROVE  /\ GradeOutcome(market, side, score) \in Results
         /\ GradeOutcome(market, side, <<>>) = "unknown"
         /\ GradeOutcome(market, side, score) # "unknown" => IsSettledResult(GradeOutcome(market, side, score))
BY DEF GradeOutcome, CompareScores, IsSettledResult, Results

(* buildRecommendationPerformanceRow makes a true row of a listed one. *)
LEMMA EvaluatesTruly ==
  ASSUME NEW row, row \in ListedRows, Gradable(row)
  PROVE  Evaluate(row) \in TrueOutcomes /\ Evaluate(row).snapshot = row.snapshot
<1> DEFINE a == Advice[row.snapshot]
           kept == row.line = <<>> /\ row.latest # <<>> /\ row.latest[1].close # <<>>
           close == IF row.line # <<>> THEN <<row.line[1].close>> ELSE IF kept THEN row.latest[1].close ELSE <<>>
           scores == ScoresOf(row)
           first == ComputePerformance(a.market, a.side, a.home, close, scores)
           perf == Recall(first, row)
           status == NormalStatus(perf)
           grade == GradeOutcome(a.market, a.side, FinalScore[row.snapshot])
           chance == SideChance(a.side, a.home)
<1>1. /\ row.snapshot \in Snapshots /\ row.at \in Nat /\ row.line \in Seq(AllLines)
      /\ row.latest \in Seq(TrueOutcomes) /\ a.side \in Sides
  BY DEF ListedRows, Gradable
<1>2. a \in AllAdvice /\ a.home \in Int /\ chance \in Int /\ FinalScore[row.snapshot] \in Int \X Int
  <2>1. a \in AllAdvice /\ FinalScore[row.snapshot] \in Int \X Int
    BY <1>1, OutcomesAssumption DEF Snapshots
  <2>2. a.home \in 0..100
    <3> HIDE DEF a
    <3> QED
      BY <2>1 DEF AllAdvice
  <2> QED
    BY <2>1, <2>2 DEF SideChance
<1>3. ASSUME row.latest # <<>> PROVE row.latest[1] \in TrueOutcomes
  BY <1>1, <1>3
<1>4. ASSUME row.line # <<>> PROVE row.line[1].close \in Int
  <2>1. row.line[1] \in AllLines
    BY <1>1, <1>4
  <2> QED
    BY <2>1 DEF AllLines
<1>5. ASSUME row.latest # <<>>
      PROVE  LET l == row.latest[1] IN
             /\ l.close \in Seq(Int) /\ l.clv \in Seq(Int) /\ l.result \in Results /\ l.settledAt \in Seq(Nat)
             /\ l.status \in {"close_unavailable", "pending_outcome", "settled"} /\ IsTrue(l)
  BY <1>3, <1>5 DEF TrueOutcomes, AllOutcomes
<1>6. close \in Seq(Int)
  <2>1. CASE row.line # <<>>
    BY <1>4, <2>1
  <2>2. CASE row.line = <<>>
    BY <1>5, <2>2
  <2> QED
    BY <2>1, <2>2
<1>7. scores \in {<<>>, FinalScore[row.snapshot]}
  BY DEF ScoresOf
<1> HIDE DEF scores, close
<1>8. /\ first.clv = IF close = <<>> THEN <<>> ELSE <<close[1] - chance>>
      /\ first.clv \in Seq(Int) /\ first.result \in Results
      /\ first.result # "unknown" => first.result = grade /\ first.clv # <<>> /\ close # <<>>
      /\ first.status \in {"close_unavailable", "pending_outcome", "settled"}
      /\ first.status = "settled" => IsSettledResult(first.result)
  <2>1. /\ grade \in Results /\ GradeOutcome(a.market, a.side, <<>>) = "unknown"
        /\ grade # "unknown" => IsSettledResult(grade)
    BY <1>1, <1>2, GradeIs
  <2>2. GradeOutcome(a.market, a.side, scores) \in {"unknown", grade}
    BY <1>7, <2>1
  <2> HIDE DEF grade, chance
  <2>3. CASE close = <<>>
    <3>1. first = [status |-> "close_unavailable", clv |-> <<>>, result |-> "unknown"]
      BY <2>3 DEF ComputePerformance
    <3>2. first.clv = <<>> /\ first.result = "unknown" /\ first.status = "close_unavailable"
      BY <3>1
    <3> HIDE DEF first
    <3>3. first.clv \in Seq(Int)
      BY <3>2
    <3> QED
      BY <2>3, <3>2, <3>3 DEF Results
  <2>4. CASE close # <<>>
    <3> DEFINE g == GradeOutcome(a.market, a.side, scores)
    <3>1. /\ first.status = IF IsSettledResult(g) THEN "settled" ELSE "pending_outcome"
          /\ first.clv = <<close[1] - chance>> /\ first.result = g
      BY <2>4 DEF ComputePerformance, chance
    <3>2. close[1] \in Int
      BY <1>6, <2>4
    <3>3. first.clv \in Seq(Int) /\ first.clv # <<>>
      BY <1>2, <3>1, <3>2 DEF chance
    <3> HIDE DEF g, first
    <3> QED
      BY <2>1, <2>2, <2>4, <3>1, <3>3 DEF g, Results
  <2> QED
    BY <2>3, <2>4
<1> HIDE DEF first, grade, chance
<1>9. /\ perf.clv = IF first.clv = <<>> /\ row.latest # <<>> THEN row.latest[1].clv ELSE first.clv
      /\ perf.result = IF first.result = "unknown" /\ row.latest # <<>> THEN row.latest[1].result ELSE first.result
      /\ perf.status \in {"close_unavailable", "pending_outcome", "settled"}
  <2>1. CASE row.latest = <<>>
    BY <1>8, <2>1 DEF Recall
  <2>2. CASE row.latest # <<>>
    <3> DEFINE l == row.latest[1]
               result == IF first.result = "unknown" THEN l.result ELSE first.result
               st == IF first.result = "unknown" /\ IsSettledResult(result) THEN "settled" ELSE first.status
    <3>1. perf = [clv |-> IF first.clv = <<>> THEN l.clv ELSE first.clv, result |-> result,
                  status |-> IF st = "close_unavailable" THEN l.status ELSE st]
      BY <2>2 DEF Recall
    <3>2. l.status \in {"close_unavailable", "pending_outcome", "settled"}
      BY <1>5, <2>2
    <3>3. st \in {"close_unavailable", "pending_outcome", "settled"}
      BY <1>8
    <3> HIDE DEF st
    <3> QED
      BY <2>2, <3>1, <3>2, <3>3
  <2> QED
    BY <2>1, <2>2
<1> HIDE DEF perf
<1>10. /\ perf.clv \in Seq(Int) /\ perf.result \in Results
       /\ perf.result # "unknown" => perf.result = grade /\ perf.clv # <<>>
       /\ close # <<>> => perf.clv = <<close[1] - chance>>
  <2>1. CASE row.latest = <<>>
    BY <1>8, <1>9, <2>1
  <2>2. CASE row.latest # <<>>
    <3> DEFINE l == row.latest[1]
    <3>1. l.snapshot = row.snapshot
      BY <2>2 DEF ListedRows
    <3>2. l.result # "unknown" => l.result = grade /\ l.clv # <<>>
      BY <1>5, <2>2, <3>1 DEF IsTrue, grade
    <3>3. l.clv \in Seq(Int) /\ l.result \in Results
      BY <1>5, <2>2
    <3> HIDE DEF l
    <3>4. /\ perf.clv = IF first.clv = <<>> THEN l.clv ELSE first.clv
          /\ perf.result = IF first.result = "unknown" THEN l.result ELSE first.result
      BY <1>9, <2>2 DEF l
    <3>5. close # <<>> => first.clv # <<>>
      BY <1>8
    <3> QED
      BY <1>8, <3>2, <3>3, <3>4, <3>5
  <2> QED
    BY <2>1, <2>2
<1>11. /\ status \in {"close_unavailable", "pending_outcome", "settled"}
       /\ status = "settled" <=> IsSettledResult(perf.result)
  <2>1. IsSettledResult(perf.result) => perf.clv # <<>>
    BY <1>10 DEF IsSettledResult
  <2> QED
    BY <2>1 DEF NormalStatus
<1> HIDE DEF status
<1> DEFINE at == IF status # "settled" THEN <<>>
                 ELSE IF row.line # <<>> THEN <<row.at>>
                 ELSE IF row.latest # <<>> THEN row.latest[1].settledAt ELSE <<>>
           sources == <<IF row.line # <<>> THEN "odds_history" ELSE IF kept THEN "persisted" ELSE "unavailable",
                        IF scores # <<>> THEN "scores"
                        ELSE IF IsSettledResult(perf.result) THEN "persisted" ELSE "unavailable",
                        row.line # <<>> /\ row.line[1].scores = "broken">>
           o == [snapshot |-> row.snapshot, status |-> status, close |-> close, clv |-> perf.clv,
                 result |-> perf.result, settledAt |-> at, sources |-> sources]
<1>12. Evaluate(row) = o
  BY DEF Evaluate, status, perf, close, scores, first
<1>13. at \in Seq(Nat)
  <2>1. row.latest # <<>> => row.latest[1].settledAt \in Seq(Nat)
    BY <1>5
  <2>2. <<row.at>> \in Seq(Nat) /\ <<>> \in Seq(Nat)
    BY <1>1
  <2> QED
    BY <2>1, <2>2
<1>14. sources \in {"odds_history", "persisted", "unavailable"} \X {"scores", "persisted", "unavailable"} \X BOOLEAN
  <2> DEFINE from == IF row.line # <<>> THEN "odds_history" ELSE IF kept THEN "persisted" ELSE "unavailable"
             by == IF scores # <<>> THEN "scores"
                   ELSE IF IsSettledResult(perf.result) THEN "persisted" ELSE "unavailable"
             broken == row.line # <<>> /\ row.line[1].scores = "broken"
  <2>1. from \in {"odds_history", "persisted", "unavailable"} /\ by \in {"scores", "persisted", "unavailable"}
    OBVIOUS
  <2>2. broken \in BOOLEAN
    BY Zenon
  <2>3. sources = <<from, by, broken>>
    OBVIOUS
  <2> HIDE DEF from, by, broken, sources
  <2> QED
    BY <2>1, <2>2, <2>3
<1> HIDE DEF at, sources, kept
<1>15. o \in AllOutcomes
  BY <1>1, <1>6, <1>10, <1>11, <1>13, <1>14 DEF AllOutcomes
<1>16. IsTrue(o)
  <2>1. o.close # <<>> => o.clv = <<o.close[1] - chance>>
    BY <1>10
  <2>2. o.result # "unknown" => o.result = grade /\ o.clv # <<>>
    BY <1>10
  <2> QED
    BY <1>1, <1>11, <2>1, <2>2 DEF IsTrue, grade, chance
<1> QED
  BY <1>12, <1>15, <1>16 DEF TrueOutcomes

-----------------------------------------------------------------------------
(* The invariant of the log. *)

Stages == {"idle", "list", "row", "insert", "answer", "persist", "served", "failed"}
AllReaders == [at : Stages, served : 0..MaxReports, req : Requests \cup {<<>>}, todo : Seq(ListedRows),
               write : BOOLEAN, loads : Seq(Seq(TrueOutcomes)), steps : Nat]

Within(loads, log) == \A load \in ToSet(loads) : ToSet(load) \subseteq log

(* What is in flight rests on the log: all that it has loaded is there,    *)
(* and so is a row that it has found not to be new.                        *)
Sound(w, log) ==
  /\ w \in AllReaders
  /\ w.at \in {"list", "row", "insert", "answer", "persist"} => w.served < MaxReports
  /\ w.at \in {"list", "row", "insert", "answer", "persist", "served"} => w.req \in Requests
  /\ w.at \in {"row", "insert"} => w.todo # <<>> /\ w.loads # <<>>
  /\ w.write => w.at = "insert"
  /\ w.at = "insert" => Gradable(Head(w.todo)) /\ (w.write \/ Evaluate(Head(w.todo)) \in log)
  /\ Within(w.loads, log)

LinesOK == lines \in [Snapshots -> Seq(AllLines)] /\ \A s \in Snapshots : Len(lines[s]) <= MaxLines[s]

AllSound == reader \in [Readers -> AllReaders] /\ \A r \in Readers : Sound(reader[r], ToSet(outcomes))

CopiesOf(o) == {j \in DOMAIN outcomes : outcomes[j] = o}
WritersOf(o) == {r \in Readers : reader[r].at = "insert" /\ reader[r].write /\ Evaluate(Head(reader[r].todo)) = o}
CopiesAndWriters == \A o : Cardinality(CopiesOf(o)) + Cardinality(WritersOf(o)) <= Cardinality(Readers)

LogInv == LinesOK /\ outcomes \in Seq(TrueOutcomes) /\ AllSound /\ CopiesAndWriters

(* What rests on a log rests on a longer one. *)
LEMMA SoundStays ==
  ASSUME NEW w, NEW log, NEW more, Sound(w, log), log \subseteq more
  PROVE  Sound(w, more)
<1>1. Within(w.loads, more)
  BY DEF Sound, Within
<1> QED
  BY <1>1 DEF Sound

-----------------------------------------------------------------------------
(* Newest is the last element, if there is one. *)
LEMMA NewestIs ==
  ASSUME NEW A, NEW s, s \in Seq(A)
  PROVE  Newest(s) \in Seq(A) /\ (s # <<>> => Newest(s) = <<s[Len(s)]>> /\ s[Len(s)] \in A)
<1>1. CASE s = <<>>
  BY <1>1 DEF Newest
<1>2. CASE s # <<>>
  <2>1. Len(s) \in 1..Len(s) /\ s[Len(s)] \in A
    BY <1>2
  <2>2. Newest(s) = <<s[Len(s)]>>
    BY <1>2 DEF Newest, Last
  <2> QED
    BY <1>2, <2>1, <2>2
<1> QED
  BY <1>1, <1>2

(* OutcomesOf has the rows of one snapshot, and all of them. *)
LEMMA OutcomesOfIs ==
  ASSUME outcomes \in Seq(TrueOutcomes), NEW s
  PROVE  /\ OutcomesOf(s) \in Seq(TrueOutcomes)
         /\ ToSet(OutcomesOf(s)) = {o \in ToSet(outcomes) : o.snapshot = s}
<1> DEFINE places == {i \in DOMAIN outcomes : outcomes[i].snapshot = s}
<1>1. OutcomesOf(s) = Where(outcomes, places)
  BY DEF OutcomesOf
<1>2. DOMAIN outcomes = 1..Len(outcomes)
  OBVIOUS
<1>3. {outcomes[i] : i \in places \cap (1..Len(outcomes))} = {o \in ToSet(outcomes) : o.snapshot = s}
  BY <1>2 DEF ToSet
<1> HIDE DEF places
<1>4. Where(outcomes, places) \in Seq(TrueOutcomes) /\ ToSet(Where(outcomes, places)) = {outcomes[i] : i \in places \cap (1..Len(outcomes))}
  BY WhereElements
<1> QED
  BY <1>1, <1>3, <1>4

(* The newest outcome of a snapshot is one of its own. *)
LEMMA LatestIsOwn ==
  ASSUME outcomes \in Seq(TrueOutcomes), NEW s
  PROVE  /\ Newest(OutcomesOf(s)) \in Seq(TrueOutcomes)
         /\ Newest(OutcomesOf(s)) # <<>> => Newest(OutcomesOf(s))[1].snapshot = s
<1> DEFINE t == OutcomesOf(s)
<1>1. t \in Seq(TrueOutcomes) /\ ToSet(t) = {o \in ToSet(outcomes) : o.snapshot = s}
  BY OutcomesOfIs
<1> HIDE DEF t
<1>2. Newest(t) \in Seq(TrueOutcomes) /\ (t # <<>> => Newest(t) = <<t[Len(t)]>>)
  BY <1>1, NewestIs
<1>3. CASE t = <<>>
  BY <1>2, <1>3 DEF Newest, t
<1>4. CASE t # <<>>
  <2>1. Len(t) \in DOMAIN t
    BY <1>1, <1>4
  <2>2. t[Len(t)] \in ToSet(t)
    BY <2>1 DEF ToSet
  <2>3. t[Len(t)].snapshot = s
    BY <1>1, <2>2
  <2> QED
    BY <1>2, <1>4, <2>3 DEF t
<1> QED
  BY <1>3, <1>4

(* A page has snapshots that were asked for. *)
LEMMA PageIs ==
  ASSUME NEW req, req \in Requests, NEW window
  PROVE  Page(req, window) \in Seq(Wanted(req, window))
<1> DEFINE S == Wanted(req, window)
           all == Arranged(S, ListedBefore)
<1>1. all \in Seq(S) /\ req.limit \in Nat /\ req.limit >= 1
  <2>1. S \in SUBSET Snapshots
    BY DEF Wanted
  <2>2. req.limit \in Nat \ {0}
    BY OutcomesAssumption DEF AllRequests, Counts
  <2> HIDE DEF S
  <2> QED
    BY <2>1, <2>2, SnapshotsInOrder
<1> HIDE DEF all, S
<1>2. CASE req.kind = "models" \/ Len(all) < req.limit
  BY <1>1, <1>2 DEF Page, all, S
<1>3. CASE ~(req.kind = "models" \/ Len(all) < req.limit)
  <2>1. SubSeq(all, 1, req.limit) \in Seq(S)
    BY <1>1, <1>3
  <2> QED
    BY <1>3, <2>1 DEF Page, all, S
<1> QED
  BY <1>2, <1>3

(* A listing has rows that can be evaluated. *)
LEMMA ListingIs ==
  ASSUME outcomes \in Seq(TrueOutcomes), LinesOK, NEW req, req \in Requests, NEW window
  PROVE  Listing(req, window) \in Seq(ListedRows)
<1> DEFINE page == Page(req, window)
           row(s) == [snapshot |-> s, at |-> Len(lines[s]), line |-> Newest(lines[s]), latest |-> Newest(OutcomesOf(s))]
<1>1. Listing(req, window) = [i \in DOMAIN page |-> row(page[i])]
  BY DEF Listing
<1>2. ASSUME NEW s \in Snapshots PROVE row(s) \in ListedRows
  <2>1. lines[s] \in Seq(AllLines)
    BY DEF LinesOK
  <2>2. Len(lines[s]) \in Nat /\ Newest(lines[s]) \in Seq(AllLines)
    BY <2>1, NewestIs
  <2>3. /\ Newest(OutcomesOf(s)) \in Seq(TrueOutcomes)
        /\ Newest(OutcomesOf(s)) # <<>> => Newest(OutcomesOf(s))[1].snapshot = s
    BY LatestIsOwn
  <2> QED
    BY <2>2, <2>3 DEF ListedRows
<1>3. page \in Seq(Snapshots)
  <2>1. page \in Seq(Wanted(req, window))
    BY PageIs
  <2> QED
    BY <2>1 DEF Wanted
<1> HIDE DEF page, row
<1>4. \A i \in 1..Len(page) : row(page[i]) \in ListedRows
  BY <1>2, <1>3
<1>5. DOMAIN page = 1..Len(page) /\ Len(page) \in Nat
  BY <1>3
<1> QED
  BY <1>1, <1>4, <1>5

Writes(w, o) == w.at = "insert" /\ w.write /\ Evaluate(Head(w.todo)) = o

(* Who is about to write a row, after a step of one reader. *)
LEMMA WritersChange ==
  ASSUME reader \in [Readers -> AllReaders], NEW r \in Readers, NEW w, reader' = [reader EXCEPT ![r] = w], NEW o
  PROVE  WritersOf(o)' = IF Writes(w, o) THEN WritersOf(o) \cup {r} ELSE WritersOf(o) \ {r}
<1>1. WritersOf(o)' = {q \in Readers : Writes(reader'[q], o)} /\ WritersOf(o) = {q \in Readers : Writes(reader[q], o)}
  BY DEF WritersOf, Writes, Evaluate, Gradable, ScoresOf
<1>2. \A q \in Readers : reader'[q] = IF q = r THEN w ELSE reader[q]
  OBVIOUS
<1> QED
  BY <1>1, <1>2

(* No more requests write a row than there are requests. *)
LEMMA WritersAreFew ==
  ASSUME NEW o
  PROVE  /\ IsFiniteSet(WritersOf(o)) /\ Cardinality(WritersOf(o)) \in Nat
         /\ Cardinality(WritersOf(o)) <= Cardinality(Readers) /\ Cardinality(Readers) \in Nat
<1>1. WritersOf(o) \in SUBSET Readers /\ IsFiniteSet(Readers)
  BY OutcomesAssumption DEF WritersOf
<1> QED
  BY <1>1, FS_Subset, FS_CardinalityType

(* A row has finitely many copies. *)
LEMMA CopiesAreFinite ==
  ASSUME outcomes \in Seq(TrueOutcomes), NEW o
  PROVE  IsFiniteSet(CopiesOf(o)) /\ Cardinality(CopiesOf(o)) \in Nat
<1>1. CopiesOf(o) \in SUBSET (1..Len(outcomes)) /\ Len(outcomes) \in Nat
  BY DEF CopiesOf
<1>2. IsFiniteSet(1..Len(outcomes))
  BY <1>1, FS_Interval
<1>3. IsFiniteSet(CopiesOf(o))
  BY <1>1, <1>2, FS_Subset
<1> QED
  BY <1>3, FS_CardinalityType

(* A step of one reader that does not touch the log ... *)
LEMMA ReaderMoves ==
  ASSUME LogInv, NEW r \in Readers, NEW w, Sound(w, ToSet(outcomes)),
         reader' = [reader EXCEPT ![r] = w], UNCHANGED <<lines, outcomes>>,
         w.at = "insert" /\ w.write => IsNewRow(Evaluate(Head(w.todo))) \/ reader[r] = w
  PROVE  LogInv'
<1>1. reader \in [Readers -> AllReaders] /\ \A q \in Readers : Sound(reader[q], ToSet(outcomes))
  BY DEF LogInv, AllSound
<1>2. w \in AllReaders
  BY DEF Sound
<1>3. \A q \in Readers : reader'[q] = IF q = r THEN w ELSE reader[q]
  BY <1>1
<1>4. reader' \in [Readers -> AllReaders]
  BY <1>1, <1>2
<1>5. ToSet(outcomes)' = ToSet(outcomes)
  OBVIOUS
<1>6. \A q \in Readers : Sound(reader'[q], ToSet(outcomes))
  BY <1>1, <1>3
<1>7. AllSound'
  BY <1>4, <1>5, <1>6 DEF AllSound
<1>8. LinesOK' /\ (outcomes \in Seq(TrueOutcomes))'
  BY DEF LogInv, LinesOK
<1>9. CopiesAndWriters'
  <2> SUFFICES ASSUME NEW o
               PROVE  Cardinality(CopiesOf(o)') + Cardinality(WritersOf(o)') <= Cardinality(Readers)
    BY DEF CopiesAndWriters
  <2>1. CopiesOf(o)' = CopiesOf(o)
    BY DEF CopiesOf
  <2>2. Cardinality(CopiesOf(o)) + Cardinality(WritersOf(o)) <= Cardinality(Readers)
    BY DEF LogInv, CopiesAndWriters
  <2>3. WritersOf(o)' = IF Writes(w, o) THEN WritersOf(o) \cup {r} ELSE WritersOf(o) \ {r}
    BY <1>1, WritersChange
  <2>4. Cardinality(CopiesOf(o)) \in Nat
    BY CopiesAreFinite DEF LogInv
  <2>5. /\ IsFiniteSet(WritersOf(o)) /\ Cardinality(WritersOf(o)) \in Nat /\ Cardinality(Readers) \in Nat
    BY WritersAreFew
  <2>6. CASE ~Writes(w, o)
    <3>1. Cardinality(WritersOf(o) \ {r}) <= Cardinality(WritersOf(o)) /\ Cardinality(WritersOf(o) \ {r}) \in Nat
      BY <2>5, FS_Subset, FS_CardinalityType
    <3> QED
      BY <2>1, <2>2, <2>3, <2>4, <2>5, <2>6, <3>1
  <2>7. CASE Writes(w, o) /\ reader[r] = w
    <3>1. r \in WritersOf(o)
      BY <2>7 DEF Writes, WritersOf
    <3>2. WritersOf(o)' = WritersOf(o)
      BY <2>3, <2>7, <3>1
    <3> QED
      BY <2>1, <2>2, <3>2
  <2>8. CASE Writes(w, o) /\ IsNewRow(o)
    <3>1. CopiesOf(o) = {}
      BY <2>8 DEF IsNewRow, CopiesOf
    <3>2. WritersOf(o)' \in SUBSET Readers /\ IsFiniteSet(Readers)
      BY OutcomesAssumption DEF WritersOf
    <3>3. Cardinality(WritersOf(o)') <= Cardinality(Readers) /\ Cardinality(WritersOf(o)') \in Nat
      BY <3>2, FS_Subset, FS_CardinalityType
    <3>4. Cardinality(CopiesOf(o)') = 0
      BY <2>1, <3>1, FS_EmptySet
    <3> QED
      BY <2>5, <3>3, <3>4
  <2> QED
    BY <2>6, <2>7, <2>8 DEF Writes
<1> QED
  BY <1>7, <1>8, <1>9 DEF LogInv

(* ... and one that puts its row behind the log. *)
LEMMA ReaderAppends ==
  ASSUME LogInv, NEW r \in Readers, NEW w, NEW o, o \in TrueOutcomes, Writes(reader[r], o),
         Sound(w, ToSet(Append(outcomes, o))), w.at # "insert",
         reader' = [reader EXCEPT ![r] = w], outcomes' = Append(outcomes, o), UNCHANGED lines
  PROVE  LogInv'
<1>1. reader \in [Readers -> AllReaders] /\ \A q \in Readers : Sound(reader[q], ToSet(outcomes))
  BY DEF LogInv, AllSound
<1>2. w \in AllReaders
  BY DEF Sound
<1>3. \A q \in Readers : reader'[q] = IF q = r THEN w ELSE reader[q]
  BY <1>1
<1>4. reader' \in [Readers -> AllReaders]
  BY <1>1, <1>2
<1>5. /\ outcomes \in Seq(TrueOutcomes) /\ outcomes' \in Seq(TrueOutcomes)
      /\ ToSet(outcomes') = ToSet(outcomes) \cup {o}
  <2>1. outcomes \in Seq(TrueOutcomes)
    BY DEF LogInv
  <2> QED
    BY <2>1, ElementsAppended
<1>6. \A q \in Readers : Sound(reader'[q], ToSet(outcomes'))
  <2>1. ASSUME NEW q \in Readers, q # r PROVE Sound(reader'[q], ToSet(outcomes'))
    <3>1. Sound(reader[q], ToSet(outcomes)) /\ ToSet(outcomes) \subseteq ToSet(outcomes')
      BY <1>1, <1>5
    <3>2. Sound(reader[q], ToSet(outcomes'))
      BY <3>1, SoundStays
    <3> QED
      BY <1>3, <2>1, <3>2
  <2>2. Sound(reader'[r], ToSet(outcomes'))
    BY <1>3
  <2> QED
    BY <2>1, <2>2
<1>7. AllSound'
  BY <1>4, <1>6 DEF AllSound
<1>8. LinesOK'
  BY DEF LogInv, LinesOK
<1>9. CopiesAndWriters'
  <2> SUFFICES ASSUME NEW p
               PROVE  Cardinality(CopiesOf(p)') + Cardinality(WritersOf(p)') <= Cardinality(Readers)
    BY DEF CopiesAndWriters
  <2> DEFINE n == Len(outcomes)
  <2>1. CopiesOf(p)' = IF p = o THEN CopiesOf(p) \cup {n + 1} ELSE CopiesOf(p)
    <3>1. n \in Nat /\ DOMAIN outcomes = 1..n /\ DOMAIN outcomes' = 1..(n + 1)
      BY <1>5
    <3>2. outcomes'[n + 1] = o /\ \A j \in 1..n : outcomes'[j] = outcomes[j]
      BY <1>5
    <3>3. 1..(n + 1) = (1..n) \cup {n + 1}
      BY <3>1
    <3> HIDE DEF n
    <3> QED
      BY <3>1, <3>2, <3>3 DEF CopiesOf
  <2>2. Cardinality(CopiesOf(p)) + Cardinality(WritersOf(p)) <= Cardinality(Readers)
    BY DEF LogInv, CopiesAndWriters
  <2>3. WritersOf(p)' = WritersOf(p) \ {r}
    <3>1. ~Writes(w, p)
      BY DEF Writes
    <3> QED
      BY <1>1, <3>1, WritersChange
  <2>4. Cardinality(CopiesOf(p)) \in Nat /\ IsFiniteSet(CopiesOf(p))
    BY <1>5, CopiesAreFinite
  <2>5. IsFiniteSet(WritersOf(p)) /\ Cardinality(WritersOf(p)) \in Nat /\ Cardinality(Readers) \in Nat
    BY WritersAreFew
  <2>6. Cardinality(WritersOf(p) \ {r}) = IF r \in WritersOf(p) THEN Cardinality(WritersOf(p)) - 1 ELSE Cardinality(WritersOf(p))
    BY <2>5, FS_RemoveElement
  <2>7. CASE p = o
    <3>1. r \in WritersOf(p)
      BY <2>7 DEF Writes, WritersOf
    <3>2. n + 1 \notin CopiesOf(p)
      BY <1>5 DEF CopiesOf
    <3>3. Cardinality(CopiesOf(p) \cup {n + 1}) = Cardinality(CopiesOf(p)) + 1
      BY <2>4, <3>2, FS_AddElement
    <3> HIDE DEF n
    <3> QED
      BY <2>1, <2>2, <2>3, <2>4, <2>5, <2>6, <2>7, <3>1, <3>3
  <2>8. CASE p # o
    BY <2>1, <2>2, <2>3, <2>4, <2>5, <2>6, <2>8
  <2> QED
    BY <2>7, <2>8
<1> QED
  BY <1>5, <1>7, <1>8, <1>9 DEF LogInv

(* The steps of a reader, each by what it makes of its work. *)
LEMMA AfterARow ==
  ASSUME NEW log, NEW w, w \in AllReaders, w.loads # <<>>, Within(w.loads, log), w.served < MaxReports,
         w.req \in Requests, ~w.write
  PROVE  Sound(Resume(w), log) /\ Resume(w).at # "insert"
<1> DEFINE v == Resume(w)
<1>1. After(w) \in {"row", "list", "answer"} /\ (After(w) = "row" => w.todo # <<>>)
  BY DEF After
<1>2. v = [w EXCEPT !.at = After(w)]
  BY DEF Resume
<1>3. /\ v.at = After(w) /\ v.served = w.served /\ v.req = w.req /\ v.todo = w.todo /\ v.write = w.write
      /\ v.loads = w.loads /\ v \in AllReaders
  BY <1>1, <1>2 DEF AllReaders, Stages
<1> HIDE DEF v
<1>4. Sound(v, log) /\ v.at # "insert"
  BY <1>1, <1>3 DEF Sound
<1> QED
  BY <1>4 DEF v

(* A reader without a request. *)
LEMMA NoRequestIs ==
  NoRequest \in AllReaders /\ NoRequest.loads = <<>> /\ NoRequest.write = FALSE /\ NoRequest.at = "idle"
<1>1. 0 \in 0..MaxReports /\ 0 \in Nat /\ "idle" \in Stages /\ FALSE \in BOOLEAN /\ <<>> \in Requests \cup {<<>>}
  BY OutcomesAssumption DEF Stages
<1>2. <<>> \in Seq(ListedRows) /\ <<>> \in Seq(Seq(TrueOutcomes))
  OBVIOUS
<1> QED
  BY <1>1, <1>2 DEF NoRequest, AllReaders

(* No loads rest on any log. *)
LEMMA NothingWithin ==
  ASSUME NEW log
  PROVE  Within(<<>>, log)
BY DEF Within, ToSet

(* One load more. *)
LEMMA LoadsGrow ==
  ASSUME NEW A, NEW loads, loads \in Seq(Seq(A)), NEW load, load \in Seq(A), NEW log,
         Within(loads, log), ToSet(load) \subseteq log
  PROVE  /\ Append(loads, load) \in Seq(Seq(A)) /\ Append(loads, load) # <<>>
         /\ Within(Append(loads, load), log)
<1> DEFINE B == Seq(A)
           more == Append(loads, load)
<1>1. loads \in Seq(B) /\ load \in B
  OBVIOUS
<1> HIDE DEF B
<1>2. more \in Seq(B) /\ ToSet(more) = ToSet(loads) \cup {load} /\ Len(more) = Len(loads) + 1
  BY <1>1, ElementsAppended
<1>3. Len(loads) \in Nat
  BY <1>1
<1> HIDE DEF more
<1>4. Within(more, log)
  BY <1>2 DEF Within
<1>5. more # <<>>
  BY <1>2, <1>3
<1> QED
  BY <1>2, <1>4, <1>5 DEF B, more

(* One load less. *)
LEMMA FrontWithin ==
  ASSUME NEW A, NEW loads, loads \in Seq(A), loads # <<>>, NEW log, Within(loads, log)
  PROVE  /\ Front(loads) \in Seq(A) /\ Within(Front(loads), log)
         /\ Last(loads) \in A /\ ToSet(Last(loads)) \subseteq log
<1> DEFINE n == Len(loads)
           front == Front(loads)
<1>1. n \in Nat /\ n > 0 /\ n \in 1..n /\ loads[n] \in A /\ DOMAIN loads = 1..n
  OBVIOUS
<1>2. front \in Seq(A) /\ DOMAIN front = 1..(n - 1) /\ \A i \in 1..(n - 1) : front[i] = loads[i]
  BY <1>1 DEF Front
<1>3. Last(loads) = loads[n]
  BY DEF Last
<1> HIDE DEF front, n
<1>4. \A i \in 1..n : ToSet(loads[i]) \subseteq log
  BY <1>1 DEF Within, ToSet
<1>5. 1..(n - 1) \subseteq 1..n
  BY <1>1
<1>6. \A i \in 1..(n - 1) : ToSet(front[i]) \subseteq log
  BY <1>2, <1>4, <1>5
<1>7. Within(front, log)
  <2> SUFFICES ASSUME NEW load \in ToSet(front) PROVE ToSet(load) \subseteq log
    BY DEF Within
  <2>1. PICK i \in 1..(n - 1) : load = front[i]
    BY <1>2 DEF ToSet
  <2> QED
    BY <1>6, <2>1
<1> QED
  BY <1>1, <1>2, <1>3, <1>4, <1>7 DEF front

(* CaptureLine keeps the invariant. *)
LEMMA Capturing ==
  ASSUME LogInv, NEW s \in Snapshots, NEW quote \in Quotes[s], CaptureLine(s, quote)
  PROVE  LogInv'
<1>1. LinesOK'
  <2>1. quote \in AllLines /\ lines \in [Snapshots -> Seq(AllLines)] /\ lines[s] \in Seq(AllLines)
    BY OutcomesAssumption DEF LogInv, LinesOK
  <2>2. Append(lines[s], quote) \in Seq(AllLines) /\ Len(Append(lines[s], quote)) = Len(lines[s]) + 1
    BY <2>1
  <2>3. lines' = [lines EXCEPT ![s] = Append(lines[s], quote)] /\ Len(lines[s]) < MaxLines[s]
    BY DEF CaptureLine
  <2>4. MaxLines[s] \in Nat /\ Len(lines[s]) \in Nat
    BY <2>1, OutcomesAssumption
  <2>5. \A t \in Snapshots : Len(lines[t]) <= MaxLines[t]
    BY DEF LogInv, LinesOK
  <2>6. \A t \in Snapshots : Len(lines'[t]) <= MaxLines[t]
    BY <2>1, <2>2, <2>3, <2>4, <2>5
  <2> QED
    BY <2>1, <2>2, <2>3, <2>6 DEF LinesOK
<1>2. UNCHANGED <<outcomes, reader>>
  BY DEF CaptureLine
<1>3. AllSound' /\ CopiesAndWriters' /\ (outcomes \in Seq(TrueOutcomes))'
  BY <1>2 DEF LogInv, AllSound, CopiesAndWriters, CopiesOf, WritersOf, Sound
<1> QED
  BY <1>1, <1>3 DEF LogInv

(* StartReport keeps the invariant. *)
LEMMA Starting ==
  ASSUME LogInv, NEW r \in Readers, NEW req \in Requests, StartReport(r, req)
  PROVE  LogInv'
<1> DEFINE w == [NoRequest EXCEPT !.at = "list", !.served = reader[r].served, !.req = req]
<1>1. reader[r] \in AllReaders
  BY DEF LogInv, AllSound
<1>2. reader[r].served \in 0..MaxReports /\ reader[r].served < MaxReports
  BY <1>1 DEF AllReaders, StartReport
<1>4. /\ w.at = "list" /\ w.served = reader[r].served /\ w.req = req /\ w.loads = <<>> /\ w.write = FALSE
      /\ w \in AllReaders
  BY <1>2, NoRequestIs DEF AllReaders, Stages
<1>5. reader' = [reader EXCEPT ![r] = w] /\ UNCHANGED <<lines, outcomes>>
  BY DEF StartReport
<1> HIDE DEF w
<1>6. Sound(w, ToSet(outcomes))
  BY <1>2, <1>4, NothingWithin DEF Sound
<1> QED
  BY <1>4, <1>5, <1>6, ReaderMoves

(* ListSnapshots keeps the invariant. *)
LEMMA ListingSnapshots ==
  ASSUME LogInv, NEW r \in Readers, ListSnapshots(r)
  PROVE  LogInv'
<1> DEFINE v == reader[r]
           todo == Listing(v.req, Loads(v.req)[Len(v.loads) + 1])
           loads == Append(v.loads, <<>>)
           work == [v EXCEPT !.todo = todo, !.loads = loads]
           w == Resume(work)
<1>1. Sound(v, ToSet(outcomes)) /\ v.at = "list"
  BY DEF LogInv, AllSound, ListSnapshots
<1>2. /\ v \in AllReaders /\ v.served < MaxReports /\ v.req \in Requests
      /\ Within(v.loads, ToSet(outcomes))
  BY <1>1 DEF Sound
<1>3. v.served \in 0..MaxReports /\ v.loads \in Seq(Seq(TrueOutcomes)) /\ v.steps \in Nat /\ v.write \in BOOLEAN
  BY <1>2 DEF AllReaders
<1>4. todo \in Seq(ListedRows)
  BY <1>2, ListingIs DEF LogInv
<1>5. reader' = [reader EXCEPT ![r] = w] /\ UNCHANGED <<lines, outcomes>>
  BY DEF ListSnapshots
<1>6. loads \in Seq(Seq(TrueOutcomes)) /\ loads # <<>> /\ Within(loads, ToSet(outcomes))
  <2>1. <<>> \in Seq(TrueOutcomes) /\ ToSet(<<>>) \subseteq ToSet(outcomes)
    BY DEF ToSet
  <2> HIDE DEF v
  <2> QED
    BY <1>2, <1>3, <2>1, LoadsGrow
<1>8. v.write = FALSE
  BY <1>1, <1>3 DEF Sound
<1> HIDE DEF v, todo, loads
<1>9. /\ work.served = v.served /\ work.req = v.req /\ work.write = v.write /\ work.loads = loads
      /\ work \in AllReaders
  BY <1>2, <1>4, <1>6 DEF AllReaders
<1> HIDE DEF work
<1>11. Sound(w, ToSet(outcomes)) /\ w.at # "insert"
  BY <1>2, <1>6, <1>8, <1>9, AfterARow
<1> HIDE DEF w
<1> QED
  BY <1>5, <1>11, ReaderMoves

(* CheckRow keeps the invariant. *)
LEMMA Checking ==
  ASSUME LogInv, NEW r \in Readers, CheckRow(r)
  PROVE  LogInv'
<1> DEFINE v == reader[r]
           new == IsNewRow(Evaluate(Head(v.todo)))
           w == [v EXCEPT !.at = "insert", !.write = new]
<1>1. /\ Sound(v, ToSet(outcomes)) /\ v.at = "row" /\ Gradable(Head(v.todo))
      /\ reader' = [reader EXCEPT ![r] = w] /\ UNCHANGED <<lines, outcomes>>
  BY DEF LogInv, AllSound, CheckRow
<1>2. new \in BOOLEAN
  BY DEF IsNewRow
<1>3. ~new => Evaluate(Head(v.todo)) \in ToSet(outcomes)
  BY DEF IsNewRow, ToSet
<1> HIDE DEF v, new
<1>4. /\ v \in AllReaders /\ v.served < MaxReports /\ v.req \in Requests /\ v.todo # <<>> /\ v.loads # <<>>
      /\ Within(v.loads, ToSet(outcomes))
  BY <1>1 DEF Sound
<1>5. /\ w.at = "insert" /\ w.write = new /\ w.served = v.served /\ w.req = v.req /\ w.todo = v.todo
      /\ w.loads = v.loads /\ w \in AllReaders
  BY <1>2, <1>4 DEF AllReaders, Stages
<1> HIDE DEF w
<1>6. Sound(w, ToSet(outcomes))
  BY <1>1, <1>3, <1>4, <1>5 DEF Sound
<1>7. w.write => IsNewRow(Evaluate(Head(w.todo)))
  BY <1>5 DEF new
<1> QED
  BY <1>1, <1>6, <1>7, ReaderMoves

(* InsertRow keeps the invariant. *)
LEMMA Inserting ==
  ASSUME LogInv, NEW r \in Readers, InsertRow(r)
  PROVE  LogInv'
<1> DEFINE v == reader[r]
           o == Evaluate(Head(v.todo))
           loads == Append(Front(v.loads), Append(Last(v.loads), o))
           work == [v EXCEPT !.todo = Tail(v.todo), !.write = FALSE, !.loads = loads]
           w == Resume(work)
           log == ToSet(outcomes')
<1>1. /\ Sound(v, ToSet(outcomes)) /\ v.at = "insert" /\ outcomes \in Seq(TrueOutcomes)
      /\ outcomes' = IF v.write THEN Append(outcomes, o) ELSE outcomes
      /\ reader' = [reader EXCEPT ![r] = w] /\ UNCHANGED lines
  BY DEF LogInv, AllSound, InsertRow
<1>2. /\ v \in AllReaders /\ v.served < MaxReports /\ v.req \in Requests /\ v.todo # <<>> /\ v.loads # <<>>
      /\ Gradable(Head(v.todo)) /\ (v.write \/ Evaluate(Head(v.todo)) \in ToSet(outcomes))
      /\ Within(v.loads, ToSet(outcomes))
  BY <1>1 DEF Sound
<1>3. /\ v.served \in 0..MaxReports /\ v.todo \in Seq(ListedRows) /\ v.loads \in Seq(Seq(TrueOutcomes))
      /\ v.steps \in Nat /\ v.write \in BOOLEAN
  BY <1>2 DEF AllReaders
<1>4. Head(v.todo) \in ListedRows /\ Tail(v.todo) \in Seq(ListedRows)
  BY <1>2, <1>3
<1>5. o \in TrueOutcomes
  BY <1>2, <1>4, EvaluatesTruly
<1>w. v.write => Writes(v, o)
  BY <1>1 DEF Writes
<1>v. v = reader[r]
  OBVIOUS
<1> HIDE DEF v, o
<1>7. ToSet(outcomes) \subseteq log /\ o \in log
  <2>1. CASE v.write
    <3>1. outcomes' = Append(outcomes, o)
      BY <1>1, <2>1
    <3> HIDE DEF log
    <3>2. ToSet(Append(outcomes, o)) = ToSet(outcomes) \cup {o}
      BY <1>1, <1>5, ElementsAppended
    <3> QED
      BY <3>1, <3>2 DEF log
  <2>2. CASE ~v.write
    BY <1>1, <1>2, <2>2 DEF o
  <2> QED
    BY <1>3, <2>1, <2>2
<1>8. Within(v.loads, log)
  BY <1>2, <1>7 DEF Within
<1> HIDE DEF log
<1>9. loads \in Seq(Seq(TrueOutcomes)) /\ loads # <<>> /\ Within(loads, log)
  <2> DEFINE A == Seq(TrueOutcomes)
             front == Front(v.loads)
             last == Append(Last(v.loads), o)
  <2>1. v.loads \in Seq(A)
    BY <1>3
  <2> HIDE DEF A
  <2>2. /\ front \in Seq(A) /\ Within(front, log) /\ Last(v.loads) \in A /\ ToSet(Last(v.loads)) \subseteq log
    BY <1>2, <1>8, <2>1, FrontWithin
  <2>3. last \in A /\ ToSet(last) = ToSet(Last(v.loads)) \cup {o}
    BY <1>5, <2>2, ElementsAppended DEF A
  <2>4. loads = Append(front, last)
    OBVIOUS
  <2> HIDE DEF front, last, loads
  <2>5. ToSet(last) \subseteq log
    BY <1>7, <2>2, <2>3
  <2>6. Append(front, last) \in Seq(Seq(TrueOutcomes)) /\ Append(front, last) # <<>> /\ Within(Append(front, last), log)
    BY <2>2, <2>3, <2>5, LoadsGrow DEF A
  <2> QED
    BY <2>4, <2>6
<1> HIDE DEF loads
<1>10. /\ work.served = v.served /\ work.req = v.req /\ work.write = FALSE /\ work.loads = loads
       /\ work \in AllReaders
  BY <1>2, <1>4, <1>9 DEF AllReaders
<1> HIDE DEF work
<1>11. Sound(w, log) /\ w.at # "insert"
  BY <1>2, <1>9, <1>10, AfterARow
<1> HIDE DEF w
<1>12. CASE v.write
  <2>1. outcomes' = Append(outcomes, o) /\ Sound(w, ToSet(Append(outcomes, o))) /\ Writes(reader[r], o)
    BY <1>1, <1>w, <1>v, <1>11, <1>12 DEF log
  <2> QED
    BY <1>1, <1>5, <1>11, <2>1, ReaderAppends
<1>13. CASE ~v.write
  <2>1. UNCHANGED <<lines, outcomes>> /\ Sound(w, ToSet(outcomes))
    BY <1>1, <1>11, <1>13 DEF log
  <2> QED
    BY <1>1, <1>11, <2>1, ReaderMoves
<1> QED
  BY <1>3, <1>12, <1>13

(* The other steps change neither rows nor loads. *)
LEMMA Failing ==
  ASSUME LogInv, NEW r \in Readers, FailReport(r)
  PROVE  LogInv'
<1> DEFINE v == reader[r]
           w == [NoRequest EXCEPT !.at = "failed", !.served = v.served + 1, !.req = v.req]
<1>1. /\ Sound(v, ToSet(outcomes)) /\ v.at \in {"list", "row", "insert", "persist", "answer"}
      /\ reader' = [reader EXCEPT ![r] = w] /\ UNCHANGED <<lines, outcomes>>
  BY DEF LogInv, AllSound, FailReport
<1>2. v \in AllReaders /\ v.served < MaxReports /\ v.req \in Requests
  BY <1>1 DEF Sound
<1>3. v.served + 1 \in 0..MaxReports
  BY <1>2, OutcomesAssumption DEF AllReaders
<1> HIDE DEF v
<1>5. w.at = "failed" /\ w.loads = <<>> /\ w.write = FALSE /\ w \in AllReaders
  BY <1>2, <1>3, NoRequestIs DEF AllReaders, Stages
<1> HIDE DEF w
<1>6. Sound(w, ToSet(outcomes))
  BY <1>5, NothingWithin DEF Sound
<1> QED
  BY <1>1, <1>5, <1>6, ReaderMoves

(* CloseReport keeps the invariant. *)
LEMMA Closing ==
  ASSUME LogInv, NEW r \in Readers, CloseReport(r)
  PROVE  LogInv'
<1> DEFINE v == reader[r]
           w == [NoRequest EXCEPT !.served = v.served]
<1>1. /\ Sound(v, ToSet(outcomes))
      /\ reader' = [reader EXCEPT ![r] = w] /\ UNCHANGED <<lines, outcomes>>
  BY DEF LogInv, AllSound, CloseReport
<1>2. v.served \in 0..MaxReports
  BY <1>1 DEF Sound, AllReaders
<1> HIDE DEF v
<1>5. w.at = "idle" /\ w.loads = <<>> /\ w.write = FALSE /\ w \in AllReaders
  BY <1>2, NoRequestIs DEF AllReaders, Stages
<1> HIDE DEF w
<1>6. Sound(w, ToSet(outcomes))
  BY <1>5, NothingWithin DEF Sound
<1> QED
  BY <1>1, <1>5, <1>6, ReaderMoves

(* AnswerReport keeps the invariant. *)
LEMMA Answering ==
  ASSUME LogInv, NEW r \in Readers, AnswerReport(r)
  PROVE  LogInv'
<1> DEFINE v == reader[r]
           at == IF Steps(v.req) = <<>> THEN "served" ELSE "persist"
           served == IF Steps(v.req) = <<>> THEN v.served + 1 ELSE v.served
           w == [v EXCEPT !.at = at, !.served = served]
<1>1. Sound(v, ToSet(outcomes)) /\ v.at = "answer" /\ UNCHANGED <<lines, outcomes>>
  BY DEF LogInv, AllSound, AnswerReport
<1>2. reader \in [Readers -> AllReaders]
  BY DEF LogInv, AllSound
<1>3. /\ v \in AllReaders /\ v.served < MaxReports /\ v.req \in Requests /\ ~v.write
      /\ Within(v.loads, ToSet(outcomes))
  BY <1>1 DEF Sound
<1>4. served \in 0..MaxReports /\ (at = "persist" => served < MaxReports) /\ at \in {"served", "persist"}
  BY <1>3, OutcomesAssumption DEF AllReaders
<1>5. reader' = [reader EXCEPT ![r] = w]
  BY <1>2, <1>3 DEF AnswerReport, AllReaders
<1> HIDE DEF v, at, served
<1>6. w.at = at /\ w.served = served /\ w.req = v.req /\ w.loads = v.loads /\ w.write = FALSE /\ w \in AllReaders
  BY <1>3, <1>4 DEF AllReaders, Stages
<1> HIDE DEF w
<1>7. Sound(w, ToSet(outcomes))
  BY <1>3, <1>4, <1>6 DEF Sound
<1>8. w.at # "insert"
  BY <1>4, <1>6
<1> QED
  BY <1>1, <1>5, <1>7, <1>8, ReaderMoves

(* PersistStep keeps the invariant. *)
LEMMA Persisting ==
  ASSUME LogInv, NEW r \in Readers, PersistStep(r)
  PROVE  LogInv'
<1> DEFINE v == reader[r]
           step == v.steps + 1
           last == step = Len(Steps(v.req))
           at == IF last THEN "served" ELSE "persist"
           served == IF last THEN v.served + 1 ELSE v.served
           w == [v EXCEPT !.steps = step, !.at = at, !.served = served]
<1>1. Sound(v, ToSet(outcomes)) /\ v.at = "persist" /\ UNCHANGED <<lines, outcomes>>
  BY DEF LogInv, AllSound, PersistStep
<1>2. reader \in [Readers -> AllReaders]
  BY DEF LogInv, AllSound
<1>3. /\ v \in AllReaders /\ v.served < MaxReports /\ v.req \in Requests /\ ~v.write
      /\ Within(v.loads, ToSet(outcomes))
  BY <1>1 DEF Sound
<1>4. /\ served \in 0..MaxReports /\ (at = "persist" => served < MaxReports) /\ at \in {"served", "persist"}
      /\ step \in Nat
  BY <1>3, OutcomesAssumption DEF AllReaders
<1>5. reader' = [reader EXCEPT ![r] = w]
  BY <1>2, <1>3 DEF PersistStep, AllReaders
<1> HIDE DEF v, at, served, step
<1>6. w.at = at /\ w.served = served /\ w.req = v.req /\ w.loads = v.loads /\ w.write = FALSE /\ w \in AllReaders
  BY <1>3, <1>4 DEF AllReaders, Stages
<1> HIDE DEF w
<1>7. Sound(w, ToSet(outcomes))
  BY <1>3, <1>4, <1>6 DEF Sound
<1>8. w.at # "insert"
  BY <1>4, <1>6
<1> QED
  BY <1>1, <1>5, <1>7, <1>8, ReaderMoves

(* The log and what is in flight are sound whatever overlaps. *)
LEMMA LogInvHolds == OutSpec => []LogInv
<1>1. OutInit => LogInv
  <2> SUFFICES ASSUME OutInit PROVE LogInv
    OBVIOUS
  <2>1. outcomes \in Seq(TrueOutcomes) /\ ToSet(outcomes) = {} /\ DOMAIN outcomes = {}
    BY DEF OutInit, ToSet
  <2>2. LinesOK
    <3>1. lines = [s \in Snapshots |-> <<>>] /\ <<>> \in Seq(AllLines)
      BY DEF OutInit
    <3>2. \A s \in Snapshots : Len(lines[s]) = 0 /\ MaxLines[s] \in Nat
      BY <3>1, OutcomesAssumption
    <3> QED
      BY <3>1, <3>2 DEF LinesOK
  <2>3. AllSound
    <3>1. reader = [r \in Readers |-> NoRequest]
      BY DEF OutInit
    <3>2. Sound(NoRequest, ToSet(outcomes))
      BY NoRequestIs, NothingWithin DEF Sound
    <3> QED
      BY <3>1, <3>2, NoRequestIs DEF AllSound
  <2>4. CopiesAndWriters
    <3> SUFFICES ASSUME NEW o PROVE Cardinality(CopiesOf(o)) + Cardinality(WritersOf(o)) <= Cardinality(Readers)
      BY DEF CopiesAndWriters
    <3>1. CopiesOf(o) = {}
      BY <2>1 DEF CopiesOf
    <3>2. Cardinality(CopiesOf(o)) = 0
      BY <3>1, FS_EmptySet
    <3>3. Cardinality(WritersOf(o)) \in Nat /\ Cardinality(WritersOf(o)) <= Cardinality(Readers) /\ Cardinality(Readers) \in Nat
      BY WritersAreFew
    <3> QED
      BY <3>2, <3>3
  <2> QED
    BY <2>1, <2>2, <2>3, <2>4 DEF LogInv
<1>2. LogInv /\ [OutNext]_outVars => LogInv'
  <2> SUFFICES ASSUME LogInv, [OutNext]_outVars PROVE LogInv'
    OBVIOUS
  <2>1. CASE UNCHANGED outVars
    <3>1. UNCHANGED <<lines, outcomes, reader>>
      BY <2>1 DEF outVars
    <3>2. LinesOK' /\ (outcomes \in Seq(TrueOutcomes))' /\ AllSound' /\ CopiesAndWriters'
      BY <3>1 DEF LogInv, LinesOK, AllSound, CopiesAndWriters, CopiesOf, WritersOf, Sound
    <3> QED
      BY <3>2 DEF LogInv
  <2>2. ASSUME NEW s \in Snapshots, NEW quote \in Quotes[s], CaptureLine(s, quote) PROVE LogInv'
    BY <2>2, Capturing
  <2>3. ASSUME NEW r \in Readers, NEW req \in Requests, StartReport(r, req) PROVE LogInv'
    BY <2>3, Starting
  <2>4. ASSUME NEW r \in Readers, ListSnapshots(r) PROVE LogInv'
    BY <2>4, ListingSnapshots
  <2>5. ASSUME NEW r \in Readers, CheckRow(r) PROVE LogInv'
    BY <2>5, Checking
  <2>6. ASSUME NEW r \in Readers, InsertRow(r) PROVE LogInv'
    BY <2>6, Inserting
  <2>7. ASSUME NEW r \in Readers, FailReport(r) PROVE LogInv'
    BY <2>7, Failing
  <2>8. ASSUME NEW r \in Readers, AnswerReport(r) PROVE LogInv'
    BY <2>8, Answering
  <2>9. ASSUME NEW r \in Readers, PersistStep(r) PROVE LogInv'
    BY <2>9, Persisting
  <2>10. ASSUME NEW r \in Readers, CloseReport(r) PROVE LogInv'
    BY <2>10, Closing
  <2> QED
    BY <2>1, <2>2, <2>3, <2>4, <2>5, <2>6, <2>7, <2>8, <2>9, <2>10 DEF OutNext
<1> QED
  BY <1>1, <1>2, PTL DEF OutSpec

(* Rows of the log are of snapshots, and settled exactly when they have a  *)
(* result: normalizePerformanceStatus.                                     *)
THEOREM OutTypeCorrect == OutSpec => []OutTypeOK
<1>1. LogInv => OutTypeOK
  <2> SUFFICES ASSUME LogInv PROVE OutTypeOK
    OBVIOUS
  <2>1. \A s \in Snapshots : Len(lines[s]) <= MaxLines[s]
    BY DEF LogInv, LinesOK
  <2>2. ASSUME NEW i \in DOMAIN outcomes
        PROVE  /\ outcomes[i].snapshot \in Snapshots
               /\ outcomes[i].status \in {"close_unavailable", "pending_outcome", "settled"}
               /\ outcomes[i].status = "settled" <=> IsSettledResult(outcomes[i].result)
    <3>1. outcomes[i] \in TrueOutcomes
      BY DEF LogInv
    <3> QED
      BY <3>1 DEF TrueOutcomes, AllOutcomes, IsTrue
  <2>3. \A r \in Readers : reader[r].served \in 0..MaxReports
    BY DEF LogInv, AllSound, AllReaders
  <2> QED
    BY <2>1, <2>2, <2>3 DEF OutTypeOK
<1> QED
  BY <1>1, LogInvHolds, PTL

(* What two true rows of opposite sides say of each other. *)
LEMMA GradesMirror ==
  ASSUME NEW market, NEW s \in Sides, NEW t \in Sides, s # t, NEW score \in Int \X Int
  PROVE  GradeOutcome(market, t, score) = Mirrored(GradeOutcome(market, s, score))
<1>1. score[1] \in Int /\ score[2] \in Int /\ score # <<>>
  OBVIOUS
<1>2. Mirrored("unknown") = "unknown" /\ Mirrored("win") = "loss" /\ Mirrored("loss") = "win" /\ Mirrored("push") = "push"
  BY DEF Mirrored
<1>3. CompareScores(score[2], score[1]) = Mirrored(CompareScores(score[1], score[2]))
  BY <1>1, <1>2 DEF CompareScores
<1>4. CompareScores(score[1], score[2]) = Mirrored(CompareScores(score[2], score[1]))
  BY <1>1, <1>2 DEF CompareScores
<1>5. s \in {"home", "away"} /\ t \in {"home", "away"}
  BY DEF Sides
<1> QED
  BY <1>1, <1>2, <1>3, <1>4, <1>5 DEF GradeOutcome

(* Pages show what the log holds, no row is in it more often than there are*)
(* requests in flight, and opposite sides of a game mirror each other, with*)
(* any number of overlapping requests: InsertRecommendationOutcomeIfChanged*)
(* without a unique index.                                                 *)
THEOREM LogStaysTrue == OutSpec => []LogIsTrue
<1>1. LogInv => LogIsTrue
  <2> SUFFICES ASSUME LogInv PROVE LogIsTrue
    OBVIOUS
  <2>1. ShownIsLogged
    <3> SUFFICES ASSUME NEW r \in Readers, NEW load \in ToSet(reader[r].loads), NEW o \in ToSet(load)
                 PROVE  o \in ToSet(outcomes)
      BY DEF ShownIsLogged
    <3>1. Within(reader[r].loads, ToSet(outcomes))
      BY DEF LogInv, AllSound, Sound
    <3> QED
      BY <3>1 DEF Within
  <2>2. CopiesBounded
    <3> SUFFICES ASSUME NEW i \in DOMAIN outcomes
                 PROVE  Cardinality(CopiesOf(outcomes[i])) <= Cardinality(Readers)
      BY DEF CopiesBounded, CopiesOf
    <3> DEFINE o == outcomes[i]
    <3>1. Cardinality(CopiesOf(o)) + Cardinality(WritersOf(o)) <= Cardinality(Readers)
      BY DEF LogInv, CopiesAndWriters
    <3>2. Cardinality(CopiesOf(o)) \in Nat
      BY CopiesAreFinite DEF LogInv
    <3>3. Cardinality(WritersOf(o)) \in Nat /\ Cardinality(Readers) \in Nat
      BY WritersAreFew
    <3> QED
      BY <3>1, <3>2, <3>3
  <2>3. OppositeSidesMirror
    <3> SUFFICES ASSUME NEW i \in DOMAIN outcomes, NEW j \in DOMAIN outcomes,
                        LET a == Advice[outcomes[i].snapshot]
                            b == Advice[outcomes[j].snapshot]
                        IN  a.game = b.game /\ a.market = b.market /\ a.side # b.side /\ a.home = b.home
                 PROVE  LET o == outcomes[i]
                            p == outcomes[j]
                        IN  /\ (o.close # <<>> /\ p.close # <<>> /\ o.close[1] + p.close[1] = 100)
                                 => o.clv[1] + p.clv[1] = 0
                            /\ (o.status = "settled" /\ p.status = "settled") => p.result = Mirrored(o.result)
      BY DEF OppositeSidesMirror
    <3> DEFINE o == outcomes[i]
               p == outcomes[j]
               a == Advice[o.snapshot]
               b == Advice[p.snapshot]
    <3>1. o \in TrueOutcomes /\ p \in TrueOutcomes
      BY DEF LogInv
    <3>2. a.game = b.game /\ a.market = b.market /\ a.side # b.side /\ a.home = b.home
      OBVIOUS
    <3> HIDE DEF o, p
    <3>3. /\ o.snapshot \in Snapshots /\ p.snapshot \in Snapshots /\ o.close \in Seq(Int) /\ p.close \in Seq(Int)
          /\ IsTrue(o) /\ IsTrue(p)
      BY <3>1 DEF TrueOutcomes, AllOutcomes
    <3>4. a \in AllAdvice /\ b \in AllAdvice /\ FinalScore[o.snapshot] \in Int \X Int
          /\ FinalScore[o.snapshot] = FinalScore[p.snapshot]
      BY <3>2, <3>3, OutcomesAssumption DEF Snapshots
    <3> HIDE DEF a, b
    <3>5. a.home \in Int /\ a.side \in Sides /\ b.side \in Sides
      <4>1. a.home \in 0..100
        BY <3>4 DEF AllAdvice
      <4>2. a.side \in Sides /\ b.side \in Sides
        <5> HIDE DEF Sides
        <5> QED
          BY <3>3 DEF IsTrue, a, b
      <4> QED
        BY <4>1, <4>2
    <3>6. (o.close # <<>> /\ p.close # <<>> /\ o.close[1] + p.close[1] = 100) => o.clv[1] + p.clv[1] = 0
      <4> SUFFICES ASSUME o.close # <<>>, p.close # <<>>, o.close[1] + p.close[1] = 100
                   PROVE  o.clv[1] + p.clv[1] = 0
        OBVIOUS
      <4>1. o.clv = <<o.close[1] - SideChance(a.side, a.home)>> /\ p.clv = <<p.close[1] - SideChance(b.side, b.home)>>
        BY <3>3 DEF IsTrue, a, b
      <4>2. o.close[1] \in Int /\ p.close[1] \in Int
        BY <3>3
      <4>3. SideChance(a.side, a.home) + SideChance(b.side, b.home) = 100
            /\ SideChance(a.side, a.home) \in Int /\ SideChance(b.side, b.home) \in Int
        BY <3>2, <3>5 DEF SideChance, Sides
      <4> HIDE DEF SideChance
      <4> QED
        BY <4>1, <4>2, <4>3
    <3>7. (o.status = "settled" /\ p.status = "settled") => p.result = Mirrored(o.result)
      <4> SUFFICES ASSUME o.status = "settled", p.status = "settled" PROVE p.result = Mirrored(o.result)
        OBVIOUS
      <4>1. o.result # "unknown" /\ p.result # "unknown"
        BY <3>3 DEF IsTrue, IsSettledResult
      <4>2. /\ o.result = GradeOutcome(a.market, a.side, FinalScore[o.snapshot])
            /\ p.result = GradeOutcome(b.market, b.side, FinalScore[p.snapshot])
        BY <3>3, <4>1 DEF IsTrue, a, b
      <4>3. GradeOutcome(a.market, b.side, FinalScore[o.snapshot])
              = Mirrored(GradeOutcome(a.market, a.side, FinalScore[o.snapshot]))
        BY <3>2, <3>4, <3>5, GradesMirror
      <4> QED
        BY <3>2, <3>4, <4>2, <4>3
    <3> QED
      BY <3>6, <3>7 DEF o, p
  <2> QED
    BY <2>1, <2>2, <2>3 DEF LogIsTrue
<1> QED
  BY <1>1, LogInvHolds, PTL

-----------------------------------------------------------------------------
(* What takes a result back. *)

(* A row more in the log is a row more of its snapshot. *)
LEMMA OutcomesOfAppended ==
  ASSUME outcomes \in Seq(TrueOutcomes), NEW o, o \in TrueOutcomes, outcomes' = Append(outcomes, o), NEW s
  PROVE  OutcomesOf(s)' = IF o.snapshot = s THEN Append(OutcomesOf(s), o) ELSE OutcomesOf(s)
<1> DEFINE n == Len(outcomes)
           P == {i \in DOMAIN outcomes : outcomes[i].snapshot = s}
           more == Append(outcomes, o)
           Q == {i \in DOMAIN more : more[i].snapshot = s}
<1>1. /\ n \in Nat /\ DOMAIN outcomes = 1..n /\ DOMAIN more = 1..(n + 1)
      /\ more[n + 1] = o /\ \A i \in 1..n : more[i] = outcomes[i]
  OBVIOUS
<1>2. OutcomesOf(s) = Where(outcomes, P) /\ OutcomesOf(s)' = Where(more, Q)
  BY DEF OutcomesOf
<1> HIDE DEF more, n
<1>3. (\A i \in 1..n : i \in P <=> i \in Q) /\ (n + 1 \in Q <=> o.snapshot = s)
  <2>1. (1..n) \subseteq 1..(n + 1) /\ n + 1 \in 1..(n + 1)
    BY <1>1
  <2> QED
    BY <1>1, <2>1
<1> HIDE DEF P, Q
<1>4. Where(more, Q) = IF n + 1 \in Q THEN Append(Where(outcomes, P), o) ELSE Where(outcomes, P)
  BY <1>3, WhereAppended DEF more, n
<1> QED
  BY <1>2, <1>3, <1>4

(* A result that the listed outcome has is passed on. *)
LEMMA SettledPassesOn ==
  ASSUME NEW row, row \in ListedRows, Gradable(row), row.latest # <<>>, row.latest[1].status = "settled"
  PROVE  Evaluate(row).status = "settled"
<1> DEFINE l == row.latest[1]
           o == Evaluate(row)
<1>1. l \in TrueOutcomes
  BY DEF ListedRows
<1>2. l.result # "unknown" /\ IsSettledResult(l.result) /\ l.result \in Results
  BY <1>1 DEF TrueOutcomes, AllOutcomes, IsTrue, IsSettledResult
<1>3. o \in TrueOutcomes
  BY EvaluatesTruly
<1>4. o.result # "unknown" /\ o.result \in Results
  <2> DEFINE a == Advice[row.snapshot]
             kept == row.line = <<>> /\ row.latest # <<>> /\ row.latest[1].close # <<>>
             close == IF row.line # <<>> THEN <<row.line[1].close>> ELSE IF kept THEN row.latest[1].close ELSE <<>>
             first == ComputePerformance(a.market, a.side, a.home, close, ScoresOf(row))
             perf == Recall(first, row)
  <2>1. o.result = perf.result
    BY DEF Evaluate
  <2> HIDE DEF first
  <2>2. perf.result = IF first.result = "unknown" THEN l.result ELSE first.result
    BY DEF Recall
  <2>3. o.result \in Results
    BY <1>3 DEF TrueOutcomes, AllOutcomes
  <2> QED
    BY <1>2, <2>1, <2>2, <2>3
<1>5. IsSettledResult(o.result)
  BY <1>4 DEF IsSettledResult, Results
<1> QED
  BY <1>3, <1>5 DEF TrueOutcomes, IsTrue

(* A row that takes a settled result back was evaluated from a stale listing.*)
LEMMA UnsettledByStale ==
  ASSUME LogInv, NEW r \in Readers, InsertRow(r), outcomes' # outcomes, NEW s \in Snapshots,
         LatestSettled(s), ~LatestSettled(s)'
  PROVE  /\ reader[r].at = "insert" /\ Head(reader[r].todo).snapshot = s
         /\ Head(reader[r].todo).latest # Newest(OutcomesOf(s))
<1> DEFINE row == Head(reader[r].todo)
           o == Evaluate(row)
           own == OutcomesOf(s)
<1>1. /\ Sound(reader[r], ToSet(outcomes)) /\ reader[r].at = "insert" /\ outcomes \in Seq(TrueOutcomes)
      /\ outcomes' = Append(outcomes, o)
  BY DEF LogInv, AllSound, InsertRow
<1>2. reader[r].todo \in Seq(ListedRows) /\ reader[r].todo # <<>> /\ Gradable(row)
  BY <1>1 DEF Sound, AllReaders
<1>3. row \in ListedRows
  BY <1>2
<1>4. o \in TrueOutcomes /\ o.snapshot = row.snapshot
  BY <1>2, <1>3, EvaluatesTruly
<1> HIDE DEF row, o
<1>5. OutcomesOf(s)' = IF o.snapshot = s THEN Append(own, o) ELSE own
  BY <1>1, <1>4, OutcomesOfAppended
<1>6. own \in Seq(TrueOutcomes)
  BY <1>1, OutcomesOfIs
<1>7. Newest(own) # <<>> /\ Last(own).status = "settled"
  BY DEF LatestSettled
<1>8. ~(Newest(OutcomesOf(s)') # <<>> /\ Last(OutcomesOf(s)').status = "settled")
  BY DEF LatestSettled, Newest
<1> HIDE DEF own
<1>9. o.snapshot = s
  BY <1>5, <1>7, <1>8
<1>10. o.status # "settled"
  <2>1. Len(Append(own, o)) = Len(own) + 1 /\ Append(own, o)[Len(own) + 1] = o /\ Append(own, o) # <<>>
    BY <1>6
  <2>2. Last(Append(own, o)) = o /\ Newest(Append(own, o)) # <<>>
    BY <2>1 DEF Last, Newest
  <2> QED
    BY <1>5, <1>8, <1>9, <2>2
<1>11. ASSUME row.latest = Newest(own) PROVE FALSE
  <2>1. own # <<>>
    BY <1>7 DEF Newest
  <2>2. Newest(own) = <<Last(own)>>
    BY <2>1 DEF Newest
  <2>3. row.latest # <<>> /\ row.latest[1].status = "settled"
    BY <1>7, <1>11, <2>2
  <2> QED
    BY <1>2, <1>3, <1>10, <2>3, SettledPassesOn DEF o
<1> QED
  BY <1>1, <1>4, <1>9, <1>11 DEF row, own

(* Only a request that listed the snapshot before its newest row takes a   *)
(* settled result back; one that has seen it passes it on: Recall.         *)
THEOREM StaleReadersAlone == OutSpec => OnlyStaleReadersUnsettle
<1> DEFINE A == \A s \in Snapshots : (LatestSettled(s) /\ ~LatestSettled(s)') =>
                  \E r \in Readers : /\ reader[r].at = "insert" /\ Head(reader[r].todo).snapshot = s
                                     /\ Head(reader[r].todo).latest # Newest(OutcomesOf(s))
<1>1. LogInv /\ [OutNext]_outVars => [A]_outcomes
  <2> SUFFICES ASSUME LogInv, [OutNext]_outVars, outcomes' # outcomes, NEW s \in Snapshots,
                      LatestSettled(s), ~LatestSettled(s)'
               PROVE  \E r \in Readers : /\ reader[r].at = "insert" /\ Head(reader[r].todo).snapshot = s
                                         /\ Head(reader[r].todo).latest # Newest(OutcomesOf(s))
    OBVIOUS
  <2>1. \E r \in Readers : InsertRow(r)
    BY DEF OutNext, outVars, CaptureLine, StartReport, ListSnapshots, CheckRow, FailReport, AnswerReport,
           PersistStep, CloseReport
  <2> QED
    BY <2>1, UnsettledByStale
<1> QED
  BY <1>1, LogInvHolds, PTL DEF OutSpec, OnlyStaleReadersUnsettle

-----------------------------------------------------------------------------
(* Pages, row by row. *)

AtWork == {"list", "row", "insert", "answer", "persist", "served"}

Splits(page, load, rest) ==
  /\ Len(load) + Len(rest) = Len(page)
  /\ \A k \in 1..Len(load) : load[k].snapshot = page[k]
  /\ \A k \in 1..Len(rest) : rest[k].snapshot = page[Len(load) + k]

RestOf(w, i) == IF i = Len(w.loads) THEN w.todo ELSE <<>>
PageOf(w, i) == Page(w.req, Loads(w.req)[i])

(* What has been loaded is what was listed, page by page, and row by row.  *)
Paged(w) ==
  /\ Len(w.loads) <= Len(Loads(w.req))
  /\ w.at = "list" => Len(w.loads) < Len(Loads(w.req)) /\ w.todo = <<>>
  /\ w.at \in {"answer", "persist", "served"} => Len(w.loads) = Len(Loads(w.req)) /\ w.todo = <<>>
  /\ \A i \in 1..Len(w.loads) : Splits(PageOf(w, i), w.loads[i], RestOf(w, i))

AllPaged == \A r \in Readers : reader[r].at \in AtWork => Paged(reader[r])

(* The windows of a request and the listings it loads for them. *)
LEMMA StepsAre ==
  ASSUME NEW req, req \in Requests
  PROVE  /\ Len(Steps(req)) \in Nat /\ DOMAIN Steps(req) = 1..Len(Steps(req))
         /\ Len(Loads(req)) \in Nat /\ Len(Loads(req)) > 0 /\ DOMAIN Loads(req) = 1..Len(Loads(req))
         /\ Steps(req) = <<>> <=> Len(Steps(req)) = 0
         /\ Steps(req) = <<>> => Loads(req) = <<req.current>>
         /\ \A i \in 1..Len(Steps(req)) :
              /\ 2 * i - 1 \in 1..Len(Loads(req)) /\ 2 * i \in 1..Len(Loads(req))
              /\ Loads(req)[2 * i - 1] = Steps(req)[i].current /\ Loads(req)[2 * i] = Steps(req)[i].baseline
<1> DEFINE s == Steps(req)
           n == Len(s)
<1>1. req \in AllRequests
  BY OutcomesAssumption
<1>2. n \in Nat /\ DOMAIN s = 1..n /\ (s = <<>> <=> n = 0)
  <2>1. CASE req.kind = "point"
    <3>1. s = <<[current |-> req.current, baseline |-> req.baseline]>>
      BY <2>1 DEF Steps
    <3> HIDE DEF s
    <3> QED
      BY <3>1
  <2>2. CASE req.kind = "rolling"
    <3>1. s = RollingWindows(req.anchor, req.days, req.steps)
      BY <2>2 DEF Steps
    <3>2. req.steps \in Nat /\ req.steps > 0
      BY <1>1 DEF AllRequests, Counts
    <3>3. DOMAIN s = 1..req.steps
      BY <3>1 DEF RollingWindows
    <3>4. s = [i \in 1..req.steps |-> s[i]]
      BY <3>1 DEF RollingWindows
    <3> HIDE DEF s
    <3> QED
      BY <3>2, <3>3, <3>4
  <2>3. CASE req.kind \notin {"point", "rolling"}
    <3>1. s = <<>>
      BY <2>3 DEF Steps
    <3> HIDE DEF s
    <3> QED
      BY <3>1
  <2> QED
    BY <2>1, <2>2, <2>3
<1> HIDE DEF s
<1>3. CASE s = <<>>
  <2>1. Loads(req) = <<req.current>>
    BY <1>3 DEF Loads, s
  <2> QED
    BY <1>2, <1>3, <2>1 DEF s
<1>4. CASE s # <<>>
  <2> DEFINE L == [i \in 1..(2 * n) |-> IF i % 2 = 1 THEN s[(i + 1) \div 2].current ELSE s[i \div 2].baseline]
  <2>1. Loads(req) = L
    BY <1>4 DEF Loads, s
  <2>2. n > 0 /\ DOMAIN L = 1..(2 * n) /\ Len(L) = 2 * n
    BY <1>2, <1>4
  <2>3. ASSUME NEW i \in 1..n
        PROVE  /\ 2 * i - 1 \in 1..(2 * n) /\ 2 * i \in 1..(2 * n)
               /\ L[2 * i - 1] = s[i].current /\ L[2 * i] = s[i].baseline
    <3>1. 2 * i - 1 \in 1..(2 * n) /\ 2 * i \in 1..(2 * n)
      BY <1>2
    <3>2. (2 * i - 1) % 2 = 1 /\ (2 * i) % 2 # 1 /\ ((2 * i - 1) + 1) \div 2 = i /\ (2 * i) \div 2 = i
      BY <1>2
    <3> QED
      BY <3>1, <3>2
  <2> HIDE DEF L
  <2>4. 2 * n \in Nat /\ 2 * n > 0
    BY <1>2, <2>2
  <2> QED
    BY <1>2, <1>4, <2>1, <2>2, <2>3, <2>4 DEF s
<1> QED
  BY <1>3, <1>4

(* A listing has the snapshots of its page, in their order. *)
LEMMA ListingMirrorsPage ==
  ASSUME NEW req, req \in Requests, NEW window
  PROVE  Splits(Page(req, window), <<>>, Listing(req, window))
<1> DEFINE page == Page(req, window)
           rest == Listing(req, window)
<1>1. page \in Seq(Wanted(req, window))
  BY PageIs
<1>2. DOMAIN rest = DOMAIN page /\ \A i \in DOMAIN page : rest[i].snapshot = page[i]
  BY DEF Listing
<1>3. rest = [i \in 1..Len(page) |-> rest[i]]
  BY <1>1 DEF Listing
<1> HIDE DEF page, rest
<1>4. Len(page) \in Nat /\ DOMAIN page = 1..Len(page) /\ Len(rest) = Len(page) /\ Len(<<>>) = 0
  BY <1>1, <1>3
<1> QED
  BY <1>2, <1>4 DEF Splits, page, rest

(* A row that has been taken leaves its page and joins its load. *)
LEMMA RowTaken ==
  ASSUME NEW A, NEW B, NEW page, NEW load, load \in Seq(A), NEW rest, rest \in Seq(B), rest # <<>>, Splits(page, load, rest),
         NEW o, o \in A, o.snapshot = Head(rest).snapshot
  PROVE  Splits(page, Append(load, o), Tail(rest))
<1> DEFINE n == Len(load)
           more == Append(load, o)
           less == Tail(rest)
<1>1. /\ n \in Nat /\ Len(rest) \in Nat /\ Len(rest) > 0 /\ Len(more) = n + 1 /\ Len(less) = Len(rest) - 1
      /\ more[n + 1] = o /\ (\A k \in 1..n : more[k] = load[k])
      /\ Head(rest) = rest[1] /\ \A k \in 1..(Len(rest) - 1) : less[k] = rest[k + 1]
  OBVIOUS
<1>2. /\ n + Len(rest) = Len(page)
      /\ \A k \in 1..n : load[k].snapshot = page[k]
      /\ \A k \in 1..Len(rest) : rest[k].snapshot = page[n + k]
  BY DEF Splits
<1> HIDE DEF n, more, less
<1>3. (n + 1) + (Len(rest) - 1) = n + Len(rest)
  BY <1>1
<1>4. \A k \in 1..(n + 1) : more[k].snapshot = page[k]
  <2> SUFFICES ASSUME NEW k \in 1..(n + 1) PROVE more[k].snapshot = page[k]
    OBVIOUS
  <2>1. CASE k = n + 1
    <3>1. 1 \in 1..Len(rest)
      BY <1>1
    <3>2. rest[1].snapshot = page[n + 1]
      BY <1>2, <3>1
    <3> QED
      BY <1>1, <2>1, <3>2
  <2>2. CASE k # n + 1
    <3>1. k \in 1..n
      BY <1>1, <2>2
    <3> QED
      BY <1>1, <1>2, <3>1
  <2> QED
    BY <2>1, <2>2
<1>5. \A k \in 1..(Len(rest) - 1) : less[k].snapshot = page[(n + 1) + k]
  <2> SUFFICES ASSUME NEW k \in 1..(Len(rest) - 1) PROVE less[k].snapshot = page[(n + 1) + k]
    OBVIOUS
  <2>1. k + 1 \in 1..Len(rest) /\ n + (k + 1) = (n + 1) + k
    BY <1>1
  <2>2. rest[k + 1].snapshot = page[n + (k + 1)]
    BY <1>2, <2>1
  <2> QED
    BY <1>1, <2>1, <2>2
<1>6. Len(more) + Len(less) = Len(page)
  BY <1>1, <1>2, <1>3
<1>7. \A k \in 1..Len(more) : more[k].snapshot = page[k]
  BY <1>1, <1>4
<1>8. \A k \in 1..Len(less) : less[k].snapshot = page[Len(more) + k]
  BY <1>1, <1>5
<1> QED
  BY <1>6, <1>7, <1>8 DEF Splits, more, less

(* A step of one reader. *)
LEMMA PagedMoves ==
  ASSUME LogInv, AllPaged, NEW r \in Readers, NEW w, reader' = [reader EXCEPT ![r] = w], w.at \in AtWork => Paged(w)
  PROVE  AllPaged'
<1>1. reader \in [Readers -> AllReaders]
  BY DEF LogInv, AllSound
<1>2. \A q \in Readers : reader'[q] = IF q = r THEN w ELSE reader[q]
  BY <1>1
<1>3. \A q \in Readers : reader'[q].at \in AtWork => Paged(reader'[q])
  BY <1>2 DEF AllPaged
<1> QED
  BY <1>3 DEF AllPaged, Paged, PageOf, RestOf, Splits

(* StartReport. *)
LEMMA PagedStart ==
  ASSUME LogInv, AllPaged, NEW r \in Readers, NEW req \in Requests, StartReport(r, req)
  PROVE  AllPaged'
<1> DEFINE w == [NoRequest EXCEPT !.at = "list", !.served = reader[r].served, !.req = req]
<1>1. w.at = "list" /\ w.req = req /\ w.loads = <<>> /\ w.todo = <<>>
  BY DEF NoRequest
<1>2. reader' = [reader EXCEPT ![r] = w]
  BY DEF StartReport
<1> HIDE DEF w
<1>3. Len(Loads(req)) \in Nat /\ Len(Loads(req)) > 0 /\ Len(<<>>) = 0
  BY StepsAre
<1>4. Paged(w)
  BY <1>1, <1>3 DEF Paged
<1> QED
  BY <1>2, <1>4, PagedMoves

(* What is at work, and where it goes on. *)
LEMMA PagedResume ==
  ASSUME NEW w, w \in AllReaders, w.loads # <<>>, Len(w.loads) <= Len(Loads(w.req)), w.req \in Requests,
         \A i \in 1..Len(w.loads) : Splits(PageOf(w, i), w.loads[i], RestOf(w, i))
  PROVE  Paged(Resume(w))
<1> DEFINE v == Resume(w)
<1>1. v = [w EXCEPT !.at = After(w)]
  BY DEF Resume
<1>2. v.at = After(w) /\ v.req = w.req /\ v.todo = w.todo /\ v.loads = w.loads
  BY <1>1 DEF AllReaders
<1> HIDE DEF v
<1>3. Len(w.loads) \in Nat /\ Len(Loads(w.req)) \in Nat
  BY StepsAre DEF AllReaders
<1>4. /\ After(w) = "list" => w.todo = <<>> /\ Len(w.loads) < Len(Loads(w.req))
      /\ After(w) \in {"answer", "persist", "served"} => w.todo = <<>> /\ Len(w.loads) = Len(Loads(w.req))
  BY <1>3 DEF After
<1>5. \A i \in 1..Len(v.loads) : Splits(PageOf(v, i), v.loads[i], RestOf(v, i))
  BY <1>2 DEF PageOf, RestOf
<1>6. Paged(v)
  BY <1>2, <1>4, <1>5 DEF Paged
<1> QED
  BY <1>6 DEF v

(* ListSnapshots. *)
LEMMA PagedListing ==
  ASSUME LogInv, AllPaged, NEW r \in Readers, ListSnapshots(r)
  PROVE  AllPaged'
<1> DEFINE v == reader[r]
           n == Len(v.loads)
           window == Loads(v.req)[n + 1]
           todo == Listing(v.req, window)
           loads == Append(v.loads, <<>>)
           work == [v EXCEPT !.todo = todo, !.loads = loads]
           w == Resume(work)
<1>1. Sound(v, ToSet(outcomes)) /\ v.at = "list" /\ Paged(v) /\ reader' = [reader EXCEPT ![r] = w]
  BY DEF LogInv, AllSound, ListSnapshots, AllPaged, AtWork
<1>2. v \in AllReaders /\ v.req \in Requests
  BY <1>1 DEF Sound
<1>3. v.loads \in Seq(Seq(TrueOutcomes))
  BY <1>2 DEF AllReaders
<1>4. todo \in Seq(ListedRows) /\ Splits(Page(v.req, window), <<>>, todo)
  BY <1>2, ListingIs, ListingMirrorsPage DEF LogInv
<1> HIDE DEF v, todo
<1>5. loads \in Seq(Seq(TrueOutcomes)) /\ Len(loads) = n + 1 /\ n \in Nat /\ loads[n + 1] = <<>>
      /\ \A i \in 1..n : loads[i] = v.loads[i]
  <2>1. <<>> \in Seq(TrueOutcomes)
    OBVIOUS
  <2> DEFINE B == Seq(TrueOutcomes)
  <2>2. v.loads \in Seq(B) /\ <<>> \in B
    BY <1>3
  <2> HIDE DEF B
  <2>3. Append(v.loads, <<>>) \in Seq(B)
    BY <2>2
  <2> QED
    BY <2>2, <2>3 DEF B
<1> HIDE DEF loads
<1>6. work.todo = todo /\ work.loads = loads /\ work.req = v.req /\ work \in AllReaders
  BY <1>2, <1>4, <1>5 DEF AllReaders
<1> HIDE DEF work
<1>7. /\ n < Len(Loads(v.req)) /\ v.todo = <<>>
      /\ \A i \in 1..n : Splits(PageOf(v, i), v.loads[i], RestOf(v, i))
  BY <1>1 DEF Paged
<1>8. Len(Loads(v.req)) \in Nat
  BY <1>2, StepsAre
<1>9. \A i \in 1..Len(work.loads) : Splits(PageOf(work, i), work.loads[i], RestOf(work, i))
  <2> SUFFICES ASSUME NEW i \in 1..(n + 1) PROVE Splits(PageOf(work, i), work.loads[i], RestOf(work, i))
    BY <1>5, <1>6
  <2>1. CASE i = n + 1
    BY <1>4, <1>5, <1>6, <2>1 DEF PageOf, RestOf
  <2>2. CASE i # n + 1
    <3>1. i \in 1..n
      BY <1>5, <2>2
    <3>2. RestOf(v, i) = <<>> /\ RestOf(work, i) = <<>> /\ PageOf(work, i) = PageOf(v, i)
      BY <1>5, <1>6, <1>7, <2>2 DEF RestOf, PageOf
    <3>3. Splits(PageOf(v, i), v.loads[i], RestOf(v, i))
      BY <1>7, <3>1
    <3> QED
      BY <1>5, <1>6, <3>1, <3>2, <3>3
  <2> QED
    BY <2>1, <2>2
<1>10. work.loads # <<>> /\ Len(work.loads) <= Len(Loads(work.req))
  BY <1>5, <1>6, <1>7, <1>8
<1>11. Paged(w)
  BY <1>2, <1>6, <1>9, <1>10, PagedResume
<1> HIDE DEF w
<1> QED
  BY <1>1, <1>11, PagedMoves DEF v

(* InsertRow. *)
LEMMA PagedInsert ==
  ASSUME LogInv, AllPaged, NEW r \in Readers, InsertRow(r)
  PROVE  AllPaged'
<1> DEFINE v == reader[r]
           o == Evaluate(Head(v.todo))
           n == Len(v.loads)
           last == Append(Last(v.loads), o)
           loads == Append(Front(v.loads), last)
           todo == Tail(v.todo)
           work == [v EXCEPT !.todo = todo, !.write = FALSE, !.loads = loads]
           w == Resume(work)
<1>1. Sound(v, ToSet(outcomes)) /\ v.at = "insert" /\ Paged(v) /\ reader' = [reader EXCEPT ![r] = w]
  BY DEF LogInv, AllSound, InsertRow, AllPaged, AtWork
<1>2. v \in AllReaders /\ v.req \in Requests /\ v.todo # <<>> /\ v.loads # <<>> /\ Gradable(Head(v.todo))
  BY <1>1 DEF Sound
<1>3. v.loads \in Seq(Seq(TrueOutcomes)) /\ v.todo \in Seq(ListedRows)
  BY <1>2 DEF AllReaders
<1>4. Head(v.todo) \in ListedRows /\ todo \in Seq(ListedRows)
  BY <1>2, <1>3
<1>5. o \in TrueOutcomes /\ o.snapshot = Head(v.todo).snapshot
  BY <1>2, <1>4, EvaluatesTruly
<1> HIDE DEF v, o, todo
<1>6. /\ n \in Nat /\ n > 0 /\ Last(v.loads) = v.loads[n] /\ v.loads[n] \in Seq(TrueOutcomes)
      /\ last \in Seq(TrueOutcomes)
  <2>1. n \in Nat /\ n > 0 /\ Last(v.loads) = v.loads[n] /\ v.loads[n] \in Seq(TrueOutcomes)
    BY <1>2, <1>3 DEF Last
  <2> QED
    BY <1>5, <2>1
<1> HIDE DEF last
<1>7. loads \in Seq(Seq(TrueOutcomes)) /\ Len(loads) = n /\ loads[n] = last /\ \A i \in 1..(n - 1) : loads[i] = v.loads[i]
  <2> DEFINE B == Seq(TrueOutcomes)
             front == Front(v.loads)
  <2>1. v.loads \in Seq(B) /\ last \in B
    BY <1>3, <1>6
  <2> HIDE DEF B
  <2>2. front \in Seq(B) /\ Len(front) = n - 1 /\ \A i \in 1..(n - 1) : front[i] = v.loads[i]
    BY <1>6, <2>1 DEF Front
  <2>3. loads = Append(front, last)
    OBVIOUS
  <2> HIDE DEF front, loads
  <2>4. Append(front, last) \in Seq(B) /\ Len(Append(front, last)) = n
    BY <1>6, <2>1, <2>2
  <2>5. Append(front, last)[n] = last
    BY <1>6, <2>1, <2>2
  <2>6. \A i \in 1..(n - 1) : Append(front, last)[i] = v.loads[i]
    BY <1>6, <2>1, <2>2
  <2> QED
    BY <2>3, <2>4, <2>5, <2>6 DEF B
<1> HIDE DEF loads
<1>8. work.todo = todo /\ work.loads = loads /\ work.req = v.req /\ work \in AllReaders
  BY <1>2, <1>4, <1>7 DEF AllReaders
<1> HIDE DEF work
<1>9. /\ n <= Len(Loads(v.req))
      /\ \A i \in 1..n : Splits(PageOf(v, i), v.loads[i], RestOf(v, i))
  BY <1>1 DEF Paged
<1>10. \A i \in 1..Len(work.loads) : Splits(PageOf(work, i), work.loads[i], RestOf(work, i))
  <2> SUFFICES ASSUME NEW i \in 1..n PROVE Splits(PageOf(work, i), work.loads[i], RestOf(work, i))
    BY <1>7, <1>8
  <2>1. Splits(PageOf(v, i), v.loads[i], RestOf(v, i)) /\ PageOf(work, i) = PageOf(v, i)
    BY <1>8, <1>9 DEF PageOf
  <2>2. CASE i = n
    <3>1. RestOf(v, i) = v.todo /\ RestOf(work, i) = todo
      BY <1>7, <1>8, <2>2 DEF RestOf
    <3>2. Splits(PageOf(v, i), v.loads[n], v.todo)
      BY <2>1, <2>2, <3>1
    <3>3. Splits(PageOf(v, i), Append(v.loads[n], o), Tail(v.todo))
      BY <1>2, <1>3, <1>5, <1>6, <3>2, RowTaken
    <3> QED
      BY <1>6, <1>7, <1>8, <2>1, <2>2, <3>1, <3>3 DEF last, todo
  <2>3. CASE i # n
    <3>1. i \in 1..(n - 1)
      BY <1>6, <2>3
    <3>2. RestOf(v, i) = <<>> /\ RestOf(work, i) = <<>>
      BY <1>7, <1>8, <2>3 DEF RestOf
    <3> QED
      BY <1>7, <1>8, <2>1, <3>1, <3>2
  <2> QED
    BY <2>2, <2>3
<1>11. work.loads # <<>> /\ Len(work.loads) <= Len(Loads(work.req))
  BY <1>6, <1>7, <1>8, <1>9
<1>12. Paged(w)
  BY <1>2, <1>8, <1>10, <1>11, PagedResume
<1> HIDE DEF w
<1> QED
  BY <1>1, <1>12, PagedMoves DEF v

(* The other steps leave what is loaded and to be done as it is. *)
LEMMA PagedStays ==
  ASSUME NEW v, Paged(v), NEW w, w.req = v.req, w.loads = v.loads, w.todo = v.todo,
         w.at = "insert" \/ (v.at \in {"answer", "persist"} /\ w.at \in {"persist", "served"})
  PROVE  Paged(w)
<1>1. \A i \in 1..Len(w.loads) : Splits(PageOf(w, i), w.loads[i], RestOf(w, i))
  BY DEF Paged, PageOf, RestOf
<1> QED
  BY <1>1 DEF Paged

(* The steps that leave loads and work alone. *)
LEMMA PagedOthers ==
  ASSUME LogInv, AllPaged, NEW r \in Readers,
         CheckRow(r) \/ FailReport(r) \/ AnswerReport(r) \/ PersistStep(r) \/ CloseReport(r)
  PROVE  AllPaged'
<1> DEFINE v == reader[r]
<1>0. v \in AllReaders
  BY DEF LogInv, AllSound
<1>1. reader \in [Readers -> AllReaders] /\ (v.at \in AtWork => Paged(v))
  BY DEF LogInv, AllSound, AllPaged
<1>2. CASE CheckRow(r)
  <2> DEFINE w == [v EXCEPT !.at = "insert", !.write = IsNewRow(Evaluate(Head(v.todo)))]
  <2>1. v.at = "row" /\ reader' = [reader EXCEPT ![r] = w]
    BY <1>2 DEF CheckRow
  <2> HIDE DEF v
  <2>2. w.at = "insert" /\ w.req = v.req /\ w.loads = v.loads /\ w.todo = v.todo
    BY <1>0 DEF AllReaders
  <2> HIDE DEF w
  <2>3. Paged(w)
    BY <1>1, <2>1, <2>2, PagedStays DEF AtWork
  <2> QED
    BY <2>1, <2>3, PagedMoves
<1>3. CASE FailReport(r)
  <2> DEFINE w == [NoRequest EXCEPT !.at = "failed", !.served = v.served + 1, !.req = v.req]
  <2>1. reader' = [reader EXCEPT ![r] = w] /\ w.at = "failed"
    BY <1>3 DEF FailReport, NoRequest
  <2> HIDE DEF w
  <2> QED
    BY <2>1, PagedMoves DEF AtWork
<1>4. CASE AnswerReport(r)
  <2> DEFINE w == [v EXCEPT !.at = IF Steps(v.req) = <<>> THEN "served" ELSE "persist",
                            !.served = IF Steps(v.req) = <<>> THEN v.served + 1 ELSE v.served]
  <2>1. v.at = "answer" /\ reader' = [reader EXCEPT ![r] = w]
    BY <1>0, <1>1, <1>4 DEF AnswerReport, AllReaders
  <2> HIDE DEF v
  <2>2. w.at \in {"persist", "served"} /\ w.req = v.req /\ w.loads = v.loads /\ w.todo = v.todo
    BY <1>0 DEF AllReaders
  <2> HIDE DEF w
  <2>3. Paged(w)
    BY <1>1, <2>1, <2>2, PagedStays DEF AtWork
  <2> QED
    BY <2>1, <2>3, PagedMoves
<1>5. CASE PersistStep(r)
  <2> DEFINE last == v.steps + 1 = Len(Steps(v.req))
             w == [v EXCEPT !.steps = v.steps + 1, !.at = IF last THEN "served" ELSE "persist",
                            !.served = IF last THEN v.served + 1 ELSE v.served]
  <2>1. v.at = "persist" /\ reader' = [reader EXCEPT ![r] = w]
    BY <1>0, <1>1, <1>5 DEF PersistStep, AllReaders
  <2> HIDE DEF v, last
  <2>2. w.at \in {"persist", "served"} /\ w.req = v.req /\ w.loads = v.loads /\ w.todo = v.todo
    BY <1>0 DEF AllReaders
  <2> HIDE DEF w
  <2>3. Paged(w)
    BY <1>1, <2>1, <2>2, PagedStays DEF AtWork
  <2> QED
    BY <2>1, <2>3, PagedMoves
<1>6. CASE CloseReport(r)
  <2> DEFINE w == [NoRequest EXCEPT !.served = v.served]
  <2>1. reader' = [reader EXCEPT ![r] = w] /\ w.at = "idle"
    BY <1>6 DEF CloseReport, NoRequest
  <2> HIDE DEF w
  <2> QED
    BY <2>1, PagedMoves DEF AtWork
<1> QED
  BY <1>2, <1>3, <1>4, <1>5, <1>6

(* What has been loaded is what was listed, row by row. *)
LEMMA PagedHolds == OutSpec => []AllPaged
<1>1. OutInit => AllPaged
  BY DEF OutInit, AllPaged, AtWork, NoRequest
<1>2. LogInv /\ AllPaged /\ [OutNext]_outVars => AllPaged'
  <2> SUFFICES ASSUME LogInv, AllPaged, [OutNext]_outVars PROVE AllPaged'
    OBVIOUS
  <2>1. CASE UNCHANGED reader
    <3>1. \A q \in Readers : reader'[q].at \in AtWork => Paged(reader'[q])
      BY <2>1 DEF AllPaged
    <3> QED
      BY <3>1 DEF AllPaged, Paged, PageOf, RestOf, Splits
  <2>2. CASE reader' # reader
    <3>1. PICK r \in Readers : \/ \E req \in Requests : StartReport(r, req)
                              \/ ListSnapshots(r) \/ InsertRow(r)
                              \/ CheckRow(r) \/ FailReport(r) \/ AnswerReport(r) \/ PersistStep(r) \/ CloseReport(r)
      BY <2>2 DEF OutNext, outVars, CaptureLine
    <3>2. CASE \E req \in Requests : StartReport(r, req)
      BY <3>2, PagedStart
    <3>3. CASE ListSnapshots(r)
      BY <3>3, PagedListing
    <3>4. CASE InsertRow(r)
      BY <3>4, PagedInsert
    <3>5. CASE CheckRow(r) \/ FailReport(r) \/ AnswerReport(r) \/ PersistStep(r) \/ CloseReport(r)
      BY <3>5, PagedOthers
    <3> QED
      BY <3>1, <3>2, <3>3, <3>4, <3>5
  <2> QED
    BY <2>1, <2>2
<1> QED
  BY <1>1, <1>2, LogInvHolds, PTL DEF OutSpec

(* What a page shows when everything on it has been loaded. *)
LEMMA PageHasAll ==
  ASSUME NEW req, req \in Requests, NEW window
  PROVE  /\ Page(req, window) \in Seq(Wanted(req, window)) /\ IsInjective(Page(req, window))
         /\ (req.kind = "models" \/ Len(Page(req, window)) < req.limit)
              => ToSet(Page(req, window)) = Wanted(req, window)
<1> DEFINE S == Wanted(req, window)
           all == Arranged(S, ListedBefore)
           page == Page(req, window)
<1>1. all \in Seq(S) /\ ToSet(all) = S /\ SortedBy(all, ListOrder(S)) /\ StrictOrderOn(ListOrder(S), S)
  <2>1. S \in SUBSET Snapshots
    BY DEF Wanted
  <2> HIDE DEF S
  <2> QED
    BY <2>1, SnapshotsInOrder, ListOrderIsOrder
<1>2. req.limit \in Nat /\ req.limit >= 1
  <2>1. req.limit \in Nat \ {0}
    BY OutcomesAssumption DEF AllRequests, Counts
  <2> QED
    BY <2>1
<1>3. page \in Seq(S)
  BY PageIs
<1>4. page = IF req.kind = "models" \/ Len(all) < req.limit THEN all ELSE SubSeq(all, 1, req.limit)
  BY DEF Page
<1> HIDE DEF all, S, page
<1>5. IsInjective(all)
  BY <1>1, SortedIsInjective
<1>6. CASE req.kind = "models" \/ Len(all) < req.limit
  BY <1>1, <1>3, <1>4, <1>5, <1>6 DEF S, page
<1>7. CASE ~(req.kind = "models" \/ Len(all) < req.limit)
  <2> DEFINE n == req.limit
             cut == SubSeq(all, 1, n)
  <2>1. Len(all) \in Nat /\ n <= Len(all) /\ n \in Nat /\ DOMAIN all = 1..Len(all)
    BY <1>1, <1>2, <1>7
  <2>2. Len(cut) = n /\ DOMAIN cut = 1..n /\ \A i \in 1..n : cut[i] = all[i]
    BY <1>1, <2>1
  <2>3. page = cut /\ req.kind # "models"
    BY <1>4, <1>7
  <2> HIDE DEF cut
  <2>4. IsInjective(page)
    <3>1. 1..n \subseteq 1..Len(all)
      BY <2>1
    <3> QED
      BY <1>5, <2>1, <2>2, <2>3, <3>1 DEF IsInjective
  <2>5. ~(Len(page) < req.limit)
    BY <2>1, <2>2, <2>3
  <2> QED
    BY <1>3, <2>3, <2>4, <2>5 DEF S, page
<1> QED
  BY <1>6, <1>7

-----------------------------------------------------------------------------
(* A load of a finished request: one true row of each snapshot of a page.  *)
LEMMA LoadIs ==
  ASSUME LogInv, AllPaged, NEW r \in Readers, reader[r].at \in {"answer", "persist", "served"},
         NEW i, i \in 1..Len(Loads(reader[r].req))
  PROVE  /\ Len(reader[r].loads) = Len(Loads(reader[r].req))
         /\ reader[r].loads[i] \in Seq(TrueOutcomes) /\ ToSet(reader[r].loads[i]) \subseteq ToSet(outcomes)
         /\ Splits(PageOf(reader[r], i), reader[r].loads[i], <<>>)
         /\ reader[r].req \in Requests
<1> DEFINE v == reader[r]
<1>1. Sound(v, ToSet(outcomes)) /\ Paged(v) /\ v.at \in {"answer", "persist", "served"}
  BY DEF LogInv, AllSound, AllPaged, AtWork
<1> HIDE DEF v
<1>2. v \in AllReaders /\ v.req \in Requests /\ Within(v.loads, ToSet(outcomes))
  BY <1>1 DEF Sound
<1>3. v.loads \in Seq(Seq(TrueOutcomes))
  BY <1>2 DEF AllReaders
<1>4. /\ Len(v.loads) = Len(Loads(v.req)) /\ v.todo = <<>>
      /\ \A j \in 1..Len(v.loads) : Splits(PageOf(v, j), v.loads[j], RestOf(v, j))
  BY <1>1 DEF Paged
<1>5. i \in 1..Len(v.loads)
  BY <1>4 DEF v
<1>6. v.loads[i] \in Seq(TrueOutcomes)
  <2> DEFINE B == Seq(TrueOutcomes)
  <2>1. v.loads \in Seq(B)
    BY <1>3
  <2> HIDE DEF B
  <2>2. v.loads[i] \in B
    BY <1>5, <2>1
  <2> QED
    BY <2>2 DEF B
<1>7. DOMAIN v.loads = 1..Len(v.loads)
  BY <1>3
<1>8. ToSet(v.loads[i]) \subseteq ToSet(outcomes)
  BY <1>2, <1>5, <1>7 DEF Within, ToSet
<1>9. Splits(PageOf(v, i), v.loads[i], <<>>)
  BY <1>4, <1>5 DEF RestOf
<1> QED
  BY <1>2, <1>4, <1>6, <1>8, <1>9 DEF v

(* A row without a side to grade keeps its page from being answered. *)
LEMMA TotalsStopThePage ==
  ASSUME LogInv, AllPaged
  PROVE  TotalsBlockThePage
<1> SUFFICES ASSUME NEW r \in Readers, reader[r].at = "served", NEW s \in Snapshots, Advice[s].side \notin Sides,
                    NEW i \in DOMAIN Loads(reader[r].req), Len(reader[r].loads[i]) < reader[r].req.limit,
                    s \in Wanted(reader[r].req, Loads(reader[r].req)[i])
             PROVE  FALSE
  BY DEF TotalsBlockThePage
<1> DEFINE v == reader[r]
           load == v.loads[i]
           window == Loads(v.req)[i]
           page == Page(v.req, window)
<1>1. v.req \in Requests
  BY DEF LogInv, AllSound, Sound
<1>2. i \in 1..Len(Loads(v.req))
  BY <1>1, StepsAre
<1>3. load \in Seq(TrueOutcomes) /\ Splits(page, load, <<>>)
  BY <1>2, LoadIs DEF PageOf
<1>4. Len(load) < v.req.limit /\ s \in Wanted(v.req, window)
  OBVIOUS
<1>5. page \in Seq(Wanted(v.req, window)) /\ (Len(page) < v.req.limit => ToSet(page) = Wanted(v.req, window))
  BY <1>1, PageHasAll
<1> HIDE DEF load, page, window, v
<1>6. Len(load) \in Nat /\ Len(page) = Len(load) /\ \A k \in 1..Len(load) : load[k].snapshot = page[k]
  <2>1. Len(load) \in Nat /\ Len(<<>>) = 0
    BY <1>3
  <2> QED
    BY <1>3, <2>1 DEF Splits
<1>7. s \in ToSet(page)
  BY <1>4, <1>5, <1>6
<1>8. PICK k \in 1..Len(page) : s = page[k]
  BY <1>5, <1>7 DEF ToSet
<1>9. load[k] \in TrueOutcomes /\ load[k].snapshot = s
  BY <1>3, <1>6, <1>8
<1>10. IsTrue(load[k])
  BY <1>9 DEF TrueOutcomes
<1>11. Advice[s].side \in Sides
  BY <1>9, <1>10 DEF IsTrue
<1> QED
  BY <1>11

(* Snapshots are finite in number. *)
LEMMA SnapshotsAreFinite ==
  ASSUME NEW S, S \subseteq Snapshots
  PROVE  IsFiniteSet(S) /\ Cardinality(S) \in Nat
<1>1. Snapshots = 1..Len(Advice) /\ Len(Advice) \in Nat
  BY OutcomesAssumption DEF Snapshots
<1>2. IsFiniteSet(Snapshots)
  BY <1>1, FS_Interval
<1> QED
  BY <1>2, FS_Subset, FS_CardinalityType

(* The rows of a report are of the snapshots loaded, one of each. *)
LEMMA RowsOfIs ==
  ASSUME NEW load, load \in Seq(TrueOutcomes), \A j, k \in 1..Len(load) : load[j].snapshot = load[k].snapshot => j = k
  PROVE  LET rows == RowsOf(load)
             S == ToSet(rows)
         IN  /\ OnePerId(S) /\ rows \in Seq(S) /\ IsInjective(rows)
             /\ \A q \in S : \E k \in 1..Len(load) : q.id = load[k].snapshot /\ q.outcome = load[k].result
<1> DEFINE rows == RowsOf(load)
           S == ToSet(rows)
           n == Len(load)
           row(o) == LET a == Advice[o.snapshot]
                     IN  [id |-> o.snapshot, rank |-> a.rank, expected |-> SideChance(a.side, a.home),
                          outcome |-> o.result, clv |-> o.clv]
<1>1. n \in Nat /\ DOMAIN load = 1..n /\ \A k \in 1..n : load[k] \in TrueOutcomes
  OBVIOUS
<1>2. rows = [k \in 1..n |-> row(load[k])]
  BY <1>1 DEF RowsOf
<1>3. ASSUME NEW o \in TrueOutcomes PROVE row(o) \in AllRows /\ row(o).id = o.snapshot /\ row(o).outcome = o.result
  <2>1. o.snapshot \in Snapshots /\ o.result \in Results /\ o.clv \in Seq(Int)
    BY DEF TrueOutcomes, AllOutcomes
  <2>2. Advice[o.snapshot] \in AllAdvice /\ o.snapshot \in Int
    BY <2>1, OutcomesAssumption DEF Snapshots
  <2>3. Advice[o.snapshot].rank \in Int /\ Advice[o.snapshot].home \in 0..100
    BY <2>2 DEF AllAdvice
  <2>4. SideChance(Advice[o.snapshot].side, Advice[o.snapshot].home) \in 0..100
    <3> DEFINE h == Advice[o.snapshot].home
    <3>0. h \in 0..100
      BY <2>3
    <3> HIDE DEF h
    <3>1. h \in 0..100 /\ 100 - h \in 0..100
      BY <3>0
    <3>2. SideChance(Advice[o.snapshot].side, h) \in 0..100
      BY <3>1 DEF SideChance
    <3> QED
      BY <3>2 DEF h
  <2> QED
    BY <2>1, <2>2, <2>3, <2>4 DEF AllRows, Results
<1> HIDE DEF row, n, rows
<1>4. /\ DOMAIN rows = 1..n /\ rows = [k \in 1..n |-> rows[k]]
      /\ \A k \in 1..n : rows[k] \in AllRows /\ rows[k].id = load[k].snapshot /\ rows[k].outcome = load[k].result
  BY <1>1, <1>2, <1>3
<1>5. S \in SUBSET AllRows /\ \A q \in S : \E k \in 1..n : q = rows[k]
  BY <1>4 DEF ToSet
<1>6. \A k \in 1..n : rows[k] \in S
  BY <1>4 DEF ToSet
<1> HIDE DEF S
<1>7. rows \in Seq(S)
  BY <1>1, <1>4, <1>6
<1>8. \A j, k \in 1..n : load[j].snapshot = load[k].snapshot => j = k
  BY DEF n
<1>9. IsInjective(rows)
  <2>1. \A j, k \in 1..n : rows[j] = rows[k] => j = k
    BY <1>4, <1>8
  <2> QED
    BY <1>4, <2>1 DEF IsInjective
<1>10. OnePerId(S)
  <2>1. ASSUME NEW q \in S, NEW p \in S, q.id = p.id PROVE q = p
    <3>1. PICK j \in 1..n : q = rows[j]
      BY <1>5
    <3>2. PICK k \in 1..n : p = rows[k]
      BY <1>5
    <3>3. load[j].snapshot = load[k].snapshot
      BY <1>4, <2>1, <3>1, <3>2
    <3>4. j = k
      BY <1>8, <3>3
    <3> QED
      BY <3>1, <3>2, <3>4
  <2> QED
    BY <1>5, <2>1 DEF OnePerId
<1>11. \A q \in S : \E k \in 1..n : q.id = load[k].snapshot /\ q.outcome = load[k].result
  BY <1>4, <1>5
<1> QED
  BY <1>7, <1>9, <1>10, <1>11 DEF S, rows, n

(* What a tally sums up: the figures of its settled rows. *)
Brier(q) == (q.expected - Won(q)) * (q.expected - Won(q))
WithLine(rows, places) == {i \in SettledRows(rows, places) : rows[i].clv # <<>>}

LEMMA TallyIs ==
  ASSUME NEW rows, NEW places
  PROVE  LET t == Tally(rows, places)
             settled == SettledRows(rows, places)
         IN  /\ t.count = Cardinality(places) /\ t.settled = Cardinality(settled)
             /\ t.observed = SumFunctionOnSet([i \in settled |-> Won(rows[i])], settled)
             /\ t.expected = SumFunctionOnSet([i \in settled |-> rows[i].expected], settled)
             /\ t.brier = SumFunctionOnSet([i \in settled |-> Brier(rows[i])], settled)
             /\ t.clv = SumFunctionOnSet([i \in WithLine(rows, places) |-> rows[i].clv[1]], WithLine(rows, places))
             /\ t.ranks = {rows[i].rank : i \in places}
<1> QED
  BY DEF Tally, SumAt, Brier, WithLine

(* What a report is made of. *)
BucketPlaces(n, b, m) == {i \in 1..m : BucketOf(i, m, n) = b - 1}

LEMMA ReportIs ==
  ASSUME NEW rows, NEW n
  PROVE  LET report == CalibrationReport(rows, n)
             s == Ordered(rows)
         IN  /\ report.overall = Tally(s, 1..Len(s))
             /\ report.buckets = [b \in 1..n |-> Tally(s, BucketPlaces(n, b, Len(s)))]
             /\ report.ece = SumFunctionOnSet([b \in 1..n |-> Magnitude(report.buckets[b].observed - report.buckets[b].expected)], 1..n)
<1> DEFINE s == Ordered(rows)
           bucket == [b \in 1..n |-> Tally(s, BucketPlaces(n, b, Len(s)))]
           whole == Tally(s, 1..Len(s))
           miss == SumFunctionOnSet([b \in DOMAIN bucket |-> Magnitude(bucket[b].observed - bucket[b].expected)], DOMAIN bucket)
<1>1. CalibrationReport(rows, n) = [overall |-> whole, ece |-> miss, buckets |-> bucket]
  BY DEF CalibrationReport, ReportOf, BucketPlaces, Sum, SumAt
<1>2. DOMAIN bucket = 1..n
  OBVIOUS
<1> HIDE DEF whole, bucket
<1> QED
  BY <1>1, <1>2 DEF whole, bucket

(* A report has each of its rows once. *)
LEMMA ReportRowsAre ==
  ASSUME NEW S, OnePerId(S), NEW rows, rows \in Seq(S), IsInjective(rows)
  PROVE  Ordered(rows) \in Seq(S) /\ IsInjective(Ordered(rows)) /\ ToSet(Ordered(rows)) = ToSet(rows)
<1>1. Ordered(rows) \in Seq(S) /\ ToSet(Ordered(rows)) = ToSet(rows) /\ SortedBy(Ordered(rows), RowOrder(S))
  BY OrderedSorts
<1>2. StrictOrderOn(RowOrder(S), S)
  BY RowOrderIsOrder
<1> QED
  BY <1>1, <1>2, SortedIsInjective

(* What a report counts as settled, the log settles. *)
LEMMA LoadSettles ==
  ASSUME LogInv, AllPaged, NEW r \in Readers, reader[r].at \in {"answer", "persist", "served"},
         NEW i, i \in 1..Len(Loads(reader[r].req)), NEW n
  PROVE  LET settled == CalibrationReport(RowsOf(reader[r].loads[i]), n).overall.settled
         IN  settled \in Nat /\ settled <= Cardinality(SettledIn(Loads(reader[r].req)[i]))
<1> DEFINE v == reader[r]
           load == v.loads[i]
           window == Loads(v.req)[i]
           page == Page(v.req, window)
           rows == RowsOf(load)
           S == ToSet(rows)
           s == Ordered(rows)
           w == SettledRows(s, 1..Len(s))
           T == SettledIn(window)
<1>1. v.req \in Requests /\ load \in Seq(TrueOutcomes) /\ ToSet(load) \subseteq ToSet(outcomes) /\ Splits(page, load, <<>>)
  BY LoadIs DEF PageOf
<1>2. page \in Seq(Wanted(v.req, window)) /\ IsInjective(page)
  BY <1>1, PageHasAll
<1>p. CalibrationReport(rows, n).overall.settled = Cardinality(w)
  <2> HIDE DEF rows
  <2>1. CalibrationReport(rows, n).overall = Tally(s, 1..Len(s))
    BY ReportIs
  <2>2. Tally(s, 1..Len(s)).settled = Cardinality(w)
    BY TallyIs
  <2> QED
    BY <2>1, <2>2
<1> HIDE DEF load, page, window, v
<1>3. Len(load) \in Nat /\ Len(page) = Len(load) /\ \A k \in 1..Len(load) : load[k].snapshot = page[k]
  <2>1. Len(load) \in Nat /\ Len(<<>>) = 0
    BY <1>1
  <2> QED
    BY <1>1, <2>1 DEF Splits
<1>4. \A j, k \in 1..Len(load) : load[j].snapshot = load[k].snapshot => j = k
  <2>1. DOMAIN page = 1..Len(load)
    BY <1>2, <1>3
  <2> QED
    BY <1>2, <1>3, <2>1 DEF IsInjective
<1>5. /\ OnePerId(S) /\ rows \in Seq(S) /\ IsInjective(rows)
      /\ \A q \in S : \E k \in 1..Len(load) : q.id = load[k].snapshot /\ q.outcome = load[k].result
  BY <1>1, <1>4, RowsOfIs
<1> HIDE DEF rows
<1>s. S = ToSet(rows)
  OBVIOUS
<1> HIDE DEF S
<1>6. s \in Seq(S) /\ IsInjective(s)
  BY <1>5, ReportRowsAre
<1>w. Len(s) \in Nat /\ w = {k \in 1..Len(s) : s[k].outcome \in {"win", "loss"}}
  BY <1>6 DEF SettledRows
<1> HIDE DEF s, w
<1>7. ASSUME NEW q \in S, q.outcome \in {"win", "loss"} PROVE q.id \in T
  <2>1. PICK k \in 1..Len(load) : q.id = load[k].snapshot /\ q.outcome = load[k].result
    BY <1>5
  <2>2. load[k] \in ToSet(outcomes) /\ load[k] \in TrueOutcomes
    BY <1>1, <2>1 DEF ToSet
  <2>3. page[k] \in Wanted(v.req, window) /\ page[k] = q.id
    BY <1>2, <1>3, <2>1
  <2>4. q.id \in Snapshots /\ Advice[q.id].day \in window[1]..window[2]
    BY <2>3 DEF Wanted
  <2>5. load[k] \in ToSet(OutcomesOf(q.id))
    BY <2>1, <2>2, OutcomesOfIs DEF LogInv
  <2> QED
    BY <1>7, <2>1, <2>4, <2>5 DEF SettledIn
<1>8. IsFiniteSet(T) /\ Cardinality(T) \in Nat
  BY SnapshotsAreFinite DEF SettledIn
<1> HIDE DEF T
<1> DEFINE f == [k \in w |-> s[k].id]
<1>9. f \in [w -> T] /\ \A j, k \in w : f[j] = f[k] => j = k
  <2>1. \A k \in w : s[k] \in S /\ s[k].outcome \in {"win", "loss"}
    BY <1>6, <1>w
  <2>2. \A k \in w : s[k].id \in T
    BY <1>7, <2>1
  <2>3. \A j, k \in w : s[j].id = s[k].id => s[j] = s[k]
    BY <1>5, <2>1 DEF OnePerId
  <2>4. \A j, k \in w : s[j] = s[k] => j = k
    BY <1>6, <1>w DEF IsInjective
  <2> QED
    BY <2>2, <2>3, <2>4
<1>10. f \in Injection(w, T)
  BY <1>9 DEF Injection, IsInjective
<1> HIDE DEF f
<1>11. Cardinality(w) <= Cardinality(T) /\ Cardinality(w) \in Nat
  BY <1>8, <1>10, FS_Injection, FS_CardinalityType
<1> QED
  BY <1>p, <1>11 DEF T, window, v, rows, load, s, w

-----------------------------------------------------------------------------
(* Alert runs. *)

(* The log only grows, by one true row at a time. *)
LEMMA LogGrows ==
  ASSUME LogInv, [OutNext]_outVars
  PROVE  outcomes' = outcomes \/ \E o \in TrueOutcomes : outcomes' = Append(outcomes, o)
<1>1. CASE outcomes' = outcomes
  BY <1>1
<1>2. CASE outcomes' # outcomes
  <2>1. PICK r \in Readers : InsertRow(r)
    BY <1>2 DEF OutNext, outVars, CaptureLine, StartReport, ListSnapshots, CheckRow, FailReport, AnswerReport,
                PersistStep, CloseReport
  <2> DEFINE v == reader[r]
             row == Head(v.todo)
  <2>2. v.at = "insert" /\ outcomes' = Append(outcomes, Evaluate(row))
    BY <1>2, <2>1 DEF InsertRow
  <2>3. Sound(v, ToSet(outcomes))
    BY DEF LogInv, AllSound
  <2>4. v \in AllReaders /\ v.todo # <<>> /\ Gradable(row)
    BY <2>2, <2>3 DEF Sound
  <2>5. row \in ListedRows
    <3>1. v.todo \in Seq(ListedRows)
      BY <2>4 DEF AllReaders
    <3> QED
      BY <2>4, <3>1
  <2>6. Evaluate(row) \in TrueOutcomes
    BY <2>4, <2>5, EvaluatesTruly
  <2> QED
    BY <2>2, <2>6
<1> QED
  BY <1>1, <1>2

(* What the log has settled stays settled in the log. *)
LEMMA SettledGrows ==
  ASSUME LogInv, [OutNext]_outVars, NEW window
  PROVE  /\ Cardinality(SettledIn(window)) \in Nat /\ Cardinality(SettledIn(window)') \in Nat
         /\ Cardinality(SettledIn(window)) <= Cardinality(SettledIn(window)')
<1>1. ASSUME NEW s PROVE ToSet(OutcomesOf(s)) \subseteq ToSet(OutcomesOf(s)')
  <2>1. CASE outcomes' = outcomes
    BY <2>1 DEF OutcomesOf
  <2>2. ASSUME NEW o \in TrueOutcomes, outcomes' = Append(outcomes, o)
        PROVE  ToSet(OutcomesOf(s)) \subseteq ToSet(OutcomesOf(s)')
    <3>1. outcomes \in Seq(TrueOutcomes)
      BY DEF LogInv
    <3>2. OutcomesOf(s) \in Seq(TrueOutcomes)
      BY <3>1, OutcomesOfIs
    <3>3. OutcomesOf(s)' = IF o.snapshot = s THEN Append(OutcomesOf(s), o) ELSE OutcomesOf(s)
      BY <2>2, <3>1, OutcomesOfAppended
    <3>4. ToSet(Append(OutcomesOf(s), o)) = ToSet(OutcomesOf(s)) \cup {o}
      BY <3>2, ElementsAppended
    <3> QED
      BY <3>3, <3>4
  <2> QED
    BY <2>1, <2>2, LogGrows
<1> DEFINE S == SettledIn(window)
           T == SettledIn(window)'
<1>2. S \subseteq T
  BY <1>1 DEF SettledIn
<1>3. T \subseteq Snapshots
  BY DEF SettledIn
<1> HIDE DEF S, T
<1>4. IsFiniteSet(T) /\ Cardinality(T) \in Nat
  BY <1>3, SnapshotsAreFinite
<1>5. IsFiniteSet(S) /\ Cardinality(S) \in Nat /\ Cardinality(S) <= Cardinality(T)
  BY <1>2, <1>4, FS_Subset, FS_CardinalityType
<1> QED
  BY <1>4, <1>5 DEF S, T

-----------------------------------------------------------------------------
(* The row that a step of an alert leaves in the history. *)
RunFor(w, step, by) ==
  [group |-> RunGroup(w.req), step |-> step - 1, steps |-> Len(Steps(w.req)),
   window |-> Steps(w.req)[step], verdict |-> Verdicts(w)[step], by |-> by]

(* What it counts as settled is settled by the log. *)
Backed(settled, window) == settled \in Nat /\ settled <= Cardinality(SettledIn(window))
BackedRun(run) == Backed(run.verdict.settled[1], run.window.current) /\ Backed(run.verdict.settled[2], run.window.baseline)
RunsInv == alertRuns \in Seq(ToSet(alertRuns)) /\ \A run \in ToSet(alertRuns) : BackedRun(run)

(* So does what an alert's step counts. *)
LEMMA VerdictIsBacked ==
  ASSUME LogInv, AllPaged, NEW r \in Readers, reader[r].at = "persist",
         NEW step, step \in 1..Len(Steps(reader[r].req)), NEW by
  PROVE  BackedRun(RunFor(reader[r], step, by))
<1> DEFINE v == reader[r]
           run == RunFor(v, step, by)
           n == v.req.buckets
           current == CalibrationReport(RowsOf(v.loads[2 * step - 1]), n)
           baseline == CalibrationReport(RowsOf(v.loads[2 * step]), n)
<1>1. v.req \in Requests
  BY DEF LogInv, AllSound, Sound
<1>2. /\ 2 * step - 1 \in 1..Len(Loads(v.req)) /\ 2 * step \in 1..Len(Loads(v.req))
      /\ Loads(v.req)[2 * step - 1] = Steps(v.req)[step].current
      /\ Loads(v.req)[2 * step] = Steps(v.req)[step].baseline
      /\ DOMAIN Steps(v.req) = 1..Len(Steps(v.req))
  BY <1>1, StepsAre
<1>3. current.overall.settled \in Nat /\ current.overall.settled <= Cardinality(SettledIn(Loads(v.req)[2 * step - 1]))
  BY <1>2, LoadSettles
<1>4. baseline.overall.settled \in Nat /\ baseline.overall.settled <= Cardinality(SettledIn(Loads(v.req)[2 * step]))
  BY <1>2, LoadSettles
<1>5. /\ run.verdict.settled[1] = current.overall.settled /\ run.verdict.settled[2] = baseline.overall.settled
      /\ run.window = Steps(v.req)[step]
  BY <1>2 DEF RunFor, Verdicts
<1> HIDE DEF run, current, baseline
<1> QED
  BY <1>2, <1>3, <1>4, <1>5 DEF BackedRun, Backed, run

(* PersistStep appends one run. *)
LEMMA PersistsARun ==
  ASSUME NEW r \in Readers, PersistStep(r)
  PROVE  alertRuns' = Append(alertRuns, RunFor(reader[r], reader[r].steps + 1, <<r, reader[r].served>>))
BY DEF PersistStep, RunFor

(* The runs of one answer, of all that were appended. *)
RunsIn(runs, by) == Where(runs, {i \in DOMAIN runs : runs[i].by = by})

(* The first n steps of w are there, in their order, and no more. *)
Written(w, by, n, runs) ==
  LET own == RunsIn(runs, by)
  IN  Len(own) = n /\ \A i \in 1..n : own[i] = RunFor(w, i, by)

NoneOf(r, w, runs) ==
  \A n \in Nat : n > w.served \/ (n = w.served /\ w.at # "persist") => RunsIn(runs, <<r, n>>) = <<>>

(* A request that persists its steps has written some of them; one that    *)
(* was served has written all; and nothing is there of later ones.         *)
Filed(r, w, runs) ==
  /\ w.at \in {"list", "row", "insert", "answer"} => w.steps = 0
  /\ w.at = "persist" => w.steps < Len(Steps(w.req)) /\ Written(w, <<r, w.served>>, w.steps, runs)
  /\ w.at = "served" /\ Steps(w.req) # <<>> => Written(w, <<r, w.served - 1>>, Len(Steps(w.req)), runs)
  /\ NoneOf(r, w, runs)
AllFiled == \A r \in Readers : Filed(r, reader[r], alertRuns)

(* A run more is one more of its answer. *)
LEMMA RunsInAppended ==
  ASSUME NEW runs, runs \in Seq(ToSet(runs)), NEW run, NEW by
  PROVE  RunsIn(Append(runs, run), by) = IF run.by = by THEN Append(RunsIn(runs, by), run) ELSE RunsIn(runs, by)
<1> DEFINE n == Len(runs)
           A == ToSet(runs) \cup {run}
           P == {i \in DOMAIN runs : runs[i].by = by}
           more == Append(runs, run)
           Q == {i \in DOMAIN more : more[i].by = by}
<1>0. runs \in Seq(A) /\ run \in A
  <2>1. \A i \in 1..Len(runs) : runs[i] \in ToSet(runs)
    OBVIOUS
  <2>2. Len(runs) \in Nat /\ runs = [i \in 1..Len(runs) |-> runs[i]]
    OBVIOUS
  <2> QED
    BY <2>1, <2>2
<1> HIDE DEF A
<1>1. /\ n \in Nat /\ DOMAIN runs = 1..n /\ DOMAIN more = 1..(n + 1)
      /\ more[n + 1] = run /\ \A i \in 1..n : more[i] = runs[i]
  BY <1>0
<1>2. RunsIn(runs, by) = Where(runs, P) /\ RunsIn(more, by) = Where(more, Q)
  BY DEF RunsIn
<1> HIDE DEF more, n
<1>3. (\A i \in 1..n : i \in P <=> i \in Q) /\ (n + 1 \in Q <=> run.by = by)
  <2>1. (1..n) \subseteq 1..(n + 1) /\ n + 1 \in 1..(n + 1)
    BY <1>1
  <2> QED
    BY <1>1, <2>1
<1> HIDE DEF P, Q
<1>4. Where(more, Q) = IF n + 1 \in Q THEN Append(Where(runs, P), run) ELSE Where(runs, P)
  BY <1>0, <1>3, WhereAppended DEF more, n
<1> QED
  BY <1>2, <1>3, <1>4 DEF more

(* The runs of one answer are among all of them. *)
LEMMA RunsInIs ==
  ASSUME NEW runs, runs \in Seq(ToSet(runs)), NEW by
  PROVE  RunsIn(runs, by) \in Seq(ToSet(runs))
BY WhereElements DEF RunsIn

(* A step that writes no run, of a request that is not yet persisting. *)
LEMMA FiledQuietly ==
  ASSUME NEW r, NEW v, NEW w, NEW runs, Filed(r, v, runs), w.at \notin {"persist", "served"}, w.steps = 0,
         v.served \in Nat, (w.served = v.served /\ v.at # "persist") \/ w.served = v.served + 1
  PROVE  Filed(r, w, runs)
<1>1. NoneOf(r, w, runs)
  <2> SUFFICES ASSUME NEW n \in Nat, n > w.served \/ n = w.served PROVE RunsIn(runs, <<r, n>>) = <<>>
    BY DEF NoneOf
  <2>1. n > v.served \/ (n = v.served /\ v.at # "persist")
    OBVIOUS
  <2> QED
    BY <2>1 DEF Filed, NoneOf
<1> QED
  BY <1>1 DEF Filed

(* Such a step of one reader. *)
LEMMA FiledMoves ==
  ASSUME AllFiled, reader \in [Readers -> AllReaders], NEW r \in Readers, NEW w, Filed(r, w, alertRuns),
         reader' = [reader EXCEPT ![r] = w], alertRuns' = alertRuns
  PROVE  AllFiled'
<1>1. \A q \in Readers : reader'[q] = IF q = r THEN w ELSE reader[q]
  OBVIOUS
<1>2. \A q \in Readers : Filed(q, reader'[q], alertRuns')
  BY <1>1 DEF AllFiled
<1> QED
  BY <1>2 DEF AllFiled

(* The steps of a request that writes none of its steps. *)
LEMMA QuietSteps ==
  ASSUME LogInv, AllFiled, NEW r \in Readers,
         \/ \E req \in Requests : StartReport(r, req)
         \/ ListSnapshots(r) \/ CheckRow(r) \/ InsertRow(r) \/ FailReport(r) \/ CloseReport(r)
  PROVE  AllFiled'
<1> DEFINE v == reader[r]
           w == reader'[r]
<1>0. v \in AllReaders /\ reader \in [Readers -> AllReaders] /\ Filed(r, v, alertRuns)
  BY DEF LogInv, AllSound, AllFiled
<1>1. v.served \in Nat
  BY <1>0, OutcomesAssumption DEF AllReaders
<1>2. reader' = [reader EXCEPT ![r] = w] /\ alertRuns' = alertRuns
  BY <1>0 DEF StartReport, ListSnapshots, CheckRow, InsertRow, FailReport, CloseReport
<1>3. /\ w.at \notin {"persist", "served"} /\ w.steps = 0
      /\ (w.served = v.served /\ v.at # "persist") \/ w.served = v.served + 1
  <2>1. CASE \E req \in Requests : StartReport(r, req)
    <3>1. PICK req \in Requests : StartReport(r, req)
      BY <2>1
    <3>2. v.at = "idle" /\ w = [NoRequest EXCEPT !.at = "list", !.served = v.served, !.req = req]
      BY <1>0, <3>1 DEF StartReport
    <3>3. w.at = "list" /\ w.served = v.served /\ w.steps = 0
      BY <3>2 DEF NoRequest
    <3> QED
      BY <3>2, <3>3
  <2>2. ASSUME NEW work, work \in AllReaders, work.served = v.served, work.steps = v.steps,
               v.at \in {"list", "insert"}, w = Resume(work)
        PROVE  w.at \notin {"persist", "served"} /\ w.steps = 0 /\ w.served = v.served /\ v.at # "persist"
    <3>1. After(work) \in {"row", "list", "answer"}
      BY DEF After
    <3>2. w.at = After(work) /\ w.served = work.served /\ w.steps = work.steps
      BY <2>2 DEF Resume, AllReaders
    <3>3. v.steps = 0
      BY <1>0, <2>2 DEF Filed
    <3> QED
      BY <2>2, <3>1, <3>2, <3>3
  <2>3. CASE ListSnapshots(r)
    <3> DEFINE todo == Listing(v.req, Loads(v.req)[Len(v.loads) + 1])
               loads == Append(v.loads, <<>>)
               work == [v EXCEPT !.todo = todo, !.loads = loads]
    <3>1. v.at = "list" /\ w = Resume(work)
      BY <1>0, <2>3 DEF ListSnapshots
    <3>2. v.req \in Requests
      BY <3>1 DEF LogInv, AllSound, Sound
    <3>3. todo \in Seq(ListedRows)
      BY <3>2, ListingIs DEF LogInv
    <3>4. loads \in Seq(Seq(TrueOutcomes))
      <4> DEFINE B == Seq(TrueOutcomes)
      <4>1. v.loads \in Seq(B) /\ <<>> \in B
        BY <1>0 DEF AllReaders
      <4> HIDE DEF B
      <4>2. Append(v.loads, <<>>) \in Seq(B)
        BY <4>1
      <4> QED
        BY <4>2 DEF B
    <3> HIDE DEF todo, loads, v, w
    <3>5. work \in AllReaders /\ work.served = v.served /\ work.steps = v.steps
      BY <1>0, <3>3, <3>4 DEF AllReaders
    <3> HIDE DEF work
    <3> QED
      BY <2>2, <3>1, <3>5
  <2>4. CASE CheckRow(r)
    <3>1. /\ v.at = "row" /\ w = [v EXCEPT !.at = "insert", !.write = IsNewRow(Evaluate(Head(v.todo)))]
      BY <1>0, <2>4 DEF CheckRow, AllReaders
    <3>2. v.steps = 0
      BY <1>0, <3>1 DEF Filed
    <3> HIDE DEF v, w
    <3>3. w.at = "insert" /\ w.steps = v.steps /\ w.served = v.served
      BY <1>0, <3>1 DEF AllReaders
    <3> QED
      BY <3>1, <3>2, <3>3
  <2>5. CASE InsertRow(r)
    <3> DEFINE todo == Tail(v.todo)
               loads == Append(Front(v.loads), Append(Last(v.loads), Evaluate(Head(v.todo))))
               work == [v EXCEPT !.todo = todo, !.write = FALSE, !.loads = loads]
    <3>1. v.at = "insert" /\ w = Resume(work)
      BY <1>0, <2>5 DEF InsertRow
    <3>2. v.steps = 0
      BY <1>0, <3>1 DEF Filed
    <3> HIDE DEF todo, loads
    <3>3. work.served = v.served /\ work.steps = v.steps /\ work.at = v.at
      BY <1>0 DEF AllReaders
    <3>4. w.at = After(work) /\ w.served = work.served /\ w.steps = work.steps
      BY <1>0, <3>1 DEF Resume, AllReaders
    <3>5. After(work) \in {"row", "list", "answer"}
      BY DEF After
    <3> HIDE DEF work, v, w
    <3> QED
      BY <3>1, <3>2, <3>3, <3>4, <3>5
  <2>6. CASE FailReport(r)
    <3>1. w = [NoRequest EXCEPT !.at = "failed", !.served = v.served + 1, !.req = v.req]
      BY <1>0, <2>6 DEF FailReport
    <3>2. w.at = "failed" /\ w.steps = 0 /\ w.served = v.served + 1
      BY <3>1 DEF NoRequest
    <3> QED
      BY <3>2
  <2>7. CASE CloseReport(r)
    <3>1. w = [NoRequest EXCEPT !.served = v.served] /\ v.at \in {"served", "failed"}
      BY <1>0, <2>7 DEF CloseReport
    <3>2. w.at = "idle" /\ w.steps = 0 /\ w.served = v.served
      BY <3>1 DEF NoRequest
    <3> QED
      BY <3>1, <3>2
  <2> QED
    BY <2>1, <2>3, <2>4, <2>5, <2>6, <2>7
<1> HIDE DEF v, w
<1>4. Filed(r, w, alertRuns)
  BY <1>0, <1>1, <1>3, FiledQuietly
<1> QED
  BY <1>0, <1>2, <1>4, FiledMoves

(* No step is written at first. *)
LEMMA NothingWritten ==
  ASSUME NEW w, NEW by, NEW runs, RunsIn(runs, by) = <<>>
  PROVE  Written(w, by, 0, runs)
BY DEF Written

(* AnswerReport. *)
LEMMA FiledAnswer ==
  ASSUME LogInv, AllFiled, NEW r \in Readers, AnswerReport(r)
  PROVE  AllFiled'
<1> DEFINE v == reader[r]
           at == IF Steps(v.req) = <<>> THEN "served" ELSE "persist"
           served == IF Steps(v.req) = <<>> THEN v.served + 1 ELSE v.served
           w == [v EXCEPT !.at = at, !.served = served]
<1>1. v \in AllReaders /\ reader \in [Readers -> AllReaders] /\ Filed(r, v, alertRuns) /\ v.at = "answer" /\ v.req \in Requests
  BY DEF LogInv, AllSound, AllFiled, AnswerReport, Sound
<1>2. v.served \in Nat
  BY <1>1, OutcomesAssumption DEF AllReaders
<1>3. reader' = [reader EXCEPT ![r] = w] /\ alertRuns' = alertRuns
  BY <1>1 DEF AnswerReport, AllReaders
<1> HIDE DEF v
<1>4. w.at = at /\ w.served = served /\ w.req = v.req /\ w.steps = v.steps
  BY <1>1 DEF AllReaders
<1>5. v.steps = 0 /\ RunsIn(alertRuns, <<r, v.served>>) = <<>>
      /\ \A n \in Nat : n > v.served => RunsIn(alertRuns, <<r, n>>) = <<>>
  BY <1>1, <1>2 DEF Filed, NoneOf
<1> HIDE DEF w
<1>6. Filed(r, w, alertRuns)
  <2>1. CASE Steps(v.req) = <<>>
    <3>1. w.at = "served" /\ w.served = v.served + 1 /\ Steps(w.req) = <<>>
      BY <1>4, <2>1
    <3>2. NoneOf(r, w, alertRuns)
      <4> SUFFICES ASSUME NEW n \in Nat, n > w.served \/ n = w.served PROVE RunsIn(alertRuns, <<r, n>>) = <<>>
        BY DEF NoneOf
      <4>1. n > v.served
        BY <1>2, <3>1
      <4> QED
        BY <1>5, <4>1
    <3> QED
      BY <3>1, <3>2 DEF Filed
  <2>2. CASE Steps(v.req) # <<>>
    <3>1. w.at = "persist" /\ w.served = v.served /\ w.steps = 0
      BY <1>4, <1>5, <2>2
    <3>2. 0 < Len(Steps(w.req))
      BY <1>1, <1>4, <2>2, StepsAre
    <3>3. Written(w, <<r, w.served>>, w.steps, alertRuns)
      BY <1>5, <3>1, NothingWritten
    <3>4. NoneOf(r, w, alertRuns)
      BY <1>5, <3>1 DEF NoneOf
    <3> QED
      BY <3>1, <3>2, <3>3, <3>4 DEF Filed
  <2> QED
    BY <2>1, <2>2
<1> QED
  BY <1>1, <1>3, <1>6, FiledMoves

(* What a step writes depends on the request and its loads alone. *)
LEMMA SameRun ==
  ASSUME NEW v, NEW w, w.req = v.req, w.loads = v.loads, NEW i, NEW by
  PROVE  RunFor(w, i, by) = RunFor(v, i, by)
BY DEF RunFor, Verdicts, RunGroup

(* One step more is written. *)
LEMMA WrittenOnce ==
  ASSUME NEW runs, runs \in Seq(ToSet(runs)), NEW v, NEW w, w.req = v.req, w.loads = v.loads,
         NEW by, NEW n, n \in Nat, Written(v, by, n, runs)
  PROVE  Written(w, by, n + 1, Append(runs, RunFor(v, n + 1, by)))
<1> DEFINE own == RunsIn(runs, by)
           run == RunFor(v, n + 1, by)
           more == RunsIn(Append(runs, run), by)
<1>1. run.by = by
  BY DEF RunFor
<1> HIDE DEF run
<1>2. more = Append(own, run)
  BY <1>1, RunsInAppended
<1>3. own \in Seq(ToSet(runs)) /\ Len(own) = n /\ \A i \in 1..n : own[i] = RunFor(v, i, by)
  BY RunsInIs DEF Written
<1> HIDE DEF own, more
<1>4. Len(more) = n + 1 /\ more[n + 1] = run /\ \A i \in 1..n : more[i] = own[i]
  <2> DEFINE A == ToSet(runs) \cup {run}
  <2>1. own \in Seq(A) /\ run \in A
    <3>1. \A i \in 1..n : own[i] \in ToSet(runs)
      BY <1>3
    <3>2. own = [i \in 1..n |-> own[i]]
      BY <1>3
    <3> QED
      BY <3>1, <3>2
  <2> HIDE DEF A
  <2> QED
    BY <1>2, <1>3, <2>1
<1>5. \A i \in 1..(n + 1) : more[i] = RunFor(v, i, by)
  <2>1. \A i \in 1..(n + 1) : i = n + 1 \/ i \in 1..n
    OBVIOUS
  <2> QED
    BY <1>3, <1>4, <2>1 DEF run
<1>6. \A i \in 1..(n + 1) : more[i] = RunFor(w, i, by)
  BY <1>5, SameRun
<1> QED
  BY <1>4, <1>6 DEF Written, more, run

(* PersistStep. *)
LEMMA FiledPersist ==
  ASSUME LogInv, RunsInv, AllFiled, NEW r \in Readers, PersistStep(r)
  PROVE  AllFiled'
<1> DEFINE v == reader[r]
           step == v.steps + 1
           last == step = Len(Steps(v.req))
           at == IF last THEN "served" ELSE "persist"
           served == IF last THEN v.served + 1 ELSE v.served
           w == [v EXCEPT !.steps = step, !.at = at, !.served = served]
           by == <<r, v.served>>
           run == RunFor(v, step, by)
           more == Append(alertRuns, run)
<1>1. v \in AllReaders /\ reader \in [Readers -> AllReaders] /\ Filed(r, v, alertRuns) /\ v.at = "persist" /\ v.req \in Requests
  BY DEF LogInv, AllSound, AllFiled, PersistStep, Sound
<1>2. v.served \in Nat /\ v.steps \in Nat
  BY <1>1, OutcomesAssumption DEF AllReaders
<1>3. reader' = [reader EXCEPT ![r] = w]
  BY <1>1 DEF PersistStep, AllReaders
<1>4. alertRuns' = more
  BY PersistsARun
<1>5. v.steps < Len(Steps(v.req)) /\ Written(v, by, v.steps, alertRuns)
      /\ \A n \in Nat : n > v.served => RunsIn(alertRuns, <<r, n>>) = <<>>
  BY <1>1 DEF Filed, NoneOf
<1>6. alertRuns \in Seq(ToSet(alertRuns)) /\ run.by = by
  BY DEF RunsInv, RunFor
<1>7. \A q, n : <<q, n>> # by => RunsIn(more, <<q, n>>) = RunsIn(alertRuns, <<q, n>>)
  <2> HIDE DEF run, by
  <2>1. ASSUME NEW other, other # by PROVE RunsIn(more, other) = RunsIn(alertRuns, other)
    BY <1>6, <2>1, RunsInAppended
  <2> QED
    BY <2>1
<1> HIDE DEF v, last, run
<1>8. w.at = at /\ w.served = served /\ w.req = v.req /\ w.loads = v.loads /\ w.steps = step
  BY <1>1 DEF AllReaders
<1> HIDE DEF w
<1>9. Written(w, by, step, more)
  <2>1. more = Append(alertRuns, RunFor(v, v.steps + 1, by))
    BY DEF run
  <2> HIDE DEF more, by
  <2>2. Written(w, by, v.steps + 1, Append(alertRuns, RunFor(v, v.steps + 1, by)))
    BY <1>2, <1>5, <1>6, <1>8, WrittenOnce
  <2> QED
    BY <2>1, <2>2
<1> HIDE DEF more
<1>10. NoneOf(r, w, more)
  <2> SUFFICES ASSUME NEW n \in Nat, n > w.served \/ (n = w.served /\ w.at # "persist") PROVE RunsIn(more, <<r, n>>) = <<>>
    BY DEF NoneOf
  <2>1. n > v.served
    BY <1>2, <1>8
  <2>2. <<r, n>> # by
    BY <1>2, <2>1
  <2> QED
    BY <1>5, <1>7, <2>1, <2>2
<1>11. Filed(r, w, more)
  <2>1. CASE last
    <3>1. w.at = "served" /\ w.served - 1 = v.served /\ Len(Steps(w.req)) = step
      BY <1>2, <1>8, <2>1 DEF last
    <3> QED
      BY <1>9, <1>10, <3>1 DEF Filed
  <2>2. CASE ~last
    <3>1. Len(Steps(v.req)) \in Nat
      BY <1>1, StepsAre
    <3>2. w.at = "persist" /\ w.served = v.served /\ w.steps < Len(Steps(w.req))
      BY <1>2, <1>5, <1>8, <2>2, <3>1 DEF last
    <3> QED
      BY <1>8, <1>9, <1>10, <3>2 DEF Filed
  <2> QED
    BY <2>1, <2>2
<1>12. ASSUME NEW q \in Readers, q # r PROVE Filed(q, reader[q], more)
  <2> DEFINE u == reader[q]
  <2>1. Filed(q, u, alertRuns)
    BY DEF AllFiled
  <2>2. \A n : RunsIn(more, <<q, n>>) = RunsIn(alertRuns, <<q, n>>)
    <3>1. \A n : <<q, n>> # by
      BY <1>12
    <3> QED
      BY <1>7, <3>1
  <2> HIDE DEF u
  <2>3. NoneOf(q, u, more)
    BY <2>1, <2>2 DEF Filed, NoneOf
  <2>4. \A n, m : Written(u, <<q, n>>, m, alertRuns) => Written(u, <<q, n>>, m, more)
    BY <2>2 DEF Written
  <2> QED
    BY <2>1, <2>3, <2>4 DEF Filed, u
<1>13. \A q \in Readers : reader'[q] = IF q = r THEN w ELSE reader[q]
  BY <1>1, <1>3
<1>14. \A q \in Readers : Filed(q, reader'[q], more)
  BY <1>11, <1>12, <1>13
<1> QED
  BY <1>4, <1>14 DEF AllFiled

(* Runs count what the log settles, now and later. *)
LEMMA RunsStayBacked ==
  ASSUME LogInv, AllPaged, RunsInv, AllFiled, [OutNext]_outVars
  PROVE  RunsInv'
<1>1. ASSUME NEW run, BackedRun(run) PROVE BackedRun(run)'
  <2>1. ASSUME NEW settled, NEW window, Backed(settled, window) PROVE Backed(settled, window)'
    <3>1. /\ Cardinality(SettledIn(window)) \in Nat /\ Cardinality(SettledIn(window)') \in Nat
          /\ Cardinality(SettledIn(window)) <= Cardinality(SettledIn(window)')
      BY SettledGrows
    <3>2. settled \in Nat /\ settled <= Cardinality(SettledIn(window))
      BY <2>1 DEF Backed
    <3>3. settled <= Cardinality(SettledIn(window)')
      BY <3>1, <3>2
    <3> QED
      BY <3>2, <3>3 DEF Backed
  <2> QED
    BY <1>1, <2>1 DEF BackedRun
<1>2. CASE alertRuns' = alertRuns
  BY <1>1, <1>2 DEF RunsInv
<1>3. CASE alertRuns' # alertRuns
  <2>1. PICK r \in Readers : PersistStep(r)
    BY <1>3 DEF OutNext, outVars, CaptureLine, StartReport, ListSnapshots, CheckRow, InsertRow, FailReport,
                AnswerReport, CloseReport
  <2> DEFINE v == reader[r]
             run == RunFor(v, v.steps + 1, <<r, v.served>>)
  <2>2. alertRuns' = Append(alertRuns, run)
    BY <2>1, PersistsARun
  <2>3. v.at = "persist" /\ v.steps + 1 \in 1..Len(Steps(v.req))
    <3>1. v.at = "persist" /\ v.steps \in Nat /\ v.req \in Requests
      BY <2>1 DEF PersistStep, LogInv, AllSound, AllReaders, Sound
    <3>2. v.steps < Len(Steps(v.req))
      BY <3>1 DEF AllFiled, Filed
    <3>3. Len(Steps(v.req)) \in Nat
      BY <3>1, StepsAre
    <3> QED
      BY <3>1, <3>2, <3>3
  <2>4. BackedRun(run)
    BY <2>3, VerdictIsBacked
  <2> HIDE DEF run
  <2>5. alertRuns' \in Seq(ToSet(alertRuns')) /\ ToSet(alertRuns') = ToSet(alertRuns) \cup {run}
    BY <2>2, AppendedRuns DEF RunsInv
  <2>6. \A x \in ToSet(alertRuns') : BackedRun(x)'
    BY <1>1, <2>4, <2>5 DEF RunsInv
  <2> QED
    BY <2>5, <2>6 DEF RunsInv
<1> QED
  BY <1>2, <1>3

(* Alert runs are backed by the log, and those of an answer are complete.  *)
LEMMA FilingHolds == OutSpec => [](RunsInv /\ AllFiled)
<1>1. OutInit => RunsInv /\ AllFiled
  <2> SUFFICES ASSUME OutInit PROVE RunsInv /\ AllFiled
    OBVIOUS
  <2>1. alertRuns = <<>> /\ ToSet(alertRuns) = {} /\ alertRuns \in Seq(ToSet(alertRuns))
    BY DEF OutInit, ToSet
  <2>2. \A r \in Readers : Filed(r, reader[r], alertRuns)
    <3> SUFFICES ASSUME NEW r \in Readers PROVE Filed(r, reader[r], alertRuns)
      OBVIOUS
    <3>1. reader[r].at = "idle"
      BY DEF OutInit, NoRequest
    <3>2. \A by : RunsIn(alertRuns, by) = <<>>
      <4>1. \A by : RunsIn(alertRuns, by) \in Seq({})
        BY <2>1, RunsInIs
      <4> QED
        BY <4>1
    <3> QED
      BY <3>1, <3>2 DEF Filed, NoneOf
  <2> QED
    BY <2>1, <2>2 DEF RunsInv, AllFiled
<1>2. LogInv /\ AllPaged /\ RunsInv /\ AllFiled /\ [OutNext]_outVars => (RunsInv /\ AllFiled)'
  <2> SUFFICES ASSUME LogInv, AllPaged, RunsInv, AllFiled, [OutNext]_outVars PROVE RunsInv' /\ AllFiled'
    OBVIOUS
  <2>1. RunsInv'
    BY RunsStayBacked
  <2>2. CASE UNCHANGED <<alertRuns, reader>>
    BY <2>1, <2>2 DEF AllFiled
  <2>3. CASE ~UNCHANGED <<alertRuns, reader>>
    <3>1. PICK r \in Readers :
            \/ \/ \E req \in Requests : StartReport(r, req)
               \/ ListSnapshots(r) \/ CheckRow(r) \/ InsertRow(r) \/ FailReport(r) \/ CloseReport(r)
            \/ AnswerReport(r)
            \/ PersistStep(r)
      BY <2>3 DEF OutNext, outVars, CaptureLine
    <3> QED
      BY <2>1, <3>1, QuietSteps, FiledAnswer, FiledPersist
  <2> QED
    BY <2>1, <2>2, <2>3
<1> QED
  BY <1>1, <1>2, LogInvHolds, PagedHolds, PTL DEF OutSpec

(* A verdict counts a snapshot as settled only if the log settles it. *)
LEMMA RunsRestOnLog ==
  ASSUME RunsInv
  PROVE  VerdictsRestOnLog
BY DEF RunsInv, VerdictsRestOnLog, BackedRun, Backed

(* The history, read from its end, is what was appended. *)
LEMMA HistoryIs ==
  ASSUME RunsInv
  PROVE  Reverse(AlertHistory(Len(alertRuns))) = alertRuns
<1> DEFINE A == ToSet(alertRuns)
           n == Len(alertRuns)
           back == Reverse(alertRuns)
           page == AlertHistory(n)
<1>1. n \in Nat /\ alertRuns \in Seq(A)
  BY DEF RunsInv
<1>2. alertRuns = [i \in 1..n |-> alertRuns[i]]
  BY <1>1
<1>3. back = [i \in 1..n |-> alertRuns[n - i + 1]]
  BY DEF Reverse
<1> HIDE DEF A
<1>4. back \in Seq(A) /\ Len(back) = n
  <2>1. \A i \in 1..n : alertRuns[n - i + 1] \in A
    BY <1>1
  <2> HIDE DEF n, back
  <2> QED
    BY <1>1, <1>3, <2>1
<1>5. page = SubSeq(back, 1, n)
  BY <1>1 DEF AlertHistory
<1> HIDE DEF page, back
<1>6. page = back
  <2>1. back = [i \in 1..n |-> back[i]]
    BY <1>4
  <2>2. SubSeq(back, 1, n) = [i \in 1..n |-> back[i]]
    BY <1>1, <1>4
  <2> QED
    BY <1>5, <2>1, <2>2
<1>7. Reverse(page) = [i \in 1..n |-> page[n - i + 1]]
  BY <1>4, <1>6 DEF Reverse
<1> HIDE DEF n
<1>8. \A i \in 1..n : page[n - i + 1] = alertRuns[i]
  <2> SUFFICES ASSUME NEW i \in 1..n PROVE page[n - i + 1] = alertRuns[i]
    OBVIOUS
  <2>1. n - i + 1 \in 1..n /\ n - (n - i + 1) + 1 = i
    BY <1>1
  <2> QED
    BY <1>3, <1>6, <2>1
<1>9. Reverse(page) = alertRuns
  BY <1>2, <1>7, <1>8
<1> QED
  BY <1>9 DEF page, n

(* The windows of an alert follow one another. *)
LEMMA WindowsRise ==
  ASSUME NEW req, req \in Requests, NEW i, i \in 1..Len(Steps(req)), i > 1
  PROVE  Steps(req)[i - 1].current[2] < Steps(req)[i].current[2]
<1>1. req \in AllRequests
  BY OutcomesAssumption
<1>2. req.anchor \in Int /\ req.steps \in Nat /\ req.days \in Int
  BY <1>1 DEF AllRequests, Counts
<1>3. CASE req.kind = "rolling"
  <2>1. Steps(req) = RollingWindows(req.anchor, req.days, req.steps)
    BY <1>3 DEF Steps
  <2> DEFINE anchor == req.anchor
             days == req.days
             steps == req.steps
  <2>2. anchor \in Int /\ steps \in Nat /\ days \in Int
    BY <1>2
  <2>3. Steps(req) = RollingWindows(anchor, days, steps)
    BY <2>1
  <2> HIDE DEF anchor, days, steps
  <2>4. Len(Steps(req)) = steps
    BY <2>2, <2>3 DEF RollingWindows
  <2>5. i \in 1..steps /\ i - 1 \in 1..steps
    BY <2>2, <2>4
  <2>6. Steps(req)[i].current[2] = anchor - (steps - i) /\ Steps(req)[i - 1].current[2] = anchor - (steps - (i - 1))
    BY <2>3, <2>5 DEF RollingWindows
  <2> QED
    BY <2>2, <2>5, <2>6
<1>4. CASE req.kind # "rolling"
  <2>1. Steps(req) = IF req.kind = "point" THEN <<[current |-> req.current, baseline |-> req.baseline]>> ELSE <<>>
    BY <1>4 DEF Steps
  <2>2. Len(Steps(req)) \in {0, 1}
    BY <2>1
  <2> QED
    BY <2>2
<1> QED
  BY <1>3, <1>4

Complete(own, v) ==
  /\ Len(own) = Len(Steps(v.req))
  /\ \A i \in DOMAIN own : own[i].step = i - 1 /\ own[i].group = own[1].group /\ own[i].verdict = Verdicts(v)[i]
  /\ \A i \in DOMAIN own : i > 1 => own[i - 1].window.current[2] < own[i].window.current[2]

(* An answered alert is in the history with all its steps. *)
LEMMA AlertsAreRecorded ==
  ASSUME LogInv, RunsInv, AllFiled
  PROVE  AnsweredAlertsAreRecorded
<1>s. AnsweredAlertsAreRecorded <=>
        \A r \in Readers : (reader[r].at = "served" /\ Steps(reader[r].req) # <<>>) =>
          Complete(Where(Reverse(AlertHistory(Len(alertRuns))),
                       {i \in DOMAIN Reverse(AlertHistory(Len(alertRuns))) :
                          Reverse(AlertHistory(Len(alertRuns)))[i].by = <<r, reader[r].served - 1>>}), reader[r])
  BY DEF AnsweredAlertsAreRecorded, Complete
<1> SUFFICES ASSUME NEW r \in Readers, reader[r].at = "served", Steps(reader[r].req) # <<>>
             PROVE  Complete(Where(Reverse(AlertHistory(Len(alertRuns))),
                               {i \in DOMAIN Reverse(AlertHistory(Len(alertRuns))) :
                                  Reverse(AlertHistory(Len(alertRuns)))[i].by = <<r, reader[r].served - 1>>}), reader[r])
  BY <1>s
<1> DEFINE v == reader[r]
           by == <<r, v.served - 1>>
           n == Len(Steps(v.req))
           own == RunsIn(alertRuns, by)
<1>1. Written(v, by, n, alertRuns)
  BY DEF AllFiled, Filed
<1>2. v.req \in Requests
  BY DEF LogInv, AllSound, Sound
<1>3. n \in Nat
  BY <1>2, StepsAre
<1>4. own \in Seq(ToSet(alertRuns))
  BY RunsInIs DEF RunsInv
<1>5. Len(own) = n /\ \A i \in 1..n : own[i] = RunFor(v, i, by)
  BY <1>1 DEF Written
<1>w. \A i \in 1..n : i > 1 => Steps(v.req)[i - 1].current[2] < Steps(v.req)[i].current[2]
  BY <1>2, WindowsRise
<1>o. own = Where(alertRuns, {i \in DOMAIN alertRuns : alertRuns[i].by = <<r, reader[r].served - 1>>})
  BY DEF RunsIn
<1> HIDE DEF v, by, own
<1>6. DOMAIN own = 1..n
  BY <1>4, <1>5
<1> HIDE DEF n
<1>7. ASSUME NEW i \in 1..n
      PROVE  own[i].step = i - 1 /\ own[i].group = own[1].group /\ own[i].verdict = Verdicts(v)[i] /\ own[i].window = Steps(v.req)[i]
  <2>1. 1 \in 1..n
    BY <1>3
  <2> QED
    BY <1>5, <2>1 DEF RunFor
<1>8. \A i \in 1..n : i > 1 => own[i - 1].window.current[2] < own[i].window.current[2]
  <2> SUFFICES ASSUME NEW i \in 1..n, i > 1 PROVE own[i - 1].window.current[2] < own[i].window.current[2]
    OBVIOUS
  <2>1. i - 1 \in 1..n
    BY <1>3
  <2>2. own[i - 1].window = Steps(v.req)[i - 1] /\ own[i].window = Steps(v.req)[i]
    BY <1>7, <2>1
  <2> QED
    BY <1>w, <2>2
<1>9. Complete(own, v)
  BY <1>5, <1>6, <1>7, <1>8 DEF Complete, n
<1>10. Reverse(AlertHistory(Len(alertRuns))) = alertRuns
  BY HistoryIs
<1> QED
  BY <1>9, <1>10, <1>o DEF v

-----------------------------------------------------------------------------
(* The models page. *)

AllRecords == [model : Int, count : Nat, settled : Nat, clvCount : Nat, clv : Int]
OnePerModel(S) == \A a, b \in S : a.model = b.model => a = b

Positions(run, s) ==
  /\ run[0] = <<>> /\ run[Len(s)] = StableSort(s, RecordBefore)
  /\ \A i \in 1..Len(s) :
       run[i] = InsertBehind(run[i - 1], s[i], {j \in DOMAIN run[i - 1] : ~RecordBefore(s[i], run[i - 1][j])})

(* Records are put in one after the other. *)
LEMMA PositionRuns ==
  ASSUME NEW A, NEW s, s \in Seq(A)
  PROVE  \E run \in [0..Len(s) -> Seq(A)] : Positions(run, s)
<1> DEFINE n == Len(s)
           V == Seq(A)
           op(v, x) == InsertBehind(v, x, {j \in DOMAIN v : ~RecordBefore(x, v[j])})
           IsIter(h) == h = [T \in SUBSET (1..n) |->
                               IF T = {} THEN <<>> ELSE op(h[T \ {Max(T)}], s[Max(T)])]
           iter == CHOOSE h : IsIter(h)
           base == <<>>
           step == [i \in 1..n |-> [v \in V |-> op(v, s[i])]]
<1>0. n \in Nat /\ DOMAIN s = 1..n /\ base \in V
  OBVIOUS
<1>1. StableSort(s, RecordBefore) = iter[1..n]
  BY <1>0 DEF StableSort, FoldLeft, MapThenFoldSet
<1>2. \A i \in 1..n : s[i] \in A
  OBVIOUS
<1>3. step \in [1..n -> [V -> V]]
  <2>1. ASSUME NEW v \in V, NEW x \in A PROVE op(v, x) \in V
    BY InsertedIsSequence
  <2> HIDE DEF op, n, V
  <2> QED
    BY <1>2, <2>1
<1> HIDE DEF n, op
<1>4. \E h : IsIter(h)
  <2>1. PICK g \in [SUBSET (1..n) -> V] : FoldsLeft(g, base, step, n, V)
    <3> HIDE DEF step, V, base
    <3> QED
      BY <1>0, <1>3, LeftFolds
  <2> HIDE DEF V
  <2>2. \A T \in SUBSET (1..n) : g[T] = IF T = {} THEN <<>> ELSE op(g[T \ {Max(T)}], s[Max(T)])
    BY <2>1 DEF FoldsLeft
  <2>3. g = [T \in SUBSET (1..n) |-> g[T]]
    BY <2>1
  <2>4. IsIter(g)
    BY <2>2, <2>3
  <2> QED
    BY <2>4
<1>5. IsIter(iter)
  <2> HIDE DEF IsIter
  <2> QED
    BY <1>4
<1>6. Iterates(iter, base, step, n, V)
  <2> HIDE DEF iter, V
  <2>1. ASSUME NEW T \in SUBSET (1..n), T # {}, iter[T \ {Max(T)}] \in V
        PROVE  iter[T] = step[Max(T)][iter[T \ {Max(T)}]]
    <3>1. Max(T) \in 1..n
      BY <1>0, <2>1, MaxOfPlaces
    <3> QED
      BY <1>5, <2>1, <3>1
  <2>2. \A T \in SUBSET (1..n) : T = {} => iter[T] = base
    BY <1>5
  <2> HIDE DEF step, base
  <2> QED
    BY <2>1, <2>2 DEF Iterates
<1>7. PICK run \in [0..n -> V] : StepsBy(run, base, step, n, iter[1..n])
  <2> HIDE DEF iter, step, V, base
  <2> QED
    BY <1>0, <1>3, <1>6, LeftRuns
<1>8. ASSUME NEW i \in 1..n PROVE run[i] = op(run[i - 1], s[i])
  <2>1. i - 1 \in 0..n
    BY <1>0
  <2>2. run[i - 1] \in V
    <3> HIDE DEF V
    <3> QED
      BY <1>7, <2>1
  <2> HIDE DEF V
  <2> QED
    BY <1>7, <2>2 DEF StepsBy
<1>9. run[0] = <<>> /\ run[n] = StableSort(s, RecordBefore)
  BY <1>1, <1>7 DEF StepsBy
<1> HIDE DEF iter
<1> QED
  BY <1>8, <1>9 DEF n, op, Positions

RecordOrder(S) == {pair \in S \X S : RecordBefore(pair[1], pair[2])}

(* Settled count, count, average CLV and model order the records. *)
LEMMA RecordOrderIsOrder ==
  ASSUME NEW S, S \in SUBSET AllRecords, OnePerModel(S)
  PROVE  /\ StrictOrderOn(RecordOrder(S), S) /\ TotalOn(RecordOrder(S), S)
         /\ \A a, b \in S : <<a, b>> \in RecordOrder(S) <=> RecordBefore(a, b)
<1> DEFINE n(x) == IF x.clvCount = 0 THEN 1 ELSE x.clvCount
           Least(a, b) == a.clv * n(b) >= b.clv * n(a)
<1>1. \A a, b \in S : <<a, b>> \in RecordOrder(S) <=> RecordBefore(a, b)
  BY DEF RecordOrder
<1>2. \A a \in S : a.model \in Int /\ a.count \in Nat /\ a.settled \in Nat /\ a.clv \in Int /\ n(a) \in Nat /\ n(a) > 0
  <2> SUFFICES ASSUME NEW a \in S
               PROVE  a.model \in Int /\ a.count \in Nat /\ a.settled \in Nat /\ a.clv \in Int /\ n(a) \in Nat /\ n(a) > 0
    OBVIOUS
  <2>1. a \in AllRecords
    OBVIOUS
  <2> QED
    BY <2>1 DEF AllRecords
<1> HIDE DEF n
<1>3. \A a, b \in S : a.clv * n(b) \in Int
  BY <1>2
<1>4. \A a, b \in S : BetterCLV(a, b) <=> ~Least(b, a)
  BY <1>3 DEF BetterCLV, n
<1>5. \A a, b \in S : Least(a, b) \/ Least(b, a)
  BY <1>3
<1>6. ASSUME NEW a \in S, NEW b \in S, NEW c \in S, Least(a, b), Least(b, c)
      PROVE  Least(a, c) /\ (~Least(b, a) \/ ~Least(c, b) => ~Least(c, a))
  <2>1. /\ a.clv \in Int /\ b.clv \in Int /\ c.clv \in Int
        /\ n(a) \in Nat /\ n(b) \in Nat /\ n(c) \in Nat /\ n(a) > 0 /\ n(b) > 0 /\ n(c) > 0
    BY <1>2
  <2>2. /\ a.clv * n(c) >= c.clv * n(a)
        /\ a.clv * n(b) > b.clv * n(a) \/ b.clv * n(c) > c.clv * n(b) => a.clv * n(c) > c.clv * n(a)
    BY <1>6, <2>1, QuotientsCompare
  <2> QED
    BY <1>3, <2>2
<1> HIDE DEF Least
<1>7. \A a, b \in S :
        RecordBefore(a, b) <=>
          \/ a.settled > b.settled
          \/ a.settled = b.settled /\ a.count > b.count
          \/ a.settled = b.settled /\ a.count = b.count /\ (~Least(b, a) \/ (Least(a, b) /\ a.model < b.model))
  BY <1>4 DEF RecordBefore
<1>8. StrictOrderOn(RecordOrder(S), S)
  <2>1. ASSUME NEW a \in S, NEW b \in S, RecordBefore(a, b) PROVE ~RecordBefore(b, a)
    BY <1>2, <1>5, <1>7, <2>1
  <2>2. ASSUME NEW a \in S, NEW b \in S, NEW c \in S, RecordBefore(a, b), RecordBefore(b, c)
        PROVE  RecordBefore(a, c)
    <3>1. CASE a.settled = b.settled /\ b.settled = c.settled /\ a.count = b.count /\ b.count = c.count
      <4>1. Least(a, b) /\ Least(b, c)
        BY <1>2, <1>5, <1>7, <2>2, <3>1
      <4>2. Least(a, c) /\ (~Least(b, a) \/ ~Least(c, b) => ~Least(c, a))
        BY <1>6, <4>1
      <4>3. ~Least(b, a) \/ a.model < b.model
        BY <1>2, <1>7, <2>2, <3>1
      <4>4. ~Least(c, b) \/ b.model < c.model
        BY <1>2, <1>7, <2>2, <3>1
      <4>5. ~Least(c, a) \/ a.model < c.model
        BY <1>2, <4>2, <4>3, <4>4
      <4> QED
        BY <1>7, <3>1, <4>2, <4>5
    <3>2. CASE ~(a.settled = b.settled /\ b.settled = c.settled /\ a.count = b.count /\ b.count = c.count)
      BY <1>2, <1>7, <2>2, <3>2
    <3> QED
      BY <3>1, <3>2
  <2> QED
    BY <1>1, <2>1, <2>2 DEF StrictOrderOn
<1>9. TotalOn(RecordOrder(S), S)
  <2>1. ASSUME NEW a \in S, NEW b \in S, a # b PROVE RecordBefore(a, b) \/ RecordBefore(b, a)
    <3>1. a.model # b.model
      BY <2>1 DEF OnePerModel
    <3> QED
      BY <1>2, <1>5, <1>7, <3>1
  <2> QED
    BY <1>1, <2>1 DEF TotalOn
<1> QED
  BY <1>1, <1>8, <1>9

(* The records of the models page, in their order. *)
LEMMA RecordsInOrder ==
  ASSUME NEW S, S \in SUBSET AllRecords, OnePerModel(S), IsFiniteSet(S)
  PROVE  /\ Arranged(S, RecordBefore) \in Seq(S) /\ ToSet(Arranged(S, RecordBefore)) = S
         /\ SortedBy(Arranged(S, RecordBefore), RecordOrder(S))
<1> DEFINE s == SetToSeq(S)
           before == RecordOrder(S)
           n == Len(s)
<1>s. s \in Seq(S) /\ IsInjective(s) /\ ToSet(s) = S
  BY SetsHaveListings
<1>a. Arranged(S, RecordBefore) = StableSort(s, RecordBefore)
  BY DEF Arranged
<1> HIDE DEF s
<1>1. n \in Nat /\ DOMAIN s = 1..n /\ \A i \in 1..n : s[i] \in S
  BY <1>s
<1>2. /\ StrictOrderOn(before, S) /\ TotalOn(before, S)
      /\ \A p, q \in S : <<p, q>> \in before <=> RecordBefore(p, q)
  BY RecordOrderIsOrder
<1>3. PICK run \in [0..n -> Seq(S)] : Positions(run, s)
  BY <1>s, PositionRuns
<1> HIDE DEF before
<1>4. ASSUME NEW i \in 1..n
      PROVE  run[i] = InsertBehind(run[i - 1], s[i], {j \in DOMAIN run[i - 1] : <<s[i], run[i - 1][j]>> \notin before})
  <2>1. i - 1 \in 0..n /\ s[i] \in S
    BY <1>1
  <2>2. run[i - 1] \in Seq(S)
    BY <2>1
  <2>3. \A j \in DOMAIN run[i - 1] : run[i - 1][j] \in S
    BY <2>2
  <2>4. {j \in DOMAIN run[i - 1] : <<s[i], run[i - 1][j]>> \notin before}
          = {j \in DOMAIN run[i - 1] : ~RecordBefore(s[i], run[i - 1][j])}
    BY <1>2, <2>1, <2>3
  <2> QED
    BY <1>3, <2>4 DEF Positions, n
<1>5. Insertions(run, s, before) /\ run[n] = StableSort(s, RecordBefore)
  BY <1>3, <1>4 DEF Insertions, Positions, n
<1>6. run[n] \in Seq(S) /\ SortedBy(run[n], before) /\ ToSet(run[n]) = ToSet(s)
  BY <1>s, <1>2, <1>3, <1>5, InsertionsSort DEF n
<1> QED
  BY <1>a, <1>s, <1>5, <1>6 DEF before

(* The closing line values that a record sums up. *)
WithCLV(s) == s \in Seq(TrueOutcomes) /\ \A i \in 1..Len(s) : s[i].clv # <<>>

(* The sum of closing line values is a number. *)
LEMMA ClvSums ==
  ASSUME NEW s, WithCLV(s)
  PROVE  Sum(LAMBDA o : o.clv[1], s) \in Int
<1> DEFINE f == [i \in DOMAIN s |-> s[i].clv[1]]
<1>1. Len(s) \in Nat /\ DOMAIN s = 1..Len(s)
  BY DEF WithCLV
<1>2. \A i \in 1..Len(s) : s[i].clv[1] \in Int
  <2> SUFFICES ASSUME NEW i \in 1..Len(s) PROVE s[i].clv[1] \in Int
    OBVIOUS
  <2>1. s[i] \in TrueOutcomes /\ s[i].clv # <<>>
    BY DEF WithCLV
  <2>2. s[i].clv \in Seq(Int)
    BY <2>1 DEF TrueOutcomes, AllOutcomes
  <2> QED
    BY <2>1, <2>2
<1>3. f \in [DOMAIN s -> Int] /\ IsFiniteSet(DOMAIN s)
  <2>1. ASSUME NEW n \in Nat PROVE IsFiniteSet(1..n)
    BY FS_Interval
  <2> QED
    BY <1>1, <1>2, <2>1
<1>4. Sum(LAMBDA o : o.clv[1], s) = SumFunctionOnSet(f, DOMAIN s)
  BY DEF Sum, SumAt
<1> HIDE DEF f
<1> QED
  BY <1>3, <1>4, SumIsInt

-----------------------------------------------------------------------------
(* As many places as there are different things, when all are met. *)
LEMMA CountedExactly ==
  ASSUME NEW A, NEW s, s \in Seq(A), NEW T, NEW f, f \in [1..Len(s) -> T],
         \A i, j \in 1..Len(s) : f[i] = f[j] => i = j, \A x \in T : \E i \in 1..Len(s) : f[i] = x
  PROVE  Cardinality(T) = Len(s)
<1> DEFINE n == Len(s)
<1>1. n \in Nat
  OBVIOUS
<1>2. f \in Bijection(1..n, T)
  BY DEF Bijection, Injection, Surjection, IsInjective
<1> HIDE DEF n
<1>3. IsFiniteSet(1..n) /\ Cardinality(1..n) = n
  BY <1>1, FS_Interval
<1>4. ExistsBijection(1..n, T)
  BY <1>2 DEF ExistsBijection
<1>5. Cardinality(T) = n
  BY <1>3, <1>4, FS_Bijection
<1> QED
  BY <1>5 DEF n

OncePerSnapshot(load) ==
  load \in Seq(TrueOutcomes) /\ \A j, k \in 1..Len(load) : load[j].snapshot = load[k].snapshot => j = k

(* Some outcomes of a load: still one of each snapshot. *)
LEMMA PickedOnce ==
  ASSUME NEW load, OncePerSnapshot(load), NEW places
  PROVE  LET own == Where(load, places)
         IN  /\ OncePerSnapshot(own) /\ Len(own) \in Nat
             /\ ToSet(own) = {load[i] : i \in places \cap (1..Len(load))}
<1> DEFINE own == Where(load, places)
           A == ToSet(load)
<1>0. load \in Seq(TrueOutcomes) /\ \A j, k \in 1..Len(load) : load[j].snapshot = load[k].snapshot => j = k
  BY DEF OncePerSnapshot
<1>1. IsInjective(load) /\ \A x, y \in A : x.snapshot = y.snapshot => x = y
  <2>1. DOMAIN load = 1..Len(load)
    BY <1>0
  <2>2. \A x \in A : \E i \in 1..Len(load) : x = load[i]
    BY <2>1 DEF ToSet
  <2> QED
    BY <1>0, <2>1, <2>2 DEF IsInjective
<1>2. own \in Seq(TrueOutcomes) /\ ToSet(own) = {load[i] : i \in places \cap (1..Len(load))} /\ IsInjective(own)
  BY <1>0, <1>1, WhereElements
<1>3. ToSet(own) \subseteq A
  <2>1. \A i \in 1..Len(load) : load[i] \in A
    BY <1>0 DEF ToSet
  <2> QED
    BY <1>2, <2>1
<1> HIDE DEF own, A
<1>4. Len(own) \in Nat /\ DOMAIN own = 1..Len(own)
  BY <1>2
<1>5. \A j, k \in 1..Len(own) : own[j].snapshot = own[k].snapshot => j = k
  <2>1. \A j \in 1..Len(own) : own[j] \in A
    BY <1>3, <1>4 DEF ToSet
  <2> QED
    BY <1>1, <1>2, <1>4, <2>1 DEF IsInjective
<1> QED
  BY <1>2, <1>4, <1>5 DEF OncePerSnapshot, own

(* A record counts as settled what its load has settled of the model. *)
LEMMA RecordIs ==
  ASSUME NEW model, model \in Int, NEW load, OncePerSnapshot(load)
  PROVE  LET record == ModelRecord(model, load)
         IN  /\ record \in AllRecords /\ record.model = model
             /\ record.settled = Cardinality(SettledBy(model, load))
<1> DEFINE own == Where(load, {i \in DOMAIN load : Advice[load[i].snapshot].model = model})
           settled == Where(own, {i \in DOMAIN own : IsSettledResult(own[i].result)})
           withCLV == Where(own, {i \in DOMAIN own : own[i].clv # <<>>})
           record == ModelRecord(model, load)
           T == SettledBy(model, load)
           f == [k \in 1..Len(settled) |-> settled[k].snapshot]
<1>0. load \in Seq(TrueOutcomes) /\ DOMAIN load = 1..Len(load)
  BY DEF OncePerSnapshot
<1>1. /\ OncePerSnapshot(own) /\ Len(own) \in Nat
      /\ ToSet(own) = {load[i] : i \in {j \in DOMAIN load : Advice[load[j].snapshot].model = model} \cap (1..Len(load))}
  BY PickedOnce
<1>r. record = [model |-> model, count |-> Len(own), settled |-> Len(settled),
                clvCount |-> Len(withCLV), clv |-> Sum(LAMBDA o : o.clv[1], withCLV)]
  BY DEF ModelRecord
<1> HIDE DEF own, record
<1>2. ToSet(own) = {o \in ToSet(load) : Advice[o.snapshot].model = model}
  BY <1>0, <1>1 DEF ToSet
<1>o. own \in Seq(TrueOutcomes) /\ DOMAIN own = 1..Len(own)
  BY <1>1 DEF OncePerSnapshot
<1>3. /\ OncePerSnapshot(settled) /\ Len(settled) \in Nat
      /\ ToSet(settled) = {own[i] : i \in {j \in DOMAIN own : IsSettledResult(own[j].result)} \cap (1..Len(own))}
  BY <1>1, PickedOnce
<1>4. /\ OncePerSnapshot(withCLV) /\ Len(withCLV) \in Nat
      /\ ToSet(withCLV) = {own[i] : i \in {j \in DOMAIN own : own[j].clv # <<>>} \cap (1..Len(own))}
  BY <1>1, PickedOnce
<1> HIDE DEF settled, withCLV
<1>5. ToSet(settled) = {o \in ToSet(own) : IsSettledResult(o.result)}
  BY <1>o, <1>3 DEF ToSet
<1>6. WithCLV(withCLV)
  <2>1. withCLV \in Seq(TrueOutcomes)
    BY <1>4 DEF OncePerSnapshot
  <2>2. ASSUME NEW i \in 1..Len(withCLV) PROVE withCLV[i].clv # <<>>
    <3>1. withCLV[i] \in ToSet(withCLV)
      BY <2>1 DEF ToSet
    <3> QED
      BY <1>4, <3>1
  <2> QED
    BY <2>1, <2>2 DEF WithCLV
<1>7. Sum(LAMBDA o : o.clv[1], withCLV) \in Int
  BY <1>6, ClvSums
<1>8. record \in AllRecords /\ record.model = model /\ record.settled = Len(settled)
  BY <1>r, <1>1, <1>3, <1>4, <1>7 DEF AllRecords
<1>9. settled \in Seq(TrueOutcomes) /\ DOMAIN settled = 1..Len(settled)
  BY <1>3 DEF OncePerSnapshot
<1>10. \A o \in TrueOutcomes : o.snapshot \in Snapshots /\ (IsSettledResult(o.result) <=> o.status = "settled")
  BY DEF TrueOutcomes, AllOutcomes, IsTrue
<1>11. \A o \in ToSet(load) : o \in TrueOutcomes
  BY <1>0 DEF ToSet
<1>12. \A k \in 1..Len(settled) : settled[k] \in ToSet(settled)
  BY <1>9 DEF ToSet
<1>13. f \in [1..Len(settled) -> T]
  <2> SUFFICES ASSUME NEW k \in 1..Len(settled) PROVE settled[k].snapshot \in T
    OBVIOUS
  <2> DEFINE o == settled[k]
  <2>1. o \in ToSet(load) /\ Advice[o.snapshot].model = model /\ IsSettledResult(o.result)
    BY <1>2, <1>5, <1>12
  <2> HIDE DEF o
  <2>2. o.snapshot \in Snapshots /\ o.status = "settled"
    BY <1>10, <1>11, <2>1
  <2> QED
    BY <2>1, <2>2 DEF SettledBy, o
<1>14. \A j, k \in 1..Len(settled) : f[j] = f[k] => j = k
  BY <1>3 DEF OncePerSnapshot
<1>15. \A x \in T : \E k \in 1..Len(settled) : f[k] = x
  <2> SUFFICES ASSUME NEW x \in T PROVE \E k \in 1..Len(settled) : f[k] = x
    OBVIOUS
  <2>1. PICK o \in ToSet(load) : o.snapshot = x /\ o.status = "settled" /\ Advice[x].model = model
    BY DEF SettledBy
  <2>2. o \in ToSet(settled)
    BY <1>2, <1>5, <1>10, <1>11, <2>1
  <2>3. PICK k \in 1..Len(settled) : o = settled[k]
    BY <1>9, <2>2 DEF ToSet
  <2> QED
    BY <2>1, <2>3
<1> HIDE DEF f, T
<1>16. Cardinality(T) = Len(settled)
  BY <1>9, <1>13, <1>14, <1>15, CountedExactly
<1> QED
  BY <1>8, <1>16 DEF record, T

ModelsIn(load) == {Advice[o.snapshot].model : o \in ToSet(load)}
RecordsOf(load) == {ModelRecord(model, load) : model \in ModelsIn(load)}

(* The models of a load. *)
LEMMA ModelsAre ==
  ASSUME NEW load, load \in Seq(TrueOutcomes)
  PROVE  IsFiniteSet(ModelsIn(load)) /\ ModelsIn(load) \subseteq Int
<1> DEFINE n == Len(load)
           f == [i \in 1..n |-> Advice[load[i].snapshot].model]
           T == ModelsIn(load)
<1>1. n \in Nat /\ DOMAIN load = 1..n /\ \A i \in 1..n : load[i] \in TrueOutcomes
  OBVIOUS
<1>2. T = {f[i] : i \in 1..n}
  BY <1>1 DEF ModelsIn, ToSet
<1>3. \A i \in 1..n : f[i] \in Int
  <2> SUFFICES ASSUME NEW i \in 1..n PROVE f[i] \in Int
    OBVIOUS
  <2>1. load[i].snapshot \in Snapshots
    BY <1>1 DEF TrueOutcomes, AllOutcomes
  <2>2. Advice[load[i].snapshot] \in AllAdvice
    BY <2>1, OutcomesAssumption DEF Snapshots
  <2> QED
    BY <2>2 DEF AllAdvice
<1> HIDE DEF n
<1>4. f \in Surjection(1..n, T)
  BY <1>2 DEF Surjection
<1>5. IsFiniteSet(1..n)
  BY <1>1, FS_Interval
<1> HIDE DEF T
<1>6. IsFiniteSet(T)
  BY <1>4, <1>5, FS_Surjection
<1> QED
  BY <1>2, <1>3, <1>6 DEF T

(* Their records, sorted. *)
LEMMA RecordsAre ==
  ASSUME NEW load, OncePerSnapshot(load)
  PROVE  LET S == RecordsOf(load)
             all == Arranged(S, RecordBefore)
         IN  /\ S \in SUBSET AllRecords /\ OnePerModel(S)
             /\ all \in Seq(S) /\ ToSet(all) = S /\ SortedBy(all, RecordOrder(S))
             /\ \A a, b \in S : <<a, b>> \in RecordOrder(S) => a.settled >= b.settled
             /\ \A a \in S : a.settled = Cardinality(SettledBy(a.model, load))
             /\ \A model \in ModelsIn(load) : \E a \in S : a.model = model
<1> DEFINE S == RecordsOf(load)
           M == ModelsIn(load)
<1>1. IsFiniteSet(M) /\ M \subseteq Int
  BY ModelsAre DEF OncePerSnapshot
<1>2. \A model \in M :
        /\ ModelRecord(model, load) \in AllRecords /\ ModelRecord(model, load).model = model
        /\ ModelRecord(model, load).settled = Cardinality(SettledBy(model, load))
  BY <1>1, RecordIs
<1>3. S = {ModelRecord(model, load) : model \in M}
  BY DEF RecordsOf
<1>4. S \in SUBSET AllRecords /\ OnePerModel(S)
  <2>1. \A a \in S : \E model \in M : a = ModelRecord(model, load)
    BY <1>3
  <2> HIDE DEF S, M
  <2>2. \A a \in S : a \in AllRecords /\ a = ModelRecord(a.model, load)
    BY <1>2, <2>1
  <2> QED
    BY <2>2 DEF OnePerModel
<1>5. IsFiniteSet(S)
  <2> DEFINE f == [model \in M |-> ModelRecord(model, load)]
  <2> HIDE DEF M
  <2>1. S = {f[model] : model \in M}
    BY <1>3
  <2>2. f \in Surjection(M, S)
    BY <2>1 DEF Surjection
  <2> QED
    BY <1>1, <2>2, FS_Surjection
<1>6. /\ \A a \in S : a.settled = Cardinality(SettledBy(a.model, load))
      /\ \A model \in M : \E a \in S : a.model = model
  BY <1>2, <1>3
<1> HIDE DEF S, M
<1>7. /\ Arranged(S, RecordBefore) \in Seq(S) /\ ToSet(Arranged(S, RecordBefore)) = S
      /\ SortedBy(Arranged(S, RecordBefore), RecordOrder(S))
  BY <1>4, <1>5, RecordsInOrder
<1>8. \A a, b \in S : <<a, b>> \in RecordOrder(S) => a.settled >= b.settled
  <2> SUFFICES ASSUME NEW a \in S, NEW b \in S, <<a, b>> \in RecordOrder(S) PROVE a.settled >= b.settled
    OBVIOUS
  <2>1. RecordBefore(a, b)
    BY DEF RecordOrder
  <2>2. a.settled \in Nat /\ b.settled \in Nat
    BY <1>4 DEF AllRecords
  <2> QED
    BY <2>1, <2>2 DEF RecordBefore
<1> QED
  BY <1>4, <1>6, <1>7, <1>8 DEF S, M

BestShown(rows, load) ==
  \A i \in DOMAIN rows :
    /\ rows[i].settled = Cardinality(SettledBy(rows[i].model, load))
    /\ \A s \in Snapshots : Advice[s].model \notin {rows[j].model : j \in DOMAIN rows} =>
         Cardinality(SettledBy(Advice[s].model, load)) <= rows[i].settled

(* The limit cuts off what is settled least. *)
LEMMA CutRecords ==
  ASSUME NEW load, OncePerSnapshot(load), NEW limit, limit \in Nat
  PROVE  LET all == Arranged(RecordsOf(load), RecordBefore)
         IN  BestShown(SubSeq(all, 1, IF Len(all) < limit THEN Len(all) ELSE limit), load)
<1> DEFINE S == RecordsOf(load)
           all == Arranged(S, RecordBefore)
           m == IF Len(all) < limit THEN Len(all) ELSE limit
           shown == SubSeq(all, 1, m)
           SettledOf(model) == Cardinality(SettledBy(model, load))
<1>1. /\ S \in SUBSET AllRecords
      /\ all \in Seq(S) /\ ToSet(all) = S /\ SortedBy(all, RecordOrder(S))
      /\ \A a, b \in S : <<a, b>> \in RecordOrder(S) => a.settled >= b.settled
      /\ \A a \in S : a.settled = SettledOf(a.model)
      /\ \A model \in ModelsIn(load) : \E a \in S : a.model = model
  BY RecordsAre
<1> HIDE DEF S, all
<1>2. Len(all) \in Nat /\ DOMAIN all = 1..Len(all) /\ \A k \in 1..Len(all) : all[k] \in S
  BY <1>1
<1>3. m \in 0..Len(all)
  BY <1>2
<1> HIDE DEF m
<1>4. DOMAIN shown = 1..m /\ \A i \in 1..m : shown[i] = all[i] /\ i \in 1..Len(all)
  BY <1>1, <1>2, <1>3
<1> HIDE DEF shown
<1>5. ASSUME NEW i \in 1..m, NEW s \in Snapshots, \A j \in 1..m : shown[j].model # Advice[s].model
      PROVE  SettledOf(Advice[s].model) <= shown[i].settled
  <2> DEFINE x == Advice[s].model
  <2>1. shown[i] = all[i] /\ all[i] \in S /\ all[i].settled \in Nat /\ i \in 1..Len(all)
    BY <1>1, <1>2, <1>4 DEF AllRecords
  <2>2. CASE x \in ModelsIn(load)
    <3>1. PICK a \in S : a.model = x
      BY <1>1, <2>2
    <3>2. PICK k \in 1..Len(all) : a = all[k]
      BY <1>1, <1>2 DEF ToSet
    <3>3. k \notin 1..m
      BY <1>4, <1>5, <3>1, <3>2
    <3>4. i < k
      BY <1>3, <3>2, <3>3
    <3>5. <<all[i], all[k]>> \in RecordOrder(S)
      BY <1>1, <1>2, <2>1, <3>2, <3>4 DEF SortedBy
    <3>6. all[i].settled >= a.settled /\ a.settled = SettledOf(x) /\ a.settled \in Nat
      BY <1>1, <2>1, <3>1, <3>2, <3>5 DEF AllRecords
    <3> HIDE DEF SettledOf
    <3>7. SettledOf(x) <= all[i].settled
      BY <2>1, <3>6
    <3> QED
      BY <2>1, <3>7
  <2>3. CASE x \notin ModelsIn(load)
    <3>1. SettledBy(x, load) = {}
      BY <2>3 DEF SettledBy, ModelsIn
    <3>2. SettledOf(x) = 0
      BY <3>1, FS_EmptySet
    <3> HIDE DEF SettledOf
    <3>3. SettledOf(x) <= all[i].settled
      BY <2>1, <3>2
    <3> QED
      BY <2>1, <3>3
  <2> QED
    BY <2>2, <2>3
<1>6. ASSUME NEW i \in 1..m PROVE shown[i].settled = SettledOf(shown[i].model)
  BY <1>1, <1>2, <1>4
<1>7. BestShown(shown, load)
  BY <1>4, <1>5, <1>6 DEF BestShown
<1> QED
  BY <1>7 DEF shown, m, all, S

(* A load has each snapshot once. *)
LEMMA LoadsAreOnce ==
  ASSUME LogInv, AllPaged, NEW r \in Readers, reader[r].at \in {"answer", "persist", "served"},
         NEW i, i \in 1..Len(Loads(reader[r].req))
  PROVE  OncePerSnapshot(reader[r].loads[i])
<1> DEFINE v == reader[r]
           load == v.loads[i]
           page == PageOf(v, i)
<1>1. v.req \in Requests /\ load \in Seq(TrueOutcomes) /\ Splits(page, load, <<>>)
  BY LoadIs
<1>2. page \in Seq(Wanted(v.req, Loads(v.req)[i])) /\ IsInjective(page)
  BY <1>1, PageHasAll DEF PageOf
<1> HIDE DEF load, page, v
<1>3. Len(load) \in Nat /\ Len(page) = Len(load) /\ \A k \in 1..Len(load) : load[k].snapshot = page[k]
  <2>1. Len(load) \in Nat /\ Len(<<>>) = 0
    BY <1>1
  <2> QED
    BY <1>1, <2>1 DEF Splits
<1>4. \A j, k \in 1..Len(load) : load[j].snapshot = load[k].snapshot => j = k
  <2>1. DOMAIN page = 1..Len(load)
    BY <1>2, <1>3
  <2> QED
    BY <1>2, <1>3, <2>1 DEF IsInjective
<1> QED
  BY <1>1, <1>4 DEF OncePerSnapshot, load, v

(* The models page shows the models best settled. *)
LEMMA ModelsAreBest ==
  ASSUME LogInv, AllPaged
  PROVE  BestModelsShown
<1>s. BestModelsShown <=>
        \A r \in Readers : (reader[r].at = "served" /\ reader[r].req.kind = "models") =>
          BestShown(ModelRows(reader[r]), reader[r].loads[1])
  BY DEF BestModelsShown, BestShown
<1> SUFFICES ASSUME NEW r \in Readers, reader[r].at = "served", reader[r].req.kind = "models"
             PROVE  BestShown(ModelRows(reader[r]), reader[r].loads[1])
  BY <1>s
<1> DEFINE v == reader[r]
           load == v.loads[1]
           limit == v.req.limit
<1>1. v.req \in Requests
  BY DEF LogInv, AllSound, Sound
<1>2. limit \in Nat
  <2>1. v.req \in AllRequests
    BY <1>1, OutcomesAssumption
  <2> QED
    BY <2>1 DEF AllRequests, Counts
<1>3. 1 \in 1..Len(Loads(v.req))
  BY <1>1, StepsAre
<1>4. OncePerSnapshot(load)
  BY <1>3, LoadsAreOnce
<1>5. ModelRows(v) = SubSeq(Arranged(RecordsOf(load), RecordBefore), 1,
                            IF Len(Arranged(RecordsOf(load), RecordBefore)) < limit
                              THEN Len(Arranged(RecordsOf(load), RecordBefore)) ELSE limit)
  BY DEF ModelRows, RecordsOf, ModelsIn
<1> HIDE DEF load, limit, v
<1>6. BestShown(ModelRows(v), load)
  BY <1>2, <1>4, <1>5, CutRecords
<1> QED
  BY <1>6 DEF load, v

(* Verdicts rest on what the log settles, an answered alert is in the history*)
(* with every step in order, the models page shows the models best settled,*)
(* and a page with a total in its range is never answered.                 *)
THEOREM AnswersRest == OutSpec => []AnswersRestOnLog
<1>1. LogInv /\ AllPaged /\ RunsInv /\ AllFiled => AnswersRestOnLog
  BY RunsRestOnLog, AlertsAreRecorded, ModelsAreBest, TotalsStopThePage DEF AnswersRestOnLog
<1> QED
  BY <1>1, LogInvHolds, PagedHolds, FilingHolds, PTL

-----------------------------------------------------------------------------
(* Replays. *)

(* Of the quotes of a series one is the first and one the last. *)
LEMMA EndsOfSeries ==
  ASSUME NEW series, series \in SUBSET DOMAIN HomeQuotes, series # {}
  PROVE  /\ \E i \in series : OpeningIn(series) = HomeQuotes[i]
         /\ \E i \in series : ClosingIn(series) = HomeQuotes[i]
<1> DEFINE n == Len(HomeQuotes)
           before == {x \in (1..n) \X (1..n) : x[1] = x[2] \/ CapturedBefore(x[1], x[2])}
           after == {x \in (1..n) \X (1..n) : x[1] = x[2] \/ CapturedBefore(x[2], x[1])}
<1>1. n \in Nat /\ DOMAIN HomeQuotes = 1..n /\ \A i \in 1..n : HomeQuotes[i].at \in Int
  <2>1. n \in Nat /\ DOMAIN HomeQuotes = 1..n /\ \A i \in 1..n : HomeQuotes[i] \in AllHomeQuotes
    BY ReplayAssumption
  <2> HIDE DEF n
  <2> QED
    BY <2>1 DEF AllHomeQuotes
<1> HIDE DEF n
<1>2. IsFiniteSet(1..n)
  BY <1>1, FS_Interval
<1>3. LinearOn(before, 1..n) /\ LinearOn(after, 1..n)
  <2>1. \A i, j \in 1..n : i = j \/ CapturedBefore(i, j) \/ CapturedBefore(j, i)
    BY <1>1 DEF CapturedBefore
  <2>2. \A i, j, k \in 1..n : CapturedBefore(i, j) /\ CapturedBefore(j, k) => CapturedBefore(i, k)
    BY <1>1 DEF CapturedBefore
  <2> QED
    BY <2>1, <2>2 DEF LinearOn
<1>4. PICK i \in series : \A j \in series : <<i, j>> \in before
  <2> HIDE DEF before
  <2> QED
    BY <1>1, <1>2, <1>3, FirstExists
<1>5. PICK k \in series : \A j \in series : <<k, j>> \in after
  <2> HIDE DEF after
  <2> QED
    BY <1>1, <1>2, <1>3, FirstExists
<1>6. \E x \in series : \A j \in series \ {x} : CapturedBefore(x, j)
  BY <1>4
<1>7. \E x \in series : \A j \in series \ {x} : CapturedBefore(j, x)
  BY <1>5
<1> QED
  BY <1>6, <1>7 DEF OpeningIn, ClosingIn

AllReplayRows == [game : DOMAIN ReplayGames, book : DOMAIN Guess, open : 0..100, openAt : Int, close : 0..100,
                  closeAt : Int, final : {<<>>} \cup (Int \X Int)]

(* The odds of a game at a book have moved. *)
QuotesOf(quotes, game, book) == {i \in quotes : HomeQuotes[i].game = game /\ HomeQuotes[i].book = book}
Moved(quotes, game, book) == \E i, j \in QuotesOf(quotes, game, book) : HomeQuotes[i].chance # HomeQuotes[j].chance

StoredOK == stored \subseteq DOMAIN HomeQuotes /\ finals \subseteq DOMAIN FinalScores

(* A row has the first and the last price of its series. *)
LEMMA RowForIs ==
  ASSUME StoredOK, NEW game, NEW book, SeriesOf(game, book) # {}
  PROVE  LET row == RowFor(game, book)
         IN  /\ row \in AllReplayRows /\ row.game = game /\ row.book = book
             /\ row.open # row.close => Moved(stored, game, book)
<1> DEFINE series == SeriesOf(game, book)
           row == RowFor(game, book)
<1>1. series \in SUBSET DOMAIN HomeQuotes
  BY DEF StoredOK, SeriesOf
<1>2. PICK i \in series : OpeningIn(series) = HomeQuotes[i]
  BY <1>1, EndsOfSeries
<1>3. PICK j \in series : ClosingIn(series) = HomeQuotes[j]
  BY <1>1, EndsOfSeries
<1>4. \A k \in series : HomeQuotes[k] \in AllHomeQuotes
  BY <1>1, ReplayAssumption
<1>5. \A k \in series : HomeQuotes[k].game = game /\ HomeQuotes[k].book = book
  BY DEF SeriesOf
<1>6. (IF game \in finals THEN FinalScores[game] ELSE <<>>) \in {<<>>} \cup (Int \X Int)
  BY ReplayAssumption DEF StoredOK
<1>7. row = [game |-> game, book |-> book, open |-> HomeQuotes[i].chance, openAt |-> HomeQuotes[i].at,
             close |-> HomeQuotes[j].chance, closeAt |-> HomeQuotes[j].at,
             final |-> IF game \in finals THEN FinalScores[game] ELSE <<>>]
  BY <1>2, <1>3 DEF RowFor
<1>8. HomeQuotes[i] \in AllHomeQuotes /\ HomeQuotes[j] \in AllHomeQuotes
  BY <1>2, <1>3, <1>4
<1>9. game \in DOMAIN ReplayGames /\ book \in DOMAIN Guess
  BY <1>2, <1>5, <1>8 DEF AllHomeQuotes
<1> HIDE DEF row
<1>10. row \in AllReplayRows /\ row.game = game /\ row.book = book
  BY <1>6, <1>7, <1>8, <1>9 DEF AllReplayRows, AllHomeQuotes
<1>11. row.open # row.close => Moved(stored, game, book)
  BY <1>2, <1>3, <1>7 DEF Moved, QuotesOf, SeriesOf
<1> QED
  BY <1>10, <1>11 DEF row

-----------------------------------------------------------------------------
(* Rows in order. *)

(* Put in one after the other, all are there and once. *)
LEMMA AllArePutIn ==
  ASSUME NEW A, NEW s \in Seq(A), IsInjective(s), NEW run, run \in [0..Len(s) -> Seq(A)], PutsIn(run, s)
  PROVE  run[Len(s)] \in Seq(A) /\ ToSet(run[Len(s)]) = ToSet(s) /\ IsInjective(run[Len(s)])
<1> DEFINE n == Len(s)
           in(i) == {s[j] : j \in 1..i}
           Good == {i \in 0..n : ToSet(run[i]) = in(i) /\ IsInjective(run[i])}
<1>1. n \in Nat /\ DOMAIN s = 1..n /\ \A i \in 1..n : s[i] \in A
  OBVIOUS
<1>2. run \in [0..n -> Seq(A)] /\ run[0] = <<>>
  BY DEF PutsIn
<1>3. \A i \in 1..n : \E ahead \in SUBSET DOMAIN run[i - 1] : run[i] = InsertBehind(run[i - 1], s[i], ahead)
  BY DEF PutsIn
<1>4. \A i, j \in 1..n : s[i] = s[j] => i = j
  BY <1>1 DEF IsInjective
<1> HIDE DEF n
<1>5. 0 \in Good
  <2>1. IsInjective(<<>>) /\ ToSet(<<>>) = {} /\ in(0) = {}
    BY DEF IsInjective, ToSet
  <2> QED
    BY <1>1, <1>2, <2>1
<1>6. ASSUME NEW i \in 1..n, i - 1 \in Good
      PROVE  i \in Good
  <2>1. i - 1 \in 0..n /\ i \in 0..n /\ 1..i = (1..(i - 1)) \cup {i} /\ i \notin 1..(i - 1) /\ 1..(i - 1) \subseteq 1..n
    BY <1>1
  <2>2. IsInjective(run[i - 1]) /\ ToSet(run[i - 1]) = in(i - 1) /\ run[i - 1] \in Seq(A)
    BY <1>2, <1>6, <2>1
  <2>3. s[i] \notin in(i - 1)
    BY <1>4, <2>1
  <2>4. in(i) = in(i - 1) \cup {s[i]}
    BY <2>1
  <2> HIDE DEF in
  <2>5. PICK ahead \in SUBSET DOMAIN run[i - 1] : run[i] = InsertBehind(run[i - 1], s[i], ahead)
    BY <1>3
  <2>6. LET t == InsertBehind(run[i - 1], s[i], ahead)
        IN  ToSet(t) = ToSet(run[i - 1]) \cup {s[i]} /\ IsInjective(t)
    BY <1>1, <2>2, <2>3, InsertedOnce
  <2>7. ToSet(run[i]) = in(i) /\ IsInjective(run[i])
    BY <2>2, <2>4, <2>5, <2>6
  <2> QED
    BY <2>1, <2>7
<1> HIDE DEF Good
<1>7. \A i \in 0..n : i \in Good
  BY <1>1, <1>5, <1>6, CountUp
<1>8. n \in 0..n /\ ToSet(s) = in(n)
  BY <1>1 DEF ToSet
<1>9. n \in Good /\ run[n] \in Seq(A)
  BY <1>2, <1>7, <1>8
<1> QED
  BY <1>8, <1>9 DEF Good, n

(* The rows of a replay are put in one after the other ...                 *)
LEMMA RowsArePutIn ==
  ASSUME NEW A, NEW s, s \in Seq(A)
  PROVE  \E run \in [0..Len(s) -> Seq(A)] : PutsIn(run, s) /\ run[Len(s)] = StableSort(s, RowBefore)
<1> DEFINE n == Len(s)
           V == Seq(A)
           op(v, x) == InsertBehind(v, x, {j \in DOMAIN v : ~RowBefore(x, v[j])})
           IsIter(h) == h = [T \in SUBSET (1..n) |->
                               IF T = {} THEN <<>> ELSE op(h[T \ {Max(T)}], s[Max(T)])]
           iter == CHOOSE h : IsIter(h)
           base == <<>>
           step == [i \in 1..n |-> [v \in V |-> op(v, s[i])]]
<1>0. n \in Nat /\ DOMAIN s = 1..n /\ base \in V
  OBVIOUS
<1>1. StableSort(s, RowBefore) = iter[1..n]
  BY <1>0 DEF StableSort, FoldLeft, MapThenFoldSet
<1>2. \A i \in 1..n : s[i] \in A
  OBVIOUS
<1>3. step \in [1..n -> [V -> V]]
  <2>1. ASSUME NEW v \in V, NEW x \in A PROVE op(v, x) \in V
    BY InsertedIsSequence
  <2> HIDE DEF op, n, V
  <2> QED
    BY <1>2, <2>1
<1> HIDE DEF n, op
<1>4. \E h : IsIter(h)
  <2>1. PICK g \in [SUBSET (1..n) -> V] : FoldsLeft(g, base, step, n, V)
    <3> HIDE DEF step, V, base
    <3> QED
      BY <1>0, <1>3, LeftFolds
  <2> HIDE DEF V
  <2>2. \A T \in SUBSET (1..n) : g[T] = IF T = {} THEN <<>> ELSE op(g[T \ {Max(T)}], s[Max(T)])
    BY <2>1 DEF FoldsLeft
  <2>3. g = [T \in SUBSET (1..n) |-> g[T]]
    BY <2>1
  <2>4. IsIter(g)
    BY <2>2, <2>3
  <2> QED
    BY <2>4
<1>5. IsIter(iter)
  <2> HIDE DEF IsIter
  <2> QED
    BY <1>4
<1>6. Iterates(iter, base, step, n, V)
  <2> HIDE DEF iter, V
  <2>1. ASSUME NEW T \in SUBSET (1..n), T # {}, iter[T \ {Max(T)}] \in V
        PROVE  iter[T] = step[Max(T)][iter[T \ {Max(T)}]]
    <3>1. Max(T) \in 1..n
      BY <1>0, <2>1, MaxOfPlaces
    <3> QED
      BY <1>5, <2>1, <3>1
  <2>2. \A T \in SUBSET (1..n) : T = {} => iter[T] = base
    BY <1>5
  <2> HIDE DEF step, base
  <2> QED
    BY <2>1, <2>2 DEF Iterates
<1>7. PICK run \in [0..n -> V] : StepsBy(run, base, step, n, iter[1..n])
  <2> HIDE DEF iter, step, V, base
  <2> QED
    BY <1>0, <1>3, <1>6, LeftRuns
<1>8. ASSUME NEW i \in 1..n PROVE run[i] = op(run[i - 1], s[i])
  <2>1. i - 1 \in 0..n
    BY <1>0
  <2>2. run[i - 1] \in V
    <3> HIDE DEF V
    <3> QED
      BY <1>7, <2>1
  <2> HIDE DEF V
  <2> QED
    BY <1>7, <2>2 DEF StepsBy
<1>9. run[0] = <<>> /\ run[n] = StableSort(s, RowBefore)
  BY <1>1, <1>7 DEF StepsBy
<1>10. \A i \in 1..n : \E ahead \in SUBSET DOMAIN run[i - 1] : run[i] = InsertBehind(run[i - 1], s[i], ahead)
  BY <1>8 DEF op
<1> HIDE DEF iter
<1> QED
  BY <1>9, <1>10 DEF n, PutsIn

PutsByClosing(run, s) ==
  \A i \in 1..Len(s) :
    run[i] = InsertBehind(run[i - 1], s[i], {j \in DOMAIN run[i - 1] : ~ClosesBefore(s[i], run[i - 1][j])})

(* ... and so are its outcomes, each behind all it does not close before.  *)
LEMMA OutcomesArePutIn ==
  ASSUME NEW A, NEW s, s \in Seq(A)
  PROVE  \E run \in [0..Len(s) -> Seq(A)] :
           PutsIn(run, s) /\ PutsByClosing(run, s) /\ run[Len(s)] = StableSort(s, ClosesBefore)
<1> DEFINE n == Len(s)
           V == Seq(A)
           op(v, x) == InsertBehind(v, x, {j \in DOMAIN v : ~ClosesBefore(x, v[j])})
           IsIter(h) == h = [T \in SUBSET (1..n) |->
                               IF T = {} THEN <<>> ELSE op(h[T \ {Max(T)}], s[Max(T)])]
           iter == CHOOSE h : IsIter(h)
           base == <<>>
           step == [i \in 1..n |-> [v \in V |-> op(v, s[i])]]
<1>0. n \in Nat /\ DOMAIN s = 1..n /\ base \in V
  OBVIOUS
<1>1. StableSort(s, ClosesBefore) = iter[1..n]
  BY <1>0 DEF StableSort, FoldLeft, MapThenFoldSet
<1>2. \A i \in 1..n : s[i] \in A
  OBVIOUS
<1>3. step \in [1..n -> [V -> V]]
  <2>1. ASSUME NEW v \in V, NEW x \in A PROVE op(v, x) \in V
    BY InsertedIsSequence
  <2> HIDE DEF op, n, V
  <2> QED
    BY <1>2, <2>1
<1> HIDE DEF n, op
<1>4. \E h : IsIter(h)
  <2>1. PICK g \in [SUBSET (1..n) -> V] : FoldsLeft(g, base, step, n, V)
    <3> HIDE DEF step, V, base
    <3> QED
      BY <1>0, <1>3, LeftFolds
  <2> HIDE DEF V
  <2>2. \A T \in SUBSET (1..n) : g[T] = IF T = {} THEN <<>> ELSE op(g[T \ {Max(T)}], s[Max(T)])
    BY <2>1 DEF FoldsLeft
  <2>3. g = [T \in SUBSET (1..n) |-> g[T]]
    BY <2>1
  <2>4. IsIter(g)
    BY <2>2, <2>3
  <2> QED
    BY <2>4
<1>5. IsIter(iter)
  <2> HIDE DEF IsIter
  <2> QED
    BY <1>4
<1>6. Iterates(iter, base, step, n, V)
  <2> HIDE DEF iter, V
  <2>1. ASSUME NEW T \in SUBSET (1..n), T # {}, iter[T \ {Max(T)}] \in V
        PROVE  iter[T] = step[Max(T)][iter[T \ {Max(T)}]]
    <3>1. Max(T) \in 1..n
      BY <1>0, <2>1, MaxOfPlaces
    <3> QED
      BY <1>5, <2>1, <3>1
  <2>2. \A T \in SUBSET (1..n) : T = {} => iter[T] = base
    BY <1>5
  <2> HIDE DEF step, base
  <2> QED
    BY <2>1, <2>2 DEF Iterates
<1>7. PICK run \in [0..n -> V] : StepsBy(run, base, step, n, iter[1..n])
  <2> HIDE DEF iter, step, V, base
  <2> QED
    BY <1>0, <1>3, <1>6, LeftRuns
<1>8. ASSUME NEW i \in 1..n PROVE run[i] = op(run[i - 1], s[i])
  <2>1. i - 1 \in 0..n
    BY <1>0
  <2>2. run[i - 1] \in V
    <3> HIDE DEF V
    <3> QED
      BY <1>7, <2>1
  <2> HIDE DEF V
  <2> QED
    BY <1>7, <2>2 DEF StepsBy
<1>9. run[0] = <<>> /\ run[n] = StableSort(s, ClosesBefore)
  BY <1>1, <1>7 DEF StepsBy
<1>10. \A i \in 1..n : \E ahead \in SUBSET DOMAIN run[i - 1] : run[i] = InsertBehind(run[i - 1], s[i], ahead)
  BY <1>8 DEF op
<1>11. PutsByClosing(run, s)
  BY <1>8 DEF op, n, PutsByClosing
<1> HIDE DEF iter
<1> QED
  BY <1>9, <1>10, <1>11 DEF n, PutsIn

(* Arranged, the elements of a set are all there and once. *)
LEMMA RowsAreThere ==
  ASSUME NEW S, IsFiniteSet(S)
  PROVE  LET t == Arranged(S, RowBefore)
         IN  t \in Seq(S) /\ ToSet(t) = S /\ IsInjective(t)
<1> DEFINE s == SetToSeq(S)
<1>1. s \in Seq(S) /\ IsInjective(s) /\ ToSet(s) = S
  BY SetsHaveListings
<1>2. Arranged(S, RowBefore) = StableSort(s, RowBefore)
  BY DEF Arranged
<1> HIDE DEF s
<1>3. PICK run \in [0..Len(s) -> Seq(S)] : PutsIn(run, s) /\ run[Len(s)] = StableSort(s, RowBefore)
  BY <1>1, RowsArePutIn
<1> QED
  BY <1>1, <1>2, <1>3, AllArePutIn

(* Arranged, the elements of a set are all there and once. *)
LEMMA OutcomesAreThere ==
  ASSUME NEW S, IsFiniteSet(S)
  PROVE  LET t == Arranged(S, ClosesBefore)
         IN  t \in Seq(S) /\ ToSet(t) = S /\ IsInjective(t)
<1> DEFINE s == SetToSeq(S)
<1>1. s \in Seq(S) /\ IsInjective(s) /\ ToSet(s) = S
  BY SetsHaveListings
<1>2. Arranged(S, ClosesBefore) = StableSort(s, ClosesBefore)
  BY DEF Arranged
<1> HIDE DEF s
<1>3. PICK run \in [0..Len(s) -> Seq(S)] : PutsIn(run, s) /\ run[Len(s)] = StableSort(s, ClosesBefore)
  BY <1>1, OutcomesArePutIn
<1> QED
  BY <1>1, <1>2, <1>3, AllArePutIn

-----------------------------------------------------------------------------
(* What the features of a game are. *)

(* The end of a list is a list. *)
LEMMA LastOfIs ==
  ASSUME NEW A, NEW s \in Seq(A)
  PROVE  LastOf(s) \in Seq(A)
<1> DEFINE k == Clamp(Len(s) - RollingWindow, 0, Len(s)) + 1
<1>1. Len(s) \in Nat /\ RollingWindow \in Nat
  BY ReplayAssumption
<1>2. k \in 1..(Len(s) + 1)
  BY <1>1 DEF Clamp
<1> HIDE DEF k
<1>3. SubSeq(s, k, Len(s)) \in Seq(A)
  BY <1>1, <1>2
<1> QED
  BY <1>3 DEF LastOf, k

(* What a team has played is from the table of games.                      *)
LEMMA RollingStatsAre ==
  ASSUME NEW team, NEW date, NEW season
  PROVE  RollingStats(team, date, season) \in Seq(AllTeamGames)
<1> DEFINE places == {i \in PlayedBy(team, season) : TeamGames[i].day < date}
<1>1. TeamGames \in Seq(AllTeamGames)
  BY ReplayAssumption
<1>2. RollingStats(team, date, season) = LastOf(Where(TeamGames, places))
  BY DEF RollingStats
<1> HIDE DEF places
<1>3. Where(TeamGames, places) \in Seq(AllTeamGames)
  BY <1>1, WhereElements
<1> QED
  BY <1>2, <1>3, LastOfIs

(* Figures of games add up to a number. *)
LEMMA FiguresAddUp ==
  ASSUME NEW s, NEW n \in Nat, DOMAIN s = 1..n, NEW f, f = [i \in DOMAIN s |-> f[i]], \A i \in 1..n : f[i] \in Int
  PROVE  SumFunctionOnSet(f, DOMAIN s) \in Int
<1>1. f \in [1..n -> Int]
  OBVIOUS
<1>2. IsFiniteSet(1..n)
  BY FS_Interval
<1> QED
  BY <1>1, <1>2, SumIsInt

(* Averages over some games are numbers. *)
LEMMA AveragesAre ==
  ASSUME NEW games \in Seq(AllTeamGames), games # <<>>
  PROVE  RollingAverages(games).xg \in Int /\ RollingAverages(games).goals \in Int
<1> DEFINE n == Len(games)
           xgs == [i \in DOMAIN games |-> games[i].xg]
           goals == [i \in DOMAIN games |-> games[i].goals]
<1>1. n \in Nat /\ n > 0 /\ DOMAIN games = 1..n /\ \A i \in 1..n : games[i] \in AllTeamGames
  OBVIOUS
<1>2. \A i \in 1..n : games[i].xg \in Int /\ games[i].goals \in Int
  BY <1>1 DEF AllTeamGames
<1>3. RollingAverages(games).xg = SumFunctionOnSet(xgs, DOMAIN games) \div n
  BY DEF RollingAverages, Total
<1>4. RollingAverages(games).goals = SumFunctionOnSet(goals, DOMAIN games) \div n
  BY DEF RollingAverages, Total
<1> HIDE DEF n
<1>5. SumFunctionOnSet(xgs, DOMAIN games) \in Int
  <2>1. xgs = [i \in DOMAIN games |-> xgs[i]] /\ \A i \in 1..n : xgs[i] \in Int
    BY <1>1, <1>2
  <2> HIDE DEF xgs
  <2> QED
    BY <1>1, <2>1, FiguresAddUp
<1>6. SumFunctionOnSet(goals, DOMAIN games) \in Int
  <2>1. goals = [i \in DOMAIN games |-> goals[i]] /\ \A i \in 1..n : goals[i] \in Int
    BY <1>1, <1>2
  <2> HIDE DEF goals
  <2> QED
    BY <1>1, <2>1, FiguresAddUp
<1> HIDE DEF xgs, goals
<1> QED
  BY <1>1, <1>3, <1>4, <1>5, <1>6

(* What a goalie has saved is kept within forty either way.                *)
LEMMA GSAxIs ==
  ASSUME NEW game, NEW team, NEW season, NEW date
  PROVE  GoalieGSAx(game, team, season, date) \in -40..40
<1> DEFINE played == {i \in DOMAIN GoalieGames : GoalieGames[i].game = game /\ GoalieGames[i].team = team}
           most == CHOOSE i \in played : \A j \in played : GoalieGames[j].ice <= GoalieGames[i].ice
           starter == GoalieGames[most].goalie
           places == {i \in DOMAIN GoalieGames : LET g == GoalieGames[i] IN
                        g.goalie = starter /\ g.season = season /\ g.day < date}
           earlier == Where(GoalieGames, places)
           saved == [i \in DOMAIN earlier |-> earlier[i].gsax]
           n == Len(earlier)
<1>1. GoalieGSAx(game, team, season, date)
        = IF played = {} THEN 0 ELSE Clamp(SumFunctionOnSet(saved, DOMAIN earlier), -40, 40)
  BY DEF GoalieGSAx, Total
<1>2. earlier \in Seq(AllGoalieGames)
  <2> HIDE DEF places
  <2> QED
    BY ReplayAssumption, WhereElements
<1> HIDE DEF earlier, played
<1>3. n \in Nat /\ DOMAIN earlier = 1..n /\ \A i \in 1..n : earlier[i] \in AllGoalieGames
  BY <1>2
<1> HIDE DEF n
<1>4. saved = [i \in DOMAIN earlier |-> saved[i]] /\ \A i \in 1..n : saved[i] \in Int
  BY <1>3 DEF AllGoalieGames
<1> HIDE DEF saved
<1>5. SumFunctionOnSet(saved, DOMAIN earlier) \in Int
  BY <1>3, <1>4, FiguresAddUp
<1>6. Clamp(SumFunctionOnSet(saved, DOMAIN earlier), -40, 40) \in -40..40
  <2>1. \A v \in Int : Clamp(v, -40, 40) \in -40..40
    BY DEF Clamp
  <2> QED
    BY <1>5, <2>1
<1> QED
  BY <1>1, <1>6

IsFeatures(f) ==
  f.xg \in Int /\ f.goals \in Int /\ f.goalies \in Int /\ f.real \in BOOLEAN /\ (f.real => f.used # {})

(* Features are numbers, and real ones are made from games. *)
LEMMA FeaturesAre ==
  ASSUME NEW home, NEW away, NEW date, NEW season
  PROVE  IsFeatures(BuildNHLFeatures(home, away, date, season))
<1> DEFINE h == RollingStats(home, date, season)
           a == RollingStats(away, date, season)
           game == FindMoneypuckGameID(home, date)
           few == Len(h) < RollingWindow \div 2 \/ Len(a) < RollingWindow \div 2
           used == {t.game : t \in ToSet(h) \cup ToSet(a)}
           f == [real |-> TRUE,
                 xg |-> RollingAverages(h).xg - RollingAverages(a).xg,
                 goals |-> RollingAverages(h).goals + RollingAverages(a).goals,
                 goalies |-> GoalieGSAx(game, home, season, date) - GoalieGSAx(game, away, season, date),
                 used |-> used]
<1>1. BuildNHLFeatures(home, away, date, season) = IF few THEN DefaultFeatures ELSE f
  BY DEF BuildNHLFeatures
<1>2. h \in Seq(AllTeamGames) /\ a \in Seq(AllTeamGames)
  BY RollingStatsAre
<1>3. IsFeatures(DefaultFeatures)
  BY DEF IsFeatures, DefaultFeatures
<1>4. ASSUME ~few PROVE IsFeatures(f)
  <2>1. RollingWindow \div 2 \in Nat /\ RollingWindow \div 2 >= 1
    BY ReplayAssumption
  <2>2. Len(h) >= 1 /\ Len(a) >= 1
    <3> HIDE DEF h, a
    <3>1. Len(h) \in Nat /\ Len(a) \in Nat
      BY <1>2
    <3> QED
      BY <1>4, <2>1, <3>1
  <2> HIDE DEF h, a
  <2>3. h # <<>> /\ a # <<>> /\ 1 \in DOMAIN h
    BY <1>2, <2>2
  <2>4. RollingAverages(h).xg - RollingAverages(a).xg \in Int /\ RollingAverages(h).goals + RollingAverages(a).goals \in Int
    <3>1. RollingAverages(h).xg \in Int /\ RollingAverages(h).goals \in Int
      BY <1>2, <2>3, AveragesAre
    <3>2. RollingAverages(a).xg \in Int /\ RollingAverages(a).goals \in Int
      BY <1>2, <2>3, AveragesAre
    <3> QED
      BY <3>1, <3>2
  <2>5. GoalieGSAx(game, home, season, date) - GoalieGSAx(game, away, season, date) \in Int
    <3> HIDE DEF game
    <3>1. GoalieGSAx(game, home, season, date) \in -40..40 /\ GoalieGSAx(game, away, season, date) \in -40..40
      BY GSAxIs
    <3> QED
      BY <3>1
  <2>6. used # {}
    BY <2>3 DEF ToSet
  <2> HIDE DEF used, game
  <2> QED
    BY <2>4, <2>5, <2>6 DEF IsFeatures
<1> HIDE DEF few, f
<1> QED
  BY <1>1, <1>3, <1>4

-----------------------------------------------------------------------------
(* What a replay makes of a row. *)

(* What is predicted for a game at a book. *)
ChanceOf(game, book) == PredictedHome([game |-> game, book |-> book])

(* A bet is on the side the model favours, so its edge is not negative. *)
SoundOutcome(o) == o.edge \in 0..100 /\ (o.real => o.used # {})

(* Predictions are chances. *)
LEMMA ChancesAre ==
  ASSUME NEW game \in DOMAIN ReplayGames, NEW book \in DOMAIN Guess
  PROVE  ChanceOf(game, book) \in 0..100 /\ IsFeatures(FeaturesOf([game |-> game, book |-> book]))
<1> DEFINE row == [game |-> game, book |-> book]
           f == FeaturesOf(row)
<1>1. row.game = game /\ row.book = book
  OBVIOUS
<1> HIDE DEF row
<1>2. IsFeatures(f)
  <2>1. IsFeatures(DefaultFeatures)
    BY DEF IsFeatures, DefaultFeatures
  <2>2. f = FeaturesOfGame[game]
    BY <1>1 DEF FeaturesOf
  <2> QED
    BY <2>1, <2>2, FeaturesAre DEF FeaturesOfGame
<1>3. Guess[book] \in 0..100
  BY ReplayAssumption
<1>4. HomeWinChance(f) \in 0..100
  <2>1. f.xg \in Int /\ f.goalies \in Int
    BY <1>2 DEF IsFeatures
  <2> HIDE DEF f
  <2> QED
    BY <2>1 DEF HomeWinChance, Clamp
<1>5. ChanceOf(game, book) = IF IsNHL(row) THEN HomeWinChance(f) ELSE Guess[book]
  BY <1>1 DEF ChanceOf, PredictedHome, row
<1> QED
  BY <1>2, <1>3, <1>4, <1>5 DEF row

(* What is said of a row is sound, and its line has moved if its closing   *)
(* line value is not zero.                                                 *)
LEMMA OutcomeIs ==
  ASSUME NEW row \in AllReplayRows
  PROVE  LET o == OutcomeOf(row)
         IN  /\ o.game = row.game /\ o.book = row.book /\ o.predicted = ChanceOf(row.game, row.book)
             /\ PredictionOf(row).predicted = o.predicted
             /\ SoundOutcome(o) /\ o.clv \in Int /\ (o.clv # 0 => row.open # row.close)
<1> DEFINE o == OutcomeOf(row)
           short == [game |-> row.game, book |-> row.book]
           predicted == PredictedHome(row)
           side == BetSide(predicted, row.open)
           f == FeaturesOf(row)
<1>1. row.game \in DOMAIN ReplayGames /\ row.book \in DOMAIN Guess /\ row.open \in 0..100 /\ row.close \in 0..100
  BY DEF AllReplayRows
<1>2. short.game = row.game /\ short.book = row.book
  OBVIOUS
<1> HIDE DEF short
<1>3. f = FeaturesOf(short) /\ predicted = PredictedHome(short)
  <2>1. FeaturesOf(row) = FeaturesOf(short)
    BY <1>2 DEF FeaturesOf
  <2>2. IsNHL(row) <=> IsNHL(short)
    BY <1>2 DEF IsNHL
  <2>3. PredictedHome(row) = PredictedHome(short)
    <3>1. CASE IsNHL(row)
      <4>1. PredictedHome(row) = HomeWinChance(FeaturesOf(row))
        BY <3>1 DEF PredictedHome
      <4>2. PredictedHome(short) = HomeWinChance(FeaturesOf(short))
        BY <2>2, <3>1 DEF PredictedHome
      <4> QED
        BY <2>1, <4>1, <4>2
    <3>2. CASE ~IsNHL(row)
      BY <1>2, <2>2, <3>2 DEF PredictedHome
    <3> QED
      BY <3>1, <3>2
  <2> QED
    BY <2>1, <2>3
<1>4. predicted = ChanceOf(row.game, row.book)
  BY <1>3 DEF ChanceOf, short
<1>5. IsFeatures(f) /\ predicted \in 0..100
  BY <1>1, <1>3, <1>4, ChancesAre DEF short
<1>6. /\ o.game = row.game /\ o.book = row.book /\ o.predicted = predicted /\ o.real = f.real /\ o.used = f.used
      /\ o.edge = side * (predicted - row.open) /\ o.clv = side * (row.close - row.open)
  BY DEF OutcomeOf
<1>7. PredictionOf(row).predicted = predicted
  BY DEF PredictionOf
<1> HIDE DEF o, predicted, f
<1>8. side * (predicted - row.open) \in 0..100
  BY <1>1, <1>5 DEF BetSide
<1>9. side * (row.close - row.open) \in Int /\ (side * (row.close - row.open) # 0 => row.open # row.close)
  <2>1. side = -1 \/ side = 1
    BY DEF BetSide
  <2>2. row.close \in Int /\ row.open \in Int
    BY <1>1
  <2> HIDE DEF side
  <2>3. CASE side = 1
    <3>1. side * (row.close - row.open) = row.close - row.open
      BY <2>2, <2>3
    <3> QED
      BY <2>2, <3>1
  <2>4. CASE side = -1
    <3>1. side * (row.close - row.open) = row.open - row.close
      BY <2>2, <2>4
    <3> QED
      BY <2>2, <3>1
  <2> QED
    BY <2>1, <2>3, <2>4
<1>10. SoundOutcome(o)
  BY <1>5, <1>6, <1>8 DEF SoundOutcome, IsFeatures
<1> QED
  BY <1>4, <1>6, <1>7, <1>9, <1>10 DEF o

(* The outcomes of a game of the seasons asked for. *)
SeasonOutcomes(market) == UNION {ToSet(OutcomesOfGame(t, market)) : t \in ToSet(TeamGames)}

(* A game has sound outcomes ... *)
LEMMA GameOutcomesAre ==
  ASSUME NEW t, NEW market
  PROVE  /\ OutcomesOfGame(t, market) \in Seq(ToSet(OutcomesOfGame(t, market)))
         /\ \A o \in ToSet(OutcomesOfGame(t, market)) : SoundOutcome(o)
<1> DEFINE away == TeamGames[CHOOSE i \in DOMAIN TeamGames : TeamGames[i].game = t.game /\ ~TeamGames[i].home]
           f == BuildNHLFeatures(t.team, away.team, t.day, t.season)
           Graded(name, chance, won) ==
             [game |-> t.game, book |-> 0, market |-> name, closeAt |-> 24 * t.day, close |-> 0,
              predicted |-> chance, edge |-> 0, clv |-> 0, real |-> f.real, used |-> f.used,
              actual |-> <<t.goals, away.goals>>, won |-> won]
           h2h == Graded("outcome", HomeWinChance(f), t.goals > away.goals)
           totals == Graded("totals", OverChance(f), t.goals + away.goals > TotalsLine)
           both == (IF market \in {"outcome", "all"} THEN <<h2h>> ELSE <<>>)
                     \o (IF market \in {"totals", "all"} THEN <<totals>> ELSE <<>>)
<1>1. OutcomesOfGame(t, market) = both
  BY DEF OutcomesOfGame
<1>2. IsFeatures(f)
  BY FeaturesAre
<1> HIDE DEF f
<1>3. SoundOutcome(h2h) /\ SoundOutcome(totals)
  BY <1>2 DEF SoundOutcome, IsFeatures
<1> HIDE DEF h2h, totals
<1>4. both \in Seq({h2h, totals})
  <2>1. <<h2h>> \in Seq({h2h, totals}) /\ <<totals>> \in Seq({h2h, totals}) /\ <<>> \in Seq({h2h, totals})
    OBVIOUS
  <2>2. /\ (IF market \in {"outcome", "all"} THEN <<h2h>> ELSE <<>>) \in Seq({h2h, totals})
        /\ (IF market \in {"totals", "all"} THEN <<totals>> ELSE <<>>) \in Seq({h2h, totals})
    BY <2>1
  <2> QED
    BY <2>2
<1> HIDE DEF both
<1>5. ToSet(both) \subseteq {h2h, totals}
  BY <1>4 DEF ToSet
<1>6. both \in Seq(ToSet(both))
  <2>1. Len(both) \in Nat /\ both \in [1..Len(both) -> {h2h, totals}]
    BY <1>4
  <2>2. both \in [1..Len(both) -> ToSet(both)]
    BY <2>1 DEF ToSet
  <2> QED
    BY <2>1, <2>2, SeqDef
<1> QED
  BY <1>1, <1>3, <1>5, <1>6

(* ... and the games of the seasons are from the table ... *)
LEMMA OutcomeGamesAre ==
  ASSUME NEW season
  PROVE  OutcomeGames(season) \in Seq(ToSet(TeamGames))
<1> DEFINE n == Len(TeamGames)
           places == {i \in DOMAIN TeamGames : LET t == TeamGames[i] IN t.home /\ ~t.playoff /\ season \in {0, t.season}}
<1>1. TeamGames \in Seq(ToSet(TeamGames))
  <2>1. TeamGames \in Seq(AllTeamGames)
    BY ReplayAssumption
  <2>2. n \in Nat /\ TeamGames \in [1..n -> AllTeamGames]
    BY <2>1
  <2>3. TeamGames \in [1..n -> ToSet(TeamGames)]
    BY <2>2 DEF ToSet
  <2> QED
    BY <2>2, <2>3, SeqDef
<1>2. OutcomeGames(season) = Where(TeamGames, places)
  BY DEF OutcomeGames
<1> HIDE DEF places
<1> QED
  BY <1>1, <1>2, WhereElements

Replays(run, s, market) ==
  /\ run[0] = <<>>
  /\ \A i \in 1..Len(s) : run[i] = run[i - 1] \o OutcomesOfGame(s[i], market)

(* A season is replayed game by game ... *)
LEMMA SeasonRuns ==
  ASSUME NEW season, NEW market
  PROVE  \E run \in [0..Len(OutcomeGames(season)) -> Seq(SeasonOutcomes(market))] :
           /\ Replays(run, OutcomeGames(season), market)
           /\ run[Len(OutcomeGames(season))] = OutcomesOfSeason(season, market)
<1> DEFINE s == OutcomeGames(season)
           n == Len(s)
           A == ToSet(TeamGames)
           V == Seq(SeasonOutcomes(market))
           op(v, t) == v \o OutcomesOfGame(t, market)
           IsIter(h) == h = [T \in SUBSET (1..n) |->
                               IF T = {} THEN <<>> ELSE op(h[T \ {Max(T)}], s[Max(T)])]
           iter == CHOOSE h : IsIter(h)
           base == <<>>
           step == [i \in 1..n |-> [v \in V |-> op(v, s[i])]]
<1>a. OutcomesOfSeason(season, market) = FoldLeft(LAMBDA found, t : found \o OutcomesOfGame(t, market), <<>>, s)
  BY DEF OutcomesOfSeason
<1>2. s \in Seq(A)
  BY OutcomeGamesAre
<1> HIDE DEF s
<1>3. n \in Nat /\ DOMAIN s = 1..n /\ base \in V /\ \A i \in 1..n : s[i] \in A
  BY <1>2
<1>1. OutcomesOfSeason(season, market) = iter[1..n]
  BY <1>a, <1>3 DEF FoldLeft, MapThenFoldSet
<1>4. step \in [1..n -> [V -> V]]
  <2>1. ASSUME NEW t \in A PROVE OutcomesOfGame(t, market) \in V
    <3>1. OutcomesOfGame(t, market) \in Seq(ToSet(OutcomesOfGame(t, market)))
      BY GameOutcomesAre
    <3>2. ToSet(OutcomesOfGame(t, market)) \subseteq SeasonOutcomes(market)
      BY DEF SeasonOutcomes
    <3> DEFINE o == OutcomesOfGame(t, market)
    <3> HIDE DEF o
    <3> QED
      BY <3>1, <3>2 DEF o
  <2>2. ASSUME NEW v \in V, NEW t \in A PROVE op(v, t) \in V
    BY <2>1
  <2> HIDE DEF op, n, V, A
  <2> QED
    BY <1>3, <2>2
<1> HIDE DEF n, op, A
<1>5. \E h : IsIter(h)
  <2>1. PICK g \in [SUBSET (1..n) -> V] : FoldsLeft(g, base, step, n, V)
    <3> HIDE DEF step, V, base
    <3> QED
      BY <1>3, <1>4, LeftFolds
  <2> HIDE DEF V
  <2>2. \A T \in SUBSET (1..n) : g[T] = IF T = {} THEN <<>> ELSE op(g[T \ {Max(T)}], s[Max(T)])
    BY <2>1 DEF FoldsLeft
  <2>3. g = [T \in SUBSET (1..n) |-> g[T]]
    BY <2>1
  <2>4. IsIter(g)
    BY <2>2, <2>3
  <2> QED
    BY <2>4
<1>6. IsIter(iter)
  <2> HIDE DEF IsIter
  <2> QED
    BY <1>5
<1>7. Iterates(iter, base, step, n, V)
  <2> HIDE DEF iter, V
  <2>1. ASSUME NEW T \in SUBSET (1..n), T # {}, iter[T \ {Max(T)}] \in V
        PROVE  iter[T] = step[Max(T)][iter[T \ {Max(T)}]]
    <3>1. Max(T) \in 1..n
      BY <1>3, <2>1, MaxOfPlaces
    <3> QED
      BY <1>6, <2>1, <3>1
  <2>2. \A T \in SUBSET (1..n) : T = {} => iter[T] = base
    BY <1>6
  <2> HIDE DEF step, base
  <2> QED
    BY <2>1, <2>2 DEF Iterates
<1>8. PICK run \in [0..n -> V] : StepsBy(run, base, step, n, iter[1..n])
  <2> HIDE DEF iter, step, V, base
  <2> QED
    BY <1>3, <1>4, <1>7, LeftRuns
<1>9. run[0] = <<>> /\ run[n] = iter[1..n]
  <2> HIDE DEF iter, step, V
  <2> QED
    BY <1>8 DEF StepsBy
<1>10. \A i \in 1..n : run[i] = run[i - 1] \o OutcomesOfGame(s[i], market)
  <2> SUFFICES ASSUME NEW i \in 1..n PROVE run[i] = run[i - 1] \o OutcomesOfGame(s[i], market)
    OBVIOUS
  <2>1. i - 1 \in 0..n
    BY <1>3
  <2>2. run[i - 1] \in V
    <3> HIDE DEF V
    <3> QED
      BY <1>8, <2>1
  <2> HIDE DEF V
  <2> QED
    BY <1>8, <2>2 DEF StepsBy, op
<1> HIDE DEF iter
<1> QED
  BY <1>1, <1>8, <1>9, <1>10 DEF n, s, Replays

(* ... and every outcome is a game's. *)
LEMMA SeasonOutcomesAre ==
  ASSUME NEW season, NEW market
  PROVE  OutcomesOfSeason(season, market) \in Seq(SeasonOutcomes(market))
<1> DEFINE n == Len(OutcomeGames(season))
<1>1. n \in Nat
  <2>1. OutcomeGames(season) \in Seq(ToSet(TeamGames))
    BY OutcomeGamesAre
  <2> QED
    BY <2>1
<1>2. PICK run \in [0..n -> Seq(SeasonOutcomes(market))] : run[n] = OutcomesOfSeason(season, market)
  BY SeasonRuns
<1> HIDE DEF n
<1> QED
  BY <1>1, <1>2

-----------------------------------------------------------------------------
(* What a replay lists. *)

(* A row per game and book, with two prices only where they have moved. *)
RowsApart(rows) == \A i, j \in DOMAIN rows : rows[i].game = rows[j].game /\ rows[i].book = rows[j].book => i = j
RowsMoved(quotes, rows) == \A i \in DOMAIN rows : rows[i].open # rows[i].close => Moved(quotes, rows[i].game, rows[i].book)
RowsOK(quotes, rows) == rows \in Seq(AllReplayRows) /\ RowsApart(rows) /\ RowsMoved(quotes, rows)

(* A part of a listing is a listing ... *)
LEMMA CutRows ==
  ASSUME NEW quotes, NEW rows, RowsOK(quotes, rows), NEW limit \in Nat, Len(rows) > limit
  PROVE  RowsOK(quotes, SubSeq(rows, 1, limit))
<1> DEFINE cut == SubSeq(rows, 1, limit)
<1>1. rows \in Seq(AllReplayRows) /\ Len(rows) \in Nat /\ DOMAIN rows = 1..Len(rows)
  BY DEF RowsOK
<1>2. cut \in Seq(AllReplayRows) /\ DOMAIN cut = 1..limit /\ \A i \in 1..limit : cut[i] = rows[i]
  BY <1>1
<1>3. 1..limit \subseteq DOMAIN rows
  BY <1>1
<1> HIDE DEF cut
<1>4. RowsApart(cut) /\ RowsMoved(quotes, cut)
  BY <1>2, <1>3 DEF RowsOK, RowsApart, RowsMoved
<1> QED
  BY <1>2, <1>4 DEF RowsOK, cut

(* ... and what a replay lists is one, of rows as they are stored. *)
LEMMA ReplayRowsAre ==
  ASSUME StoredOK, NEW ask \in ReplayAsks
  PROVE  LET rows == ListBacktestReplayRows(ask)
         IN  RowsOK(stored, rows) /\ \A i \in DOMAIN rows : rows[i] = RowFor(rows[i].game, rows[i].book)
<1> DEFINE kept == {i \in stored : InFilter(ask, HomeQuotes[i].game)}
           pairs == {<<HomeQuotes[i].game, HomeQuotes[i].book>> : i \in kept}
           S == {RowFor(p[1], p[2]) : p \in pairs}
           all == Arranged(S, RowBefore)
<1>1. ListBacktestReplayRows(ask) = IF Len(all) > ask.limit THEN SubSeq(all, 1, ask.limit) ELSE all
  BY DEF ListBacktestReplayRows
<1>2. ask.limit \in Nat
  BY ReplayAssumption DEF AllAsks
<1>3. IsFiniteSet(S)
  <2>1. Len(HomeQuotes) \in Nat /\ DOMAIN HomeQuotes = 1..Len(HomeQuotes)
    BY ReplayAssumption
  <2>2. IsFiniteSet(DOMAIN HomeQuotes)
    BY <2>1, FS_Interval
  <2>3. kept \subseteq DOMAIN HomeQuotes
    BY DEF StoredOK
  <2>4. IsFiniteSet(kept)
    BY <2>2, <2>3, FS_Subset
  <2> HIDE DEF kept
  <2>5. S = {RowFor(HomeQuotes[i].game, HomeQuotes[i].book) : i \in kept}
    <3>1. ASSUME NEW row \in S
          PROVE  \E i \in kept : row = RowFor(HomeQuotes[i].game, HomeQuotes[i].book)
      <4>1. PICK p \in pairs : row = RowFor(p[1], p[2])
        BY <3>1
      <4>2. PICK i \in kept : p = <<HomeQuotes[i].game, HomeQuotes[i].book>>
        BY <4>1
      <4>3. p[1] = HomeQuotes[i].game /\ p[2] = HomeQuotes[i].book
        BY <4>2
      <4> QED
        BY <4>1, <4>3
    <3>2. ASSUME NEW i \in kept PROVE RowFor(HomeQuotes[i].game, HomeQuotes[i].book) \in S
      <4> DEFINE p == <<HomeQuotes[i].game, HomeQuotes[i].book>>
      <4>1. p \in pairs /\ p[1] = HomeQuotes[i].game /\ p[2] = HomeQuotes[i].book
        OBVIOUS
      <4> HIDE DEF p, pairs
      <4>2. RowFor(p[1], p[2]) \in S
        BY <4>1
      <4> QED
        BY <4>1, <4>2
    <3> HIDE DEF S
    <3> QED
      BY <3>1, <3>2
  <2> HIDE DEF S
  <2> DEFINE f == [i \in kept |-> RowFor(HomeQuotes[i].game, HomeQuotes[i].book)]
  <2>6. S = {f[i] : i \in kept}
    BY <2>5
  <2>7. f \in Surjection(kept, S)
    BY <2>6 DEF Surjection
  <2> QED
    BY <2>4, <2>7, FS_Surjection
<1>4. ASSUME NEW row \in S
      PROVE  /\ row \in AllReplayRows /\ row = RowFor(row.game, row.book)
             /\ (row.open # row.close => Moved(stored, row.game, row.book))
  <2>1. PICK i \in kept : row = RowFor(HomeQuotes[i].game, HomeQuotes[i].book)
    BY <1>4
  <2> DEFINE game == HomeQuotes[i].game
             book == HomeQuotes[i].book
  <2>2. i \in SeriesOf(game, book)
    BY DEF SeriesOf
  <2> HIDE DEF game, book
  <2>3. row = RowFor(game, book)
    BY <2>1 DEF game, book
  <2>4. LET r == RowFor(game, book)
        IN  /\ r \in AllReplayRows /\ r.game = game /\ r.book = book
            /\ r.open # r.close => Moved(stored, game, book)
    BY <2>2, RowForIs
  <2> QED
    BY <2>3, <2>4
<1> HIDE DEF S
<1>5. all \in Seq(S) /\ IsInjective(all)
  BY <1>3, RowsAreThere
<1> HIDE DEF all
<1>6. RowsOK(stored, all)
  <2>1. Len(all) \in Nat /\ DOMAIN all = 1..Len(all) /\ \A i \in DOMAIN all : all[i] \in S
    BY <1>5
  <2>2. all \in Seq(AllReplayRows)
    <3>1. S \subseteq AllReplayRows
      BY <1>4
    <3> QED
      BY <1>5, <3>1
  <2>3. RowsApart(all)
    <3>1. SUFFICES ASSUME NEW i \in DOMAIN all, NEW j \in DOMAIN all,
                          all[i].game = all[j].game, all[i].book = all[j].book
                   PROVE  i = j
      BY DEF RowsApart
    <3>2. all[i] = all[j]
      BY <1>4, <2>1, <3>1
    <3> QED
      BY <1>5, <3>2 DEF IsInjective
  <2>4. RowsMoved(stored, all)
    BY <1>4, <2>1 DEF RowsMoved
  <2> QED
    BY <2>2, <2>3, <2>4 DEF RowsOK
<1>7. \A i \in DOMAIN all : all[i] = RowFor(all[i].game, all[i].book)
  BY <1>4, <1>5
<1>8. ASSUME Len(all) > ask.limit
      PROVE  LET cut == SubSeq(all, 1, ask.limit) IN \A i \in DOMAIN cut : cut[i] = RowFor(cut[i].game, cut[i].book)
  <2> DEFINE cut == SubSeq(all, 1, ask.limit)
  <2>1. Len(all) \in Nat /\ DOMAIN all = 1..Len(all)
    BY <1>5
  <2>2. DOMAIN cut = 1..ask.limit /\ \A i \in 1..ask.limit : cut[i] = all[i] /\ i \in DOMAIN all
    BY <1>2, <1>5, <1>8, <2>1
  <2> HIDE DEF cut
  <2>3. \A i \in DOMAIN cut : cut[i] = RowFor(cut[i].game, cut[i].book)
    BY <1>7, <2>2
  <2> QED
    BY <2>3 DEF cut
<1>9. Len(all) > ask.limit => RowsOK(stored, SubSeq(all, 1, ask.limit))
  BY <1>2, <1>6, CutRows
<1> QED
  BY <1>1, <1>6, <1>7, <1>8, <1>9

-----------------------------------------------------------------------------
(* The state of a replay r beside model_predictions and the odds: every    *)
(* outcome of a row is filed, a row that is not yet done finds the table   *)
(* as the replay found it, and those that are done were news to it.        *)
KeyFor(version, row) == [game |-> row.game, book |-> row.book, version |-> version, at |-> row.openAt]
NewsFor(r, i) == IsNews(r.before, KeyFor(r.version, r.rows[i]), PredictionOf(r.rows[i]))

AsBefore(r, table, key) ==
  /\ key \in DOMAIN table <=> key \in DOMAIN r.before
  /\ key \in DOMAIN table => table[key] = r.before[key]
Untouched(r, table, i) == AsBefore(r, table, KeyFor(r.version, r.rows[i]))

AllReplayOutcomes == {OutcomeOf(row) : row \in AllReplayRows} \cup UNION {SeasonOutcomes(market) : market \in STRING}
AllReplays(r) == [at : {"none", "empty", "rows", "stopped", "cut", "done"}, mode : {"odds", "outcome"}, version : Int,
                  rows : Seq(AllReplayRows), balance : Nat, before : {r.before}, outcomes : Seq(AllReplayOutcomes),
                  folds : {r.folds}, pass : BOOLEAN]

Recorded(o, table) ==
  \E key \in DOMAIN table : key.game = o.game /\ key.book = o.book /\ table[key].predicted = o.predicted
Accounted(o, table, quotes) ==
  /\ o.clv \in Int /\ (o.clv # 0 => Moved(quotes, o.game, o.book))
  /\ o.predicted = ChanceOf(o.game, o.book) /\ Recorded(o, table)
AllAccounted(r, table, quotes) == r.mode = "odds" => \A o \in ToSet(r.outcomes) : Accounted(o, table, quotes)

InProgress(r, table) ==
  r.at = "rows" => /\ r.mode = "odds" /\ Len(r.outcomes) <= Len(r.rows)
                   /\ \A i \in 1..Len(r.outcomes) : NewsFor(r, i)
                   /\ \A i \in (Len(r.outcomes) + 1)..Len(r.rows) : Untouched(r, table, i)
Ended(r) ==
  /\ r.at = "done" => \A i \in DOMAIN r.rows : NewsFor(r, i)
  /\ r.at = "stopped" => ~NewsFor(r, Len(r.outcomes) + 1) /\ \A i \in DOMAIN r.outcomes : NewsFor(r, i)

MovedOf(r, quotes) == {o \in ToSet(r.outcomes) : Moved(quotes, o.game, o.book)}
VerdictOn(r, quotes) ==
  r.pass => /\ r.at = "done" /\ r.mode = "odds"
            /\ 100 * Cardinality(MovedOf(r, quotes)) >= Guardrails.positive * Len(r.outcomes)

GoodReplay(r, table, quotes) ==
  /\ r \in AllReplays(r) /\ RowsOK(quotes, r.rows) /\ AllAccounted(r, table, quotes)
  /\ InProgress(r, table) /\ Ended(r) /\ VerdictOn(r, quotes)

ReplayInv == StoredOK /\ GoodReplay(replay, predictions, stored)

-----------------------------------------------------------------------------
(* What is stored later takes nothing back. *)
LEMMA QuotesComeIn ==
  ASSUME NEW r, NEW table, NEW quotes, GoodReplay(r, table, quotes), NEW more, quotes \subseteq more
  PROVE  GoodReplay(r, table, more)
<1>1. \A game, book : Moved(quotes, game, book) => Moved(more, game, book)
  BY DEF Moved, QuotesOf
<1>2. RowsOK(more, r.rows)
  BY <1>1 DEF GoodReplay, RowsOK, RowsMoved
<1>3. AllAccounted(r, table, more)
  BY <1>1 DEF GoodReplay, AllAccounted, Accounted
<1>4. VerdictOn(r, more)
  <2>1. SUFFICES ASSUME r.pass
                 PROVE  /\ r.at = "done" /\ r.mode = "odds"
                        /\ 100 * Cardinality(MovedOf(r, more)) >= Guardrails.positive * Len(r.outcomes)
    BY DEF VerdictOn
  <2>2. /\ r.at = "done" /\ r.mode = "odds"
        /\ 100 * Cardinality(MovedOf(r, quotes)) >= Guardrails.positive * Len(r.outcomes)
    BY <2>1 DEF GoodReplay, VerdictOn
  <2>3. r.outcomes \in Seq(AllReplayOutcomes)
    BY DEF GoodReplay, AllReplays
  <2>4. IsFiniteSet(ToSet(r.outcomes))
    BY <2>3, ElementsAreFinite
  <2>5. IsFiniteSet(MovedOf(r, more))
    <3>1. MovedOf(r, more) \subseteq ToSet(r.outcomes)
      BY DEF MovedOf
    <3> QED
      BY <2>4, <3>1, FS_Subset
  <2>6. MovedOf(r, quotes) \subseteq MovedOf(r, more)
    BY <1>1 DEF MovedOf
  <2>7. Cardinality(MovedOf(r, quotes)) <= Cardinality(MovedOf(r, more)) /\ IsFiniteSet(MovedOf(r, quotes))
    BY <2>5, <2>6, FS_Subset
  <2>8. Cardinality(MovedOf(r, quotes)) \in Nat /\ Cardinality(MovedOf(r, more)) \in Nat
    BY <2>5, <2>7, FS_CardinalityType
  <2>9. Guardrails.positive * Len(r.outcomes) \in Nat
    <3>1. Guardrails.positive \in Nat /\ Len(r.outcomes) \in Nat
      BY <2>3, ReplayAssumption
    <3> QED
      BY <3>1
  <2> QED
    BY <2>2, <2>7, <2>8, <2>9
<1> QED
  BY <1>2, <1>3, <1>4 DEF GoodReplay

(* A replay without outcomes which is not under way. *)
LEMMA NothingReplayed ==
  ASSUME NEW r, r \in AllReplays(r), r.outcomes = <<>>, r.rows = <<>>, r.pass = FALSE, r.at \in {"none", "empty"},
         NEW table, NEW quotes
  PROVE  GoodReplay(r, table, quotes)
<1>1. ToSet(r.outcomes) = {} /\ DOMAIN r.rows = {} /\ r.rows \in Seq(AllReplayRows)
  BY DEF ToSet
<1>2. RowsOK(quotes, r.rows)
  BY <1>1 DEF RowsOK, RowsApart, RowsMoved
<1>3. AllAccounted(r, table, quotes)
  BY <1>1 DEF AllAccounted
<1>4. InProgress(r, table) /\ Ended(r) /\ VerdictOn(r, quotes)
  BY DEF InProgress, Ended, VerdictOn
<1> QED
  BY <1>2, <1>3, <1>4 DEF GoodReplay

(* Outcomes in order are the same outcomes. *)
LEMMA ByClosingIs ==
  ASSUME NEW A, NEW s \in Seq(A)
  PROVE  ByClosing(s) \in Seq(A) /\ ToSet(ByClosing(s)) = ToSet(s) /\ IsInjective(ByClosing(s))
<1>1. IsFiniteSet(ToSet(s)) /\ ToSet(s) \subseteq A
  BY ElementsAreFinite
<1> DEFINE t == Arranged(ToSet(s), ClosesBefore)
<1>2. ByClosing(s) = t
  BY DEF ByClosing
<1> HIDE DEF t
<1>3. t \in Seq(ToSet(s)) /\ ToSet(t) = ToSet(s) /\ IsInjective(t)
  BY <1>1, OutcomesAreThere DEF t
<1>4. t \in Seq(A)
  BY <1>1, <1>3
<1> QED
  BY <1>2, <1>3, <1>4

(* Only on odds there is a verdict, and by the share of lines that moved   *)
(* the way of the model.                                                   *)
LEMMA GuardrailsAsk ==
  ASSUME NEW mode, NEW os, Len(os) \in Nat, EvaluateGuardrails(mode, os)
  PROVE  mode = "odds" /\ 100 * Cardinality(Positive(os)) >= Guardrails.positive * Len(os)
<1> DEFINE samples == IF mode = "odds" THEN Len(os) ELSE 0
<1>1. samples >= Guardrails.samples /\ 100 * Cardinality(Positive(os)) >= Guardrails.positive * samples
  BY DEF EvaluateGuardrails
<1>2. Guardrails.samples \in Nat \ {0}
  BY ReplayAssumption
<1> QED
  BY <1>1, <1>2

(* No more lines moved the model's way than moved.                         *)
LEMMA PositiveHaveMoved ==
  ASSUME NEW r, NEW quotes, NEW A, r.outcomes \in Seq(A), IsInjective(r.outcomes),
         \A o \in ToSet(r.outcomes) : o.clv \in Int /\ (o.clv # 0 => Moved(quotes, o.game, o.book))
  PROVE  /\ Cardinality(Positive(r.outcomes)) <= Cardinality(MovedOf(r, quotes))
         /\ Cardinality(Positive(r.outcomes)) \in Nat /\ Cardinality(MovedOf(r, quotes)) \in Nat
<1> DEFINE s == r.outcomes
           moved == MovedOf(r, quotes)
           f == [i \in Positive(s) |-> s[i]]
<1>1. IsFiniteSet(ToSet(s))
  BY ElementsAreFinite
<1>2. moved \subseteq ToSet(s) /\ moved = {o \in ToSet(s) : Moved(quotes, o.game, o.book)}
  BY DEF MovedOf
<1>3. IsFiniteSet(moved)
  BY <1>1, <1>2, FS_Subset
<1> HIDE DEF moved, s
<1>4. \A i \in Positive(s) : i \in DOMAIN s /\ s[i].clv > 0
  BY DEF Positive
<1>5. \A i \in Positive(s) : s[i] \in ToSet(s)
  BY <1>4 DEF ToSet
<1>6. ASSUME NEW i \in Positive(s) PROVE s[i] \in moved
  <2>1. s[i].clv \in Int /\ (s[i].clv # 0 => Moved(quotes, s[i].game, s[i].book))
    BY <1>5 DEF s
  <2>2. s[i].clv # 0
    BY <1>4, <2>1
  <2> QED
    BY <1>2, <1>5, <2>1, <2>2
<1>7. f \in Injection(Positive(s), moved)
  <2>1. \A i, j \in DOMAIN s : s[i] = s[j] => i = j
    BY DEF IsInjective, s
  <2> QED
    BY <1>4, <1>6, <2>1 DEF Injection, IsInjective
<1>8. IsFiniteSet(Positive(s)) /\ Cardinality(Positive(s)) <= Cardinality(moved)
  BY <1>3, <1>7, FS_Injection
<1> QED
  BY <1>3, <1>8, FS_CardinalityType DEF s, moved

-----------------------------------------------------------------------------
(* The steps of a replay. *)

(* The replay ends before its last row. *)
LEMMA GivingUp ==
  ASSUME NEW r, NEW table, NEW quotes, GoodReplay(r, table, quotes), r.at = "rows",
         NEW end \in {"stopped", "cut"}, end = "stopped" => ~NewsFor(r, Len(r.outcomes) + 1)
  PROVE  GoodReplay([r EXCEPT !.at = end], table, quotes)
<1> DEFINE next == [r EXCEPT !.at = end]
<1>1. r \in AllReplays(r)
  BY DEF GoodReplay
<1>2. /\ next.at = end /\ next.mode = r.mode /\ next.version = r.version /\ next.rows = r.rows
      /\ next.before = r.before /\ next.outcomes = r.outcomes /\ next.pass = r.pass
      /\ next \in AllReplays(next)
  BY <1>1 DEF AllReplays
<1> HIDE DEF next
<1>3. \A i : NewsFor(next, i) <=> NewsFor(r, i)
  BY <1>2 DEF NewsFor
<1>4. r.pass = FALSE
  BY <1>1 DEF GoodReplay, VerdictOn, AllReplays
<1>5. RowsOK(quotes, next.rows) /\ AllAccounted(next, table, quotes)
  BY <1>2 DEF GoodReplay, AllAccounted
<1>6. InProgress(next, table) /\ VerdictOn(next, quotes)
  BY <1>2, <1>4 DEF InProgress, VerdictOn
<1>7. Ended(next)
  <2>1. \A i \in 1..Len(r.outcomes) : NewsFor(r, i)
    BY DEF GoodReplay, InProgress
  <2>2. DOMAIN r.outcomes = 1..Len(r.outcomes)
    BY <1>1 DEF AllReplays
  <2> QED
    BY <1>2, <1>3, <2>1, <2>2 DEF Ended
<1> QED
  BY <1>2, <1>5, <1>6, <1>7 DEF GoodReplay, next

(* The replay comes to its end. *)
LEMMA Finishing ==
  ASSUME NEW r, NEW table, NEW quotes, GoodReplay(r, table, quotes), r.at = "rows",
         ~(Len(r.outcomes) < Len(r.rows))
  PROVE  GoodReplay(Done(r, ByClosing(r.outcomes)), table, quotes)
<1> DEFINE done == ByClosing(r.outcomes)
           next == Done(r, done)
<1>1. r \in AllReplays(r) /\ r.outcomes \in Seq(AllReplayOutcomes) /\ r.rows \in Seq(AllReplayRows)
  BY DEF GoodReplay, AllReplays
<1>2. done \in Seq(AllReplayOutcomes) /\ ToSet(done) = ToSet(r.outcomes) /\ IsInjective(done)
  BY <1>1, ByClosingIs
<1> HIDE DEF done
<1>3. EvaluateGuardrails(r.mode, done) \in BOOLEAN
  BY DEF EvaluateGuardrails
<1>4. /\ next.at = "done" /\ next.mode = r.mode /\ next.version = r.version /\ next.rows = r.rows
      /\ next.before = r.before /\ next.outcomes = done /\ next.pass = EvaluateGuardrails(r.mode, done)
      /\ next \in AllReplays(next)
  BY <1>1, <1>2, <1>3 DEF AllReplays, Done
<1> HIDE DEF next
<1>5. r.mode = "odds" /\ Len(r.outcomes) <= Len(r.rows) /\ \A i \in 1..Len(r.outcomes) : NewsFor(r, i)
  BY DEF GoodReplay, InProgress
<1>6. AllAccounted(next, table, quotes)
  BY <1>2, <1>4 DEF GoodReplay, AllAccounted
<1>7. Ended(next)
  <2>1. \A i : NewsFor(next, i) <=> NewsFor(r, i)
    BY <1>4 DEF NewsFor
  <2>2. DOMAIN r.rows = 1..Len(r.outcomes)
    BY <1>1, <1>5
  <2> QED
    BY <1>4, <1>5, <2>1, <2>2 DEF Ended
<1>8. VerdictOn(next, quotes)
  <2>1. SUFFICES ASSUME EvaluateGuardrails(r.mode, done)
                 PROVE  100 * Cardinality(MovedOf(next, quotes)) >= Guardrails.positive * Len(done)
    BY <1>4, <1>5 DEF VerdictOn
  <2>2. Len(done) \in Nat
    BY <1>2
  <2>3. 100 * Cardinality(Positive(done)) >= Guardrails.positive * Len(done)
    BY <2>1, <2>2, GuardrailsAsk
  <2>4. \A o \in ToSet(next.outcomes) : o.clv \in Int /\ (o.clv # 0 => Moved(quotes, o.game, o.book))
    BY <1>4, <1>5, <1>6 DEF AllAccounted, Accounted
  <2>5. /\ Cardinality(Positive(done)) <= Cardinality(MovedOf(next, quotes))
        /\ Cardinality(Positive(done)) \in Nat /\ Cardinality(MovedOf(next, quotes)) \in Nat
    BY <1>2, <1>4, <2>4, PositiveHaveMoved
  <2>6. Guardrails.positive * Len(done) \in Nat
    <3>1. Guardrails.positive \in Nat
      BY ReplayAssumption
    <3> QED
      BY <2>2, <3>1
  <2> QED
    BY <2>3, <2>5, <2>6
<1> QED
  BY <1>4, <1>6, <1>7, <1>8 DEF GoodReplay, InProgress, next, done

(* The bankroll stays what it is or gains and loses within the stake.      *)
LEMMA StakesAre ==
  ASSUME NEW sport \in DOMAIN Policy, NEW edge \in Int, NEW balance \in Nat, NEW clv \in Int
  PROVE  ApplyCLV(balance, RecommendStake(sport, edge, balance), clv) \in Nat
<1> DEFINE fraction == Clamp(edge * Policy[sport].kelly, 0, Policy[sport].cap)
           stake == (balance * fraction) \div 10000
           s == RecommendStake(sport, edge, balance)
           moved == (s * clv) \div 100
<1>1. Policy[sport].kelly \in Nat /\ Policy[sport].cap \in Nat /\ MinimumStake \in Nat
  BY ReplayAssumption
<1>2. edge * Policy[sport].kelly \in Int
  BY <1>1
<1>3. fraction \in Nat
  <2> DEFINE x == edge * Policy[sport].kelly
             cap == Policy[sport].cap
  <2> HIDE DEF x, cap
  <2> QED
    BY <1>1, <1>2 DEF Clamp, x, cap
<1> HIDE DEF fraction
<1>4. balance * fraction \in Nat
  BY <1>3
<1>5. stake \in Nat
  <2> DEFINE x == balance * fraction
  <2> HIDE DEF x
  <2>1. x \in Nat
    BY <1>4 DEF x
  <2>2. x \div 10000 \in Nat
    BY <2>1
  <2> QED
    BY <2>2 DEF x
<1>6. s = IF stake < MinimumStake THEN 0 ELSE stake
  BY DEF RecommendStake, fraction
<1> HIDE DEF stake
<1>7. s \in Nat
  BY <1>1, <1>5, <1>6
<1>8. ApplyCLV(balance, s, clv) = Clamp(balance + moved, 0, balance + s)
  BY DEF ApplyCLV
<1> HIDE DEF s
<1>9. moved \in Int
  <2> DEFINE x == s * clv
  <2>1. x \in Int
    BY <1>7
  <2> HIDE DEF x
  <2>2. x \div 100 \in Int
    BY <2>1
  <2> QED
    BY <2>2 DEF x
<1> HIDE DEF moved
<1>10. Clamp(balance + moved, 0, balance + s) \in Nat
  BY <1>7, <1>9 DEF Clamp
<1> QED
  BY <1>8, <1>10 DEF s

(* What is upserted is there, and the rest as it was. *)
LEMMA UpsertIs ==
  ASSUME NEW table, NEW key, NEW row
  PROVE  LET next == Upserted(table, key, row)
         IN  /\ key \in DOMAIN next /\ next[key] = row
             /\ \A k : k # key => /\ k \in DOMAIN next <=> k \in DOMAIN table
                                  /\ k \in DOMAIN table => next[k] = table[k]
BY DEF Upserted

(* The next row is predicted, filed and bet on.                            *)
LEMMA NextRowDone ==
  ASSUME NEW r, NEW table, NEW quotes, GoodReplay(r, table, quotes), r.at = "rows",
         Len(r.outcomes) < Len(r.rows),
         NEW row, row = r.rows[Len(r.outcomes) + 1],
         IsNews(table, KeyFor(r.version, row), PredictionOf(row)),
         NEW balance \in Nat,
         NEW next, next = [r EXCEPT !.outcomes = Append(@, OutcomeOf(row)), !.balance = balance]
  PROVE  GoodReplay(next, Upserted(table, KeyFor(r.version, row), PredictionOf(row)), quotes)
<1> DEFINE n == Len(r.outcomes)
           o == OutcomeOf(row)
           key == KeyFor(r.version, row)
           new == Upserted(table, key, PredictionOf(row))
<1>1. r \in AllReplays(r) /\ r.outcomes \in Seq(AllReplayOutcomes) /\ r.rows \in Seq(AllReplayRows)
  BY DEF GoodReplay, AllReplays
<1>2. n \in Nat /\ Len(r.rows) \in Nat /\ DOMAIN r.rows = 1..Len(r.rows) /\ n + 1 \in DOMAIN r.rows
  BY <1>1
<1>3. row \in AllReplayRows
  BY <1>1, <1>2
<1>4. /\ o.game = row.game /\ o.book = row.book /\ o.predicted = ChanceOf(row.game, row.book)
      /\ PredictionOf(row).predicted = o.predicted
      /\ o.clv \in Int /\ (o.clv # 0 => row.open # row.close)
  BY <1>3, OutcomeIs
<1>5. o \in AllReplayOutcomes
  BY <1>3 DEF AllReplayOutcomes
<1>6. /\ key \in DOMAIN new /\ new[key] = PredictionOf(row)
      /\ \A k : k # key => /\ k \in DOMAIN new <=> k \in DOMAIN table
                           /\ k \in DOMAIN table => new[k] = table[k]
  BY UpsertIs
<1>7. key.game = row.game /\ key.book = row.book
  BY DEF KeyFor
<1> HIDE DEF o, new
<1>8. Append(r.outcomes, o) \in Seq(AllReplayOutcomes) /\ Len(Append(r.outcomes, o)) = n + 1
      /\ ToSet(Append(r.outcomes, o)) = ToSet(r.outcomes) \cup {o}
  BY <1>1, <1>5, ElementsAppended
<1>9. /\ next.at = "rows" /\ next.mode = r.mode /\ next.version = r.version /\ next.rows = r.rows
      /\ next.before = r.before /\ next.outcomes = Append(r.outcomes, o) /\ next.pass = r.pass
      /\ next \in AllReplays(next)
  BY <1>1, <1>8 DEF AllReplays, o
<1>10. \A i : NewsFor(next, i) <=> NewsFor(r, i)
  BY <1>9 DEF NewsFor
<1>11. /\ r.mode = "odds" /\ \A i \in 1..n : NewsFor(r, i)
       /\ \A i \in (n + 1)..Len(r.rows) : Untouched(r, table, i)
  BY DEF GoodReplay, InProgress
<1>12. RowsOK(quotes, r.rows)
  BY DEF GoodReplay
<1> HIDE DEF key
<1>13. AllAccounted(next, new, quotes)
  <2>1. ASSUME NEW x \in ToSet(r.outcomes) PROVE Accounted(x, new, quotes)
    <3>1. Accounted(x, table, quotes)
      BY <1>11 DEF GoodReplay, AllAccounted
    <3>2. PICK k \in DOMAIN table : k.game = x.game /\ k.book = x.book /\ table[k].predicted = x.predicted
      BY <3>1 DEF Accounted, Recorded
    <3>3. CASE k = key
      <4>1. new[k].predicted = x.predicted /\ k \in DOMAIN new
        BY <1>4, <1>6, <1>7, <3>1, <3>2, <3>3 DEF Accounted
      <4> QED
        BY <3>1, <3>2, <4>1 DEF Accounted, Recorded
    <3>4. CASE k # key
      <4>1. new[k] = table[k] /\ k \in DOMAIN new
        BY <1>6, <3>2, <3>4
      <4> QED
        BY <3>1, <3>2, <4>1 DEF Accounted, Recorded
    <3> QED
      BY <3>3, <3>4
  <2>2. Accounted(o, new, quotes)
    <3>1. o.clv # 0 => Moved(quotes, o.game, o.book)
      BY <1>2, <1>4, <1>12 DEF RowsOK, RowsMoved
    <3>2. Recorded(o, new)
      BY <1>4, <1>6, <1>7 DEF Recorded
    <3> QED
      BY <1>4, <3>1, <3>2 DEF Accounted
  <2> QED
    BY <1>8, <1>9, <2>1, <2>2 DEF AllAccounted
<1>14. InProgress(next, new)
  <2>1. NewsFor(r, n + 1)
    <3>1. AsBefore(r, table, key)
      BY <1>2, <1>11 DEF Untouched, key
    <3>2. IsNews(r.before, key, PredictionOf(row))
      BY <3>1 DEF AsBefore, IsNews, key
    <3> QED
      BY <3>2 DEF NewsFor, key
  <2>2. ASSUME NEW i \in (n + 2)..Len(r.rows) PROVE Untouched(next, new, i)
    <3>1. i \in DOMAIN r.rows /\ i # n + 1 /\ i \in (n + 1)..Len(r.rows)
      BY <1>2
    <3> DEFINE k == KeyFor(r.version, r.rows[i])
    <3>2. k # key
      <4>1. ~(r.rows[i].game = row.game /\ r.rows[i].book = row.book)
        BY <1>2, <1>12, <3>1 DEF RowsOK, RowsApart
      <4>2. k.game = r.rows[i].game /\ k.book = r.rows[i].book
        BY DEF KeyFor
      <4> QED
        BY <1>7, <4>1, <4>2
    <3>3. AsBefore(r, table, k)
      BY <1>11, <3>1 DEF Untouched
    <3> HIDE DEF k
    <3>4. AsBefore(next, new, k)
      BY <1>6, <1>9, <3>2, <3>3 DEF AsBefore
    <3> QED
      BY <1>9, <3>4 DEF Untouched, k
  <2>3. \A i \in 1..(n + 1) : NewsFor(r, i)
    <3>1. \A i \in 1..(n + 1) : i \in 1..n \/ i = n + 1
      BY <1>2
    <3> QED
      BY <1>11, <2>1, <3>1
  <2>4. (n + 1) + 1 = n + 2 /\ n + 1 <= Len(r.rows)
    BY <1>2
  <2> QED
    BY <1>8, <1>9, <1>10, <1>11, <2>2, <2>3, <2>4 DEF InProgress
<1>15. r.pass = FALSE
  BY <1>1 DEF GoodReplay, VerdictOn, AllReplays
<1>16. Ended(next) /\ VerdictOn(next, quotes)
  BY <1>9, <1>15 DEF Ended, VerdictOn
<1> QED
  BY <1>9, <1>12, <1>13, <1>14, <1>16 DEF GoodReplay, new, key, o

(* A replay begins with what is listed, or grades the seasons at once. *)
LEMMA Beginning ==
  ASSUME StoredOK, NEW ask \in ReplayAsks, NEW table, NEW next,
         LET work == [NoReplay EXCEPT !.mode = ask.mode, !.version = ask.version, !.before = table]
             rows == ListBacktestReplayRows(ask)
         IN  next = IF (IF ask.mode = "outcome" THEN OutcomeGames(ask.season) ELSE rows) = <<>>
                      THEN [work EXCEPT !.at = "empty"]
                    ELSE IF ask.mode = "outcome" THEN Done(work, OutcomesOfSeason(ask.season, ask.market))
                    ELSE [work EXCEPT !.at = "rows", !.rows = rows]
  PROVE  GoodReplay(next, table, stored)
<1> DEFINE work == [NoReplay EXCEPT !.mode = ask.mode, !.version = ask.version, !.before = table]
           rows == ListBacktestReplayRows(ask)
           graded == OutcomesOfSeason(ask.season, ask.market)
<1>1. ask.mode \in {"odds", "outcome"} /\ ask.version \in Int /\ ask.market \in STRING /\ StartingBankroll \in Nat
  BY ReplayAssumption DEF AllAsks
<1>2. work \in [at : {"none"}, mode : {ask.mode}, version : {ask.version}, rows : {<<>>}, balance : {StartingBankroll},
                before : {table}, outcomes : {<<>>}, folds : {{}}, pass : {FALSE}]
  <2>1. NoReplay \in [at : {"none"}, mode : {"odds"}, version : {0}, rows : {<<>>}, balance : {StartingBankroll},
                      before : {<<>>}, outcomes : {<<>>}, folds : {{}}, pass : {FALSE}]
    BY DEF NoReplay
  <2> HIDE DEF NoReplay
  <2> QED
    BY <2>1
<1> HIDE DEF work, rows, graded
<1>e. <<>> \in Seq(AllReplayRows) /\ <<>> \in Seq(AllReplayOutcomes)
  OBVIOUS
<1>3. RowsOK(stored, rows)
  BY ReplayRowsAre DEF rows
<1>4. graded \in Seq(AllReplayOutcomes)
  <2>1. graded \in Seq(SeasonOutcomes(ask.market))
    BY SeasonOutcomesAre DEF graded
  <2>2. SeasonOutcomes(ask.market) \subseteq AllReplayOutcomes
    BY <1>1 DEF AllReplayOutcomes
  <2> QED
    BY <2>1, <2>2
<1>5. \/ next = [work EXCEPT !.at = "empty"]
      \/ ask.mode = "outcome" /\ next = Done(work, graded)
      \/ ask.mode = "odds" /\ next = [work EXCEPT !.at = "rows", !.rows = rows]
  BY <1>1 DEF work, rows, graded
<1>6. CASE next = [work EXCEPT !.at = "empty"]
  <2>1. next.outcomes = <<>> /\ next.rows = <<>> /\ next.pass = FALSE /\ next.at = "empty" /\ next \in AllReplays(next)
    <3>1. next \in [at : {"empty"}, mode : {ask.mode}, version : {ask.version}, rows : {<<>>}, balance : {StartingBankroll},
                 before : {table}, outcomes : {<<>>}, folds : {{}}, pass : {FALSE}]
      BY <1>2, <1>6
    <3>2. /\ next.at = "empty" /\ next.mode = ask.mode /\ next.rows = <<>> /\ next.outcomes = <<>> /\ next.pass = FALSE
          /\ next.version = ask.version /\ next.balance = StartingBankroll
      BY <3>1
    <3>3. next \in [at : {next.at}, mode : {next.mode}, version : {next.version}, rows : {next.rows},
                   balance : {next.balance}, before : {next.before}, outcomes : {next.outcomes},
                   folds : {next.folds}, pass : {next.pass}]
      BY <3>1
    <3>e. next.rows \in Seq(AllReplayRows) /\ next.outcomes \in Seq(AllReplayOutcomes)
      BY <1>e, <3>2, Zenon
    <3>b. next.at = "empty" /\ next.mode \in {"odds", "outcome"} /\ next.version \in Int /\ next.balance \in Nat /\ next.pass \in BOOLEAN
      BY <1>1, <3>2
    <3>4. next \in AllReplays(next)
      BY <3>b, <3>e, <3>3 DEF AllReplays
    <3> QED
      BY <3>2, <3>4
  <2> QED
    BY <2>1, NothingReplayed
<1>7. CASE ask.mode = "outcome" /\ next = Done(work, graded)
  <2>1. EvaluateGuardrails("outcome", graded) \in BOOLEAN
    BY DEF EvaluateGuardrails
  <2>2. ~EvaluateGuardrails("outcome", graded)
    <3>1. Len(graded) \in Nat
      BY <1>4
    <3> QED
      BY <3>1, GuardrailsAsk
  <2>3. /\ next.at = "done" /\ next.mode = "outcome" /\ next.rows = <<>> /\ next.pass = FALSE
        /\ next \in AllReplays(next)
    <3>1. next \in [at : {"done"}, mode : {ask.mode}, version : {ask.version}, rows : {<<>>}, balance : {StartingBankroll},
                 before : {table}, outcomes : {graded}, folds : {FoldsOf(graded)}, pass : {EvaluateGuardrails(ask.mode, graded)}]
      <4>1. work.mode = ask.mode
        BY <1>2
      <4> QED
        BY <1>2, <1>7, <4>1 DEF Done
    <3>2. /\ next.at = "done" /\ next.mode = "outcome" /\ next.rows = <<>> /\ next.outcomes = graded
          /\ next.pass = FALSE /\ next.version = ask.version /\ next.balance = StartingBankroll
      BY <1>7, <2>1, <2>2, <3>1
    <3>3. next \in [at : {next.at}, mode : {next.mode}, version : {next.version}, rows : {next.rows},
                   balance : {next.balance}, before : {next.before}, outcomes : {next.outcomes},
                   folds : {next.folds}, pass : {next.pass}]
      BY <3>1
    <3>e. next.rows \in Seq(AllReplayRows) /\ next.outcomes \in Seq(AllReplayOutcomes)
      BY <1>4, <1>e, <3>2, Zenon
    <3>b. next.at = "done" /\ next.mode \in {"odds", "outcome"} /\ next.version \in Int /\ next.balance \in Nat /\ next.pass \in BOOLEAN
      BY <1>1, <3>2
    <3>4. next \in AllReplays(next)
      BY <3>b, <3>e, <3>3 DEF AllReplays
    <3> QED
      BY <3>2, <3>4
  <2>4. RowsOK(stored, next.rows) /\ DOMAIN next.rows = {}
    <3>0. DOMAIN <<>> = {}
      OBVIOUS
    <3>1. DOMAIN next.rows = {} /\ next.rows \in Seq(AllReplayRows)
      BY <1>e, <2>3, <3>0, Zenon
    <3> QED
      BY <3>1 DEF RowsOK, RowsApart, RowsMoved
  <2> QED
    BY <2>3, <2>4 DEF GoodReplay, AllAccounted, InProgress, Ended, VerdictOn
<1>8. CASE ask.mode = "odds" /\ next = [work EXCEPT !.at = "rows", !.rows = rows]
  <2>1. rows \in Seq(AllReplayRows) /\ Len(rows) \in Nat
    BY <1>3 DEF RowsOK
  <2>2. /\ next.at = "rows" /\ next.mode = "odds" /\ next.rows = rows /\ next.outcomes = <<>> /\ next.pass = FALSE
        /\ next.before = table /\ next \in AllReplays(next)
    <3>1. next \in [at : {"rows"}, mode : {ask.mode}, version : {ask.version}, rows : {rows}, balance : {StartingBankroll},
                 before : {table}, outcomes : {<<>>}, folds : {{}}, pass : {FALSE}]
      BY <1>2, <1>8
    <3>2. /\ next.at = "rows" /\ next.mode = "odds" /\ next.rows = rows /\ next.outcomes = <<>> /\ next.pass = FALSE
          /\ next.before = table /\ next.version = ask.version /\ next.balance = StartingBankroll
      BY <1>8, <3>1
    <3>3. next \in [at : {next.at}, mode : {next.mode}, version : {next.version}, rows : {next.rows},
                   balance : {next.balance}, before : {next.before}, outcomes : {next.outcomes},
                   folds : {next.folds}, pass : {next.pass}]
      BY <3>1
    <3>e. next.rows \in Seq(AllReplayRows) /\ next.outcomes \in Seq(AllReplayOutcomes)
      BY <1>e, <2>1, <3>2, Zenon
    <3>b. next.at = "rows" /\ next.mode \in {"odds", "outcome"} /\ next.version \in Int /\ next.balance \in Nat /\ next.pass \in BOOLEAN
      BY <1>1, <3>2
    <3>4. next \in AllReplays(next)
      BY <3>b, <3>e, <3>3 DEF AllReplays
    <3> QED
      BY <3>2, <3>4
  <2>3. ToSet(next.outcomes) = {} /\ Len(next.outcomes) = 0 /\ 1..0 = {}
    BY <2>2 DEF ToSet
  <2>4. \A i : Untouched(next, table, i)
    BY <2>2 DEF Untouched, AsBefore
  <2>5. InProgress(next, table)
    BY <2>1, <2>2, <2>3, <2>4 DEF InProgress
  <2> QED
    BY <1>3, <2>2, <2>3, <2>5 DEF GoodReplay, AllAccounted, Ended, VerdictOn
<1> QED
  BY <1>5, <1>6, <1>7, <1>8

(* The replay stays good whatever comes in while it runs.                  *)
LEMMA ReplayInvHolds == ReplaySpec => []ReplayInv
<1>1. ReplayInit => ReplayInv
  <2> SUFFICES ASSUME ReplayInit PROVE ReplayInv
    OBVIOUS
  <2>1. /\ replay.outcomes = <<>> /\ replay.rows = <<>> /\ replay.pass = FALSE /\ replay.at = "none"
        /\ replay \in AllReplays(replay)
    BY ReplayAssumption DEF ReplayInit, NoReplay, AllReplays
  <2>2. GoodReplay(replay, predictions, stored)
    BY <2>1, NothingReplayed
  <2> QED
    BY <2>2 DEF ReplayInv, StoredOK, ReplayInit
<1>2. ReplayInv /\ [ReplayNext]_replayVars => ReplayInv'
  <2> SUFFICES ASSUME ReplayInv, [ReplayNext]_replayVars PROVE ReplayInv'
    OBVIOUS
  <2>0. StoredOK /\ GoodReplay(replay, predictions, stored)
    BY DEF ReplayInv
  <2>1. ASSUME NEW i \in DOMAIN HomeQuotes, StoreQuote(i) PROVE ReplayInv'
    <3>1. stored \subseteq stored' /\ StoredOK' /\ UNCHANGED <<predictions, replay>>
      BY <2>0, <2>1 DEF StoreQuote, StoredOK
    <3>2. GoodReplay(replay, predictions, stored')
      BY <2>0, <3>1, QuotesComeIn
    <3> QED
      BY <3>1, <3>2 DEF ReplayInv
  <2>2. ASSUME NEW game \in DOMAIN FinalScores, StoreResult(game) PROVE ReplayInv'
    <3>1. StoredOK' /\ UNCHANGED <<predictions, replay, stored>>
      BY <2>0, <2>2 DEF StoreResult, StoredOK
    <3> QED
      BY <2>0, <3>1 DEF ReplayInv
  <2>3. ASSUME NEW ask \in ReplayAsks, BeginReplay(ask) PROVE ReplayInv'
    <3>1. StoredOK' /\ UNCHANGED <<predictions, stored>>
      BY <2>0, <2>3 DEF BeginReplay, StoredOK
    <3>2. LET work == [NoReplay EXCEPT !.mode = ask.mode, !.version = ask.version, !.before = predictions]
              rows == ListBacktestReplayRows(ask)
          IN  replay' = IF (IF ask.mode = "outcome" THEN OutcomeGames(ask.season) ELSE rows) = <<>>
                          THEN [work EXCEPT !.at = "empty"]
                        ELSE IF ask.mode = "outcome" THEN Done(work, OutcomesOfSeason(ask.season, ask.market))
                        ELSE [work EXCEPT !.at = "rows", !.rows = rows]
      BY <2>3 DEF BeginReplay
    <3>3. GoodReplay(replay', predictions, stored)
      BY <2>0, <3>2, Beginning
    <3> QED
      BY <3>1, <3>3 DEF ReplayInv
  <2>4. ASSUME PersistPrediction PROVE ReplayInv'
    <3> DEFINE row == NextRow
               n == Len(replay.outcomes)
               o == OutcomeOf(row)
               balance == ApplyCLV(replay.balance,
                                   RecommendStake(ReplayGames[row.game].sport, o.edge, replay.balance), o.clv)
    <3>1. replay.at = "rows" /\ n < Len(replay.rows) /\ row = replay.rows[n + 1]
      BY <2>4 DEF PersistPrediction, HasNextRow, IsReplaying, NextRow
    <3>2. KeyOfRow(row) = KeyFor(replay.version, row)
      BY DEF KeyOfRow, KeyFor
    <3>3. /\ IsNews(predictions, KeyOfRow(row), PredictionOf(row))
          /\ predictions' = Upserted(predictions, KeyOfRow(row), PredictionOf(row))
          /\ replay' = [replay EXCEPT !.outcomes = Append(@, o), !.balance = balance]
          /\ UNCHANGED <<stored, finals>>
      BY <2>4 DEF PersistPrediction, Answers
    <3>4. row \in AllReplayRows
      <4>1. replay.rows \in Seq(AllReplayRows) /\ n \in Nat
        BY <2>0 DEF GoodReplay, AllReplays
      <4> HIDE DEF row, n
      <4> QED
        BY <3>1, <4>1
    <3> HIDE DEF row
    <3>5. o.edge \in Int /\ o.clv \in Int
      BY <3>4, OutcomeIs DEF SoundOutcome
    <3>6. replay.balance \in Nat
      BY <2>0 DEF GoodReplay, AllReplays
    <3>7. ReplayGames[row.game].sport \in DOMAIN Policy
      BY <3>4, ReplayAssumption DEF AllReplayRows
    <3> HIDE DEF o
    <3>8. balance \in Nat
      BY <3>5, <3>6, <3>7, StakesAre
    <3> HIDE DEF balance
    <3>9. GoodReplay(replay', predictions', stored)
      BY <2>0, <3>1, <3>2, <3>3, <3>8, NextRowDone DEF o
    <3> QED
      BY <2>0, <3>3, <3>9 DEF ReplayInv, StoredOK
  <2>5. ASSUME NothingReturned PROVE ReplayInv'
    <3>1. /\ replay.at = "rows" /\ Len(replay.outcomes) < Len(replay.rows)
          /\ ~IsNews(predictions, KeyOfRow(NextRow), PredictionOf(NextRow))
          /\ replay' = [replay EXCEPT !.at = "stopped"] /\ UNCHANGED <<stored, finals, predictions>>
      BY <2>5 DEF NothingReturned, HasNextRow, IsReplaying, Answers
    <3>2. ~NewsFor(replay, Len(replay.outcomes) + 1)
      <4>1. Len(replay.outcomes) \in Nat /\ Len(replay.rows) \in Nat
        BY <2>0 DEF GoodReplay, AllReplays
      <4>2. Len(replay.outcomes) + 1 \in (Len(replay.outcomes) + 1)..Len(replay.rows)
        BY <3>1, <4>1
      <4>3. Untouched(replay, predictions, Len(replay.outcomes) + 1)
        BY <2>0, <3>1, <4>2 DEF GoodReplay, InProgress
      <4>4. ~IsNews(predictions, KeyFor(replay.version, NextRow), PredictionOf(NextRow))
        BY <3>1 DEF KeyOfRow, KeyFor
      <4>5. NextRow = replay.rows[Len(replay.outcomes) + 1]
        BY DEF NextRow
      <4> QED
        BY <4>3, <4>4, <4>5 DEF NewsFor, IsNews, Untouched, AsBefore
    <3>3. GoodReplay(replay', predictions, stored)
      BY <2>0, <3>1, <3>2, GivingUp
    <3> QED
      BY <2>0, <3>1, <3>3 DEF ReplayInv, StoredOK
  <2>6. ASSUME FinishReplay PROVE ReplayInv'
    <3>1. /\ replay.at = "rows" /\ ~(Len(replay.outcomes) < Len(replay.rows))
          /\ replay' = Done(replay, ByClosing(replay.outcomes)) /\ UNCHANGED <<stored, finals, predictions>>
      BY <2>6 DEF FinishReplay, HasNextRow, IsReplaying
    <3>2. GoodReplay(replay', predictions, stored)
      BY <2>0, <3>1, Finishing
    <3> QED
      BY <2>0, <3>1, <3>2 DEF ReplayInv, StoredOK
  <2>7. ASSUME CutShort PROVE ReplayInv'
    <3>1. /\ replay.at = "rows" /\ replay' = [replay EXCEPT !.at = "cut"] /\ UNCHANGED <<stored, finals, predictions>>
      BY <2>7 DEF CutShort, IsReplaying
    <3>2. GoodReplay(replay', predictions, stored)
      BY <2>0, <3>1, GivingUp
    <3> QED
      BY <2>0, <3>1, <3>2 DEF ReplayInv, StoredOK
  <2>8. ASSUME UNCHANGED replayVars PROVE ReplayInv'
    <3>1. UNCHANGED <<stored, finals, predictions, replay>>
      BY <2>8 DEF replayVars
    <3> QED
      BY <2>0, <3>1 DEF ReplayInv, StoredOK
  <2> QED
    BY <2>1, <2>2, <2>3, <2>4, <2>5, <2>6, <2>7, <2>8 DEF ReplayNext
<1> QED
  BY <1>1, <1>2, PTL DEF ReplaySpec

(* A bet is on the side the model favours, the virtual bankroll is never   *)
(* overspent, and what was replayed is in model_predictions, though later  *)
(* rows and replays write there too.                                       *)
THEOREM ReplayTypeCorrect == ReplaySpec => []ReplayTypeOK
<1>1. ReplayInv => ReplayTypeOK
  <2> SUFFICES ASSUME ReplayInv PROVE ReplayTypeOK
    OBVIOUS
  <2>1. replay \in AllReplays(replay) /\ AllAccounted(replay, predictions, stored)
    BY DEF ReplayInv, GoodReplay
  <2>2. replay.balance \in Nat /\ replay.outcomes \in Seq(AllReplayOutcomes)
    BY <2>1 DEF AllReplays
  <2>3. ASSUME NEW o \in Seen PROVE SoundOutcome(o)
    <3>1. o \in AllReplayOutcomes
      BY <2>2, ElementsAreFinite DEF Seen
    <3>2. ASSUME NEW row \in AllReplayRows, o = OutcomeOf(row) PROVE SoundOutcome(o)
      BY <3>2, OutcomeIs
    <3>3. ASSUME NEW market, o \in SeasonOutcomes(market) PROVE SoundOutcome(o)
      <4>1. PICK t \in ToSet(TeamGames) : o \in ToSet(OutcomesOfGame(t, market))
        BY <3>3 DEF SeasonOutcomes
      <4> QED
        BY <4>1, GameOutcomesAre
    <3> QED
      BY <3>1, <3>2, <3>3 DEF AllReplayOutcomes
  <2>4. replay.mode = "odds" => \A o \in Seen : Recorded(o, predictions)
    BY <2>1 DEF AllAccounted, Accounted, Seen
  <2>5. replay.balance >= 0
    BY <2>2
  <2> QED
    BY <2>3, <2>4, <2>5 DEF ReplayTypeOK, SoundOutcome, Recorded
<1> QED
  BY <1>1, ReplayInvHolds, PTL

(* A replay comes to an end on news alone, though it writes the table it   *)
(* asks, and to a verdict only on odds that moved.                         *)
THEOREM NewsAndMovementNeeded == ReplaySpec => []ReplaysNeedNews
<1>1. ReplayInv => ReplaysNeedNews
  <2> SUFFICES ASSUME ReplayInv PROVE ReplaysNeedNews
    OBVIOUS
  <2>1. Ended(replay) /\ VerdictOn(replay, stored)
    BY DEF ReplayInv, GoodReplay
  <2>2. \A i : IsNews(replay.before, KeyOfRow(replay.rows[i]), PredictionOf(replay.rows[i])) <=> NewsFor(replay, i)
    BY DEF NewsFor, KeyOfRow, KeyFor
  <2>3. RunsNeedNews
    BY <2>1, <2>2 DEF RunsNeedNews, Ended
  <2>4. MovedOf(replay, stored)
          = {o \in Seen : \E i, j \in SeriesOf(o.game, o.book) : HomeQuotes[i].chance # HomeQuotes[j].chance}
    BY DEF MovedOf, Moved, Seen, SeriesOf, QuotesOf
  <2>5. NoVerdictWithoutMovement
    BY <2>1, <2>4 DEF NoVerdictWithoutMovement, VerdictOn
  <2> QED
    BY <2>3, <2>5 DEF ReplaysNeedNews
<1> QED
  BY <1>1, ReplayInvHolds, PTL

-----------------------------------------------------------------------------
(* What a replay knows in advance. *)

(* Closing time, game and book order outcomes of which there is one for a  *)
(* game and book.                                                          *)
KeyedApart(S) ==
  /\ \A o \in S : o.closeAt \in Int /\ o.game \in Int /\ o.book \in Int
  /\ \A o, p \in S : o.game = p.game /\ o.book = p.book => o = p

ClosingOrder(S) == {pair \in S \X S : ClosesBefore(pair[1], pair[2])}

(* The keys decide one after the other. *)
LEMMA ClosesBeforeIs ==
  ASSUME NEW o, NEW p
  PROVE  ClosesBefore(o, p) <=>
           \/ o.closeAt < p.closeAt
           \/ o.closeAt = p.closeAt /\ o.game < p.game
           \/ o.closeAt = p.closeAt /\ o.game = p.game /\ o.book < p.book
<1> DEFINE a == <<o.closeAt, o.game, o.book>>
           b == <<p.closeAt, p.game, p.book>>
<1>1. ClosesBefore(o, p) <=> \E n \in 1..3 : a[n] < b[n] /\ \A k \in 1..n - 1 : a[k] = b[k]
  BY DEF ClosesBefore
<1>2. /\ a[1] = o.closeAt /\ a[2] = o.game /\ a[3] = o.book
      /\ b[1] = p.closeAt /\ b[2] = p.game /\ b[3] = p.book
  OBVIOUS
<1> HIDE DEF a, b
<1>3. 1..3 = {1, 2, 3} /\ 1..1 - 1 = {} /\ 1..2 - 1 = {1} /\ 1..3 - 1 = {1, 2}
  OBVIOUS
<1>4. (\E n \in {1, 2, 3} : a[n] < b[n] /\ \A k \in 1..n - 1 : a[k] = b[k]) <=>
        \/ a[1] < b[1]
        \/ a[2] < b[2] /\ a[1] = b[1]
        \/ a[3] < b[3] /\ a[1] = b[1] /\ a[2] = b[2]
  BY <1>3
<1> QED
  BY <1>1, <1>2, <1>3, <1>4

(* Outcomes apart in game and book close one after the other. *)
LEMMA ClosingOrderIsOrder ==
  ASSUME NEW S, KeyedApart(S)
  PROVE  /\ StrictOrderOn(ClosingOrder(S), S) /\ TotalOn(ClosingOrder(S), S)
         /\ \A o, p \in S : <<o, p>> \in ClosingOrder(S) <=> ClosesBefore(o, p)
<1>1. \A o, p \in S : <<o, p>> \in ClosingOrder(S) <=> ClosesBefore(o, p)
  BY DEF ClosingOrder
<1>2. \A o \in S : o.closeAt \in Int /\ o.game \in Int /\ o.book \in Int
  BY DEF KeyedApart
<1>3. \A o, p \in S : ClosesBefore(o, p) <=>
           \/ o.closeAt < p.closeAt
           \/ o.closeAt = p.closeAt /\ o.game < p.game
           \/ o.closeAt = p.closeAt /\ o.game = p.game /\ o.book < p.book
  BY ClosesBeforeIs
<1>4. StrictOrderOn(ClosingOrder(S), S)
  <2>1. ASSUME NEW o \in S, NEW p \in S, ClosesBefore(o, p) PROVE ~ClosesBefore(p, o)
    BY <1>2, <1>3, <2>1
  <2>2. ASSUME NEW o \in S, NEW p \in S, NEW q \in S, ClosesBefore(o, p), ClosesBefore(p, q)
        PROVE  ClosesBefore(o, q)
    BY <1>2, <1>3, <2>2
  <2> QED
    BY <1>1, <2>1, <2>2 DEF StrictOrderOn
<1>5. TotalOn(ClosingOrder(S), S)
  <2>1. ASSUME NEW o \in S, NEW p \in S, o # p PROVE ClosesBefore(o, p) \/ ClosesBefore(p, o)
    <3>1. o.game # p.game \/ o.book # p.book
      BY <2>1 DEF KeyedApart
    <3> QED
      BY <1>2, <1>3, <3>1
  <2> QED
    BY <1>1, <2>1 DEF TotalOn
<1> QED
  BY <1>1, <1>4, <1>5

(* The outcomes of a replay by the time their line closed. *)
LEMMA OutcomesInOrder ==
  ASSUME NEW S, KeyedApart(S), IsFiniteSet(S)
  PROVE  Arranged(S, ClosesBefore) \in Seq(S) /\ SortedBy(Arranged(S, ClosesBefore), ClosingOrder(S))
<1> DEFINE s == SetToSeq(S)
           before == ClosingOrder(S)
           n == Len(s)
<1>s. s \in Seq(S) /\ IsInjective(s) /\ ToSet(s) = S
  BY SetsHaveListings
<1>a. Arranged(S, ClosesBefore) = StableSort(s, ClosesBefore)
  BY DEF Arranged
<1> HIDE DEF s
<1>1. n \in Nat /\ DOMAIN s = 1..n /\ \A i \in 1..n : s[i] \in S
  BY <1>s
<1>2. /\ StrictOrderOn(before, S) /\ TotalOn(before, S)
      /\ \A p, q \in S : <<p, q>> \in before <=> ClosesBefore(p, q)
  BY ClosingOrderIsOrder
<1>3. PICK run \in [0..n -> Seq(S)] :
        PutsIn(run, s) /\ PutsByClosing(run, s) /\ run[n] = StableSort(s, ClosesBefore)
  BY <1>s, OutcomesArePutIn
<1> HIDE DEF before
<1>4. ASSUME NEW i \in 1..n
      PROVE  run[i] = InsertBehind(run[i - 1], s[i], {j \in DOMAIN run[i - 1] : <<s[i], run[i - 1][j]>> \notin before})
  <2>1. i - 1 \in 0..n /\ s[i] \in S
    BY <1>1
  <2>2. run[i - 1] \in Seq(S)
    BY <2>1
  <2>3. \A j \in DOMAIN run[i - 1] : run[i - 1][j] \in S
    BY <2>2
  <2>4. {j \in DOMAIN run[i - 1] : <<s[i], run[i - 1][j]>> \notin before}
          = {j \in DOMAIN run[i - 1] : ~ClosesBefore(s[i], run[i - 1][j])}
    BY <1>2, <2>1, <2>3
  <2> QED
    BY <1>3, <2>4 DEF PutsByClosing, n
<1>5. Insertions(run, s, before)
  BY <1>3, <1>4 DEF Insertions, PutsIn, n
<1>6. run[n] \in Seq(S) /\ SortedBy(run[n], before)
  BY <1>s, <1>2, <1>3, <1>5, InsertionsSort DEF n
<1> QED
  BY <1>a, <1>3, <1>6 DEF before

(* Nothing is listed that closes before, or is, what is listed before it.  *)
Told(o) == <<o.game, o.market, o.book>>
InTime(s) == \A i, j \in DOMAIN s : i < j => s[i].closeAt <= s[j].closeAt /\ Told(s[i]) # Told(s[j])

TrainsOnThePast(folds) ==
  \A fold \in folds : \A t \in ToSet(fold.train), v \in ToSet(fold.validation) :
    t.closeAt <= v.closeAt /\ Told(t) # Told(v)

(* A fold is two stretches of the list, the training before the validation.*)
LEMMA FoldsAreInTime ==
  ASSUME NEW A, NEW s, s \in Seq(A), InTime(s)
  PROVE  TrainsOnThePast(FoldsOf(s))
<1> DEFINE n == Len(s)
           window == TrainWindow + ValidationWindow
           starts == {k \in 0..n : k % FoldStep = 0 /\ k + window <= n}
<1>1. n \in Nat /\ DOMAIN s = 1..n /\ TrainWindow \in Nat /\ ValidationWindow \in Nat
  BY ScheduleAssumption
<1>2. SUFFICES ASSUME NEW fold \in FoldsOf(s), NEW t \in ToSet(fold.train), NEW v \in ToSet(fold.validation)
               PROVE  t.closeAt <= v.closeAt /\ Told(t) # Told(v)
  BY DEF TrainsOnThePast
<1>f. PICK k \in starts : fold = [train |-> SubSeq(s, k + 1, k + TrainWindow),
                                validation |-> SubSeq(s, k + TrainWindow + 1, k + window)]
  BY DEF FoldsOf
<1>t. fold.train = SubSeq(s, k + 1, k + TrainWindow) /\ fold.validation = SubSeq(s, k + TrainWindow + 1, k + window)
  BY <1>f
<1>3. k \in 0..n /\ k + window <= n
  OBVIOUS
<1> HIDE DEF n, starts
<1>4. PICK i \in 1..TrainWindow : t = s[k + i]
  <2> DEFINE part == SubSeq(s, k + 1, k + TrainWindow)
  <2>1. DOMAIN part = 1..TrainWindow /\ \A i \in 1..TrainWindow : part[i] = s[k + i]
    BY <1>1, <1>3
  <2> HIDE DEF part
  <2>2. PICK i \in DOMAIN part : t = part[i]
    BY <1>t DEF ToSet, part
  <2> QED
    BY <2>1, <2>2
<1>5. PICK j \in 1..ValidationWindow : v = s[k + TrainWindow + j]
  <2> DEFINE part == SubSeq(s, k + TrainWindow + 1, k + window)
  <2>1. DOMAIN part = 1..ValidationWindow /\ \A j \in 1..ValidationWindow : part[j] = s[k + TrainWindow + j]
    BY <1>1, <1>3
  <2> HIDE DEF part
  <2>2. PICK j \in DOMAIN part : v = part[j]
    BY <1>t DEF ToSet, part
  <2> QED
    BY <2>1, <2>2
<1>6. k + i \in DOMAIN s /\ k + TrainWindow + j \in DOMAIN s /\ k + i < k + TrainWindow + j
  BY <1>1, <1>3
<1> QED
  BY <1>4, <1>5, <1>6 DEF InTime

(* Sorted by the time their line closed, outcomes are in time. *)
LEMMA ByClosingIsInTime ==
  ASSUME NEW A, NEW s, s \in Seq(A), KeyedApart(ToSet(s))
  PROVE  InTime(ByClosing(s))
<1> DEFINE S == ToSet(s)
           t == Arranged(S, ClosesBefore)
<1>1. IsFiniteSet(S)
  BY ElementsAreFinite
<1>2. ByClosing(s) = t
  BY DEF ByClosing
<1> HIDE DEF S
<1>3. t \in Seq(S) /\ SortedBy(t, ClosingOrder(S)) /\ IsInjective(t)
  BY <1>1, OutcomesInOrder, OutcomesAreThere DEF S
<1> HIDE DEF t
<1>4. SUFFICES ASSUME NEW i \in DOMAIN t, NEW j \in DOMAIN t, i < j
               PROVE  t[i].closeAt <= t[j].closeAt /\ Told(t[i]) # Told(t[j])
  BY <1>2 DEF InTime
<1>5. t[i] \in S /\ t[j] \in S /\ t[i] # t[j]
  <2>1. i # j
    <3>1. i \in Int /\ j \in Int
      BY <1>3
    <3> QED
      BY <1>4, <3>1
  <2> QED
    BY <1>3, <2>1 DEF IsInjective
<1>6. ClosesBefore(t[i], t[j])
  BY <1>3, <1>4 DEF SortedBy, ClosingOrder
<1>7. t[i].closeAt \in Int /\ t[j].closeAt \in Int
  BY <1>5 DEF KeyedApart, S
<1>8. t[i].closeAt <= t[j].closeAt
  BY <1>6, <1>7, ClosesBeforeIs
<1>9. t[i].game # t[j].game \/ t[i].book # t[j].book
  BY <1>5 DEF KeyedApart, S
<1> QED
  BY <1>8, <1>9 DEF Told

-----------------------------------------------------------------------------
(* The schedule. *)

(* Two entries of MoneyPuck's table. *)
LEMMA ScheduleIs ==
  ASSUME NEW i \in DOMAIN TeamGames, NEW j \in DOMAIN TeamGames
  PROVE  LET t == TeamGames[i]
             u == TeamGames[j]
         IN  /\ t \in AllTeamGames /\ t.game # 0 /\ i \in Int
             /\ i < j => t.day <= u.day
             /\ t.team = u.team /\ t.day = u.day => i = j
             /\ t.game = u.game => t.day = u.day /\ t.playoff = u.playoff /\ (t.home = u.home => i = j)
<1>1. TeamGames[i] \in AllTeamGames /\ i \in Int
  <2>1. TeamGames \in Seq(AllTeamGames)
    BY ReplayAssumption
  <2> QED
    BY <2>1
<1> QED
  BY <1>1, ScheduleAssumption

HomeGames == {t \in ToSet(TeamGames) : t.home /\ ~t.playoff}
GameOrder == {x \in ToSet(TeamGames) \X ToSet(TeamGames) : x[1].day <= x[2].day /\ x[1].game # x[2].game}

(* A season is listed day by day, each game of it once. *)
LEMMA SeasonGamesAre ==
  ASSUME NEW season
  PROVE  /\ OutcomeGames(season) \in Seq(HomeGames)
         /\ SortedBy(OutcomeGames(season), GameOrder)
<1> DEFINE n == Len(TeamGames)
           places == {i \in DOMAIN TeamGames : LET t == TeamGames[i] IN t.home /\ ~t.playoff /\ season \in {0, t.season}}
           s == OutcomeGames(season)
<1>1. TeamGames \in Seq(ToSet(TeamGames)) /\ n \in Nat /\ DOMAIN TeamGames = 1..n
  <2>1. TeamGames \in Seq(AllTeamGames)
    BY ReplayAssumption
  <2>2. n \in Nat /\ TeamGames \in [1..n -> AllTeamGames]
    BY <2>1
  <2>3. TeamGames \in [1..n -> ToSet(TeamGames)]
    BY <2>2 DEF ToSet
  <2> QED
    BY <2>2, <2>3, SeqDef
<1>2. s = Where(TeamGames, places)
  BY DEF OutcomeGames
<1>p. \A i \in places : i \in DOMAIN TeamGames /\ TeamGames[i].home /\ ~TeamGames[i].playoff
  OBVIOUS
<1> HIDE DEF places, n, s
<1>3. s \in Seq(ToSet(TeamGames)) /\ ToSet(s) = {TeamGames[i] : i \in places \cap (1..n)}
  BY <1>1, <1>2, WhereElements DEF n
<1>4. ToSet(s) \subseteq HomeGames
  <2> SUFFICES ASSUME NEW i \in places PROVE TeamGames[i] \in HomeGames
    BY <1>3
  <2>1. TeamGames[i] \in ToSet(TeamGames)
    BY <1>p DEF ToSet
  <2> QED
    BY <1>p, <2>1 DEF HomeGames
<1>5. s \in Seq(HomeGames)
  <2>1. Len(s) \in Nat /\ s \in [1..Len(s) -> ToSet(TeamGames)]
    BY <1>3
  <2>2. s \in [1..Len(s) -> HomeGames]
    BY <1>4, <2>1 DEF ToSet
  <2> QED
    BY <2>1, <2>2, SeqDef
<1>6. InOrderAt(TeamGames, places, GameOrder)
  <2>1. SUFFICES ASSUME NEW i \in places, NEW j \in places, i < j
                 PROVE  <<TeamGames[i], TeamGames[j]>> \in GameOrder
    BY DEF InOrderAt
  <2>2. i \in DOMAIN TeamGames /\ j \in DOMAIN TeamGames /\ TeamGames[i].home /\ TeamGames[j].home
    BY <1>p
  <2>3. /\ TeamGames[i].day <= TeamGames[j].day /\ i # j
        /\ TeamGames[i].game = TeamGames[j].game => (TeamGames[i].home = TeamGames[j].home => i = j)
    <3>1. i \in Int /\ j \in Int
      BY <2>2, ScheduleIs
    <3>2. i # j
      BY <2>1, <3>1
    <3> QED
      BY <2>1, <2>2, <3>2, ScheduleIs
  <2>4. TeamGames[i].home = TeamGames[j].home
    <3>1. TeamGames[i].home \in BOOLEAN /\ TeamGames[j].home \in BOOLEAN
      <4>1. TeamGames[i] \in AllTeamGames /\ TeamGames[j] \in AllTeamGames
        BY <2>2, ScheduleIs
      <4> QED
        BY <4>1 DEF AllTeamGames
    <3> QED
      BY <2>2, <3>1
  <2>5. TeamGames[i] \in ToSet(TeamGames) /\ TeamGames[j] \in ToSet(TeamGames)
    BY <2>2 DEF ToSet
  <2> QED
    BY <2>3, <2>4, <2>5 DEF GameOrder
<1>7. SortedBy(s, GameOrder)
  BY <1>1, <1>2, <1>6, WhereInOrder
<1> QED
  BY <1>5, <1>7 DEF s

TimeOrder(S) == {x \in S \X S : x[1].closeAt <= x[2].closeAt /\ Told(x[1]) # Told(x[2])}

AwayEntry(game) == TeamGames[CHOOSE i \in DOMAIN TeamGames : TeamGames[i].game = game /\ ~TeamGames[i].home]

(* What a game of a season is told and graded by. *)
GradedAs(o, t) ==
  LET f == BuildNHLFeatures(t.team, AwayEntry(t.game).team, t.day, t.season)
  IN  /\ o.game = t.game /\ o.closeAt = 24 * t.day /\ o.actual = <<t.goals, AwayEntry(t.game).goals>>
      /\ o.real = f.real /\ o.used = f.used

(* A game is told once in each market. *)
LEMMA OneGameInTime ==
  ASSUME NEW t \in HomeGames, NEW market, NEW S, ToSet(OutcomesOfGame(t, market)) \subseteq S
  PROVE  /\ \A o \in ToSet(OutcomesOfGame(t, market)) : GradedAs(o, t)
         /\ SortedBy(OutcomesOfGame(t, market), TimeOrder(S))
<1> DEFINE away == AwayEntry(t.game)
           f == BuildNHLFeatures(t.team, away.team, t.day, t.season)
           Graded(name, chance, won) ==
             [game |-> t.game, book |-> 0, market |-> name, closeAt |-> 24 * t.day, close |-> 0,
              predicted |-> chance, edge |-> 0, clv |-> 0, real |-> f.real, used |-> f.used,
              actual |-> <<t.goals, away.goals>>, won |-> won]
           h2h == Graded("outcome", HomeWinChance(f), t.goals > away.goals)
           totals == Graded("totals", OverChance(f), t.goals + away.goals > TotalsLine)
           both == (IF market \in {"outcome", "all"} THEN <<h2h>> ELSE <<>>)
                     \o (IF market \in {"totals", "all"} THEN <<totals>> ELSE <<>>)
<1>1. OutcomesOfGame(t, market) = both
  BY DEF OutcomesOfGame, AwayEntry
<1>2. GradedAs(h2h, t) /\ GradedAs(totals, t)
  BY DEF GradedAs
<1>3. Told(h2h) # Told(totals)
  <2>1. Told(h2h)[2] = "outcome" /\ Told(totals)[2] = "totals"
    BY DEF Told
  <2> QED
    BY <2>1
<1>4. h2h.closeAt <= totals.closeAt
  <2>1. t \in AllTeamGames
    <3>1. TeamGames \in Seq(AllTeamGames)
      BY ReplayAssumption
    <3> QED
      BY <3>1, ElementsAreFinite DEF HomeGames
  <2>2. t.day \in Nat
    BY <2>1 DEF AllTeamGames
  <2>3. h2h.closeAt = 24 * t.day /\ totals.closeAt = 24 * t.day
    OBVIOUS
  <2> HIDE DEF h2h, totals
  <2> QED
    BY <2>2, <2>3
<1> HIDE DEF h2h, totals
<1>5. both \in {<<>>, <<h2h>>, <<totals>>, <<h2h, totals>>}
  <2>1. /\ <<>> \o <<>> = <<>> /\ <<h2h>> \o <<>> = <<h2h>> /\ <<>> \o <<totals>> = <<totals>>
        /\ <<h2h>> \o <<totals>> = <<h2h, totals>>
    <3>1. <<h2h>> \in Seq({h2h, totals}) /\ <<totals>> \in Seq({h2h, totals}) /\ <<>> \in Seq({h2h, totals})
      OBVIOUS
    <3>2. Append(<<h2h>>, totals) = <<h2h>> \o <<totals>>
      BY <3>1, AppendIsConcat
    <3>3. Append(<<h2h>>, totals) = <<h2h, totals>>
      BY PairIs
    <3> QED
      BY <3>1, <3>2, <3>3, ConcatEmptySeq
  <2>2. CASE market \in {"outcome", "all"} /\ market \in {"totals", "all"}
    BY <2>1, <2>2
  <2>3. CASE market \in {"outcome", "all"} /\ market \notin {"totals", "all"}
    BY <2>1, <2>3
  <2>4. CASE market \notin {"outcome", "all"} /\ market \in {"totals", "all"}
    BY <2>1, <2>4
  <2>5. CASE market \notin {"outcome", "all"} /\ market \notin {"totals", "all"}
    BY <2>1, <2>5
  <2> QED
    BY <2>2, <2>3, <2>4, <2>5
<1> HIDE DEF both
<1>6. ToSet(both) \subseteq {h2h, totals}
  BY <1>5 DEF ToSet
<1>7. SortedBy(both, TimeOrder(S))
  <2>1. CASE both = <<h2h, totals>>
    <3>1. DOMAIN both = {1, 2} /\ both[1] = h2h /\ both[2] = totals
      BY <2>1
    <3>2. h2h \in S /\ totals \in S
      BY <1>1, <3>1 DEF ToSet
    <3>3. <<h2h, totals>> \in TimeOrder(S)
      BY <1>3, <1>4, <3>2 DEF TimeOrder
    <3> QED
      BY <3>1, <3>3 DEF SortedBy
  <2>2. CASE both \in {<<>>, <<h2h>>, <<totals>>}
    <3>1. \A i, j \in DOMAIN both : i = j
      BY <2>2
    <3>2. \A i, j \in DOMAIN both : ~(i < j)
      BY <2>2
    <3> QED
      BY <3>2 DEF SortedBy
  <2> QED
    BY <1>5, <2>1, <2>2
<1> QED
  BY <1>1, <1>2, <1>6, <1>7

(* What is sorted in time is in time. *)
LEMMA SortedIsInTime ==
  ASSUME NEW S, NEW s, SortedBy(s, TimeOrder(S))
  PROVE  InTime(s)
<1> SUFFICES ASSUME NEW i \in DOMAIN s, NEW j \in DOMAIN s, i < j
             PROVE  s[i].closeAt <= s[j].closeAt /\ Told(s[i]) # Told(s[j])
  BY DEF InTime
<1>1. <<s[i], s[j]>> \in TimeOrder(S)
  BY DEF SortedBy
<1> QED
  BY <1>1 DEF TimeOrder

(* A season is told day by day, and nothing of it twice. *)
LEMMA SeasonInTime ==
  ASSUME NEW season, NEW market
  PROVE  /\ InTime(OutcomesOfSeason(season, market))
         /\ \A o \in ToSet(OutcomesOfSeason(season, market)) : \E t \in HomeGames : GradedAs(o, t)
<1> DEFINE s == OutcomeGames(season)
           n == Len(s)
           S == SeasonOutcomes(market)
           before == TimeOrder(S)
<1>1. s \in Seq(HomeGames) /\ SortedBy(s, GameOrder)
  BY SeasonGamesAre
<1>2. n \in Nat /\ DOMAIN s = 1..n /\ \A i \in 1..n : s[i] \in HomeGames
  <2> HIDE DEF s
  <2> QED
    BY <1>1
<1>3. PICK run \in [0..n -> Seq(S)] : Replays(run, s, market) /\ run[n] = OutcomesOfSeason(season, market)
  BY SeasonRuns
<1> HIDE DEF S, s, n
<1>4. run[0] = <<>> /\ \A i \in 1..n : run[i] = run[i - 1] \o OutcomesOfGame(s[i], market)
  BY <1>3 DEF Replays, n
<1> HIDE DEF before
<1> DEFINE Good == {i \in 0..n : /\ SortedBy(run[i], before)
                                /\ \A o \in ToSet(run[i]) : \E j \in 1..i : GradedAs(o, s[j])}
<1>5. 0 \in Good
  <2>1. ToSet(<<>>) = {} /\ SortedBy(<<>>, before)
    BY DEF ToSet, SortedBy
  <2> QED
    BY <1>2, <1>4, <2>1
<1>6. ASSUME NEW i \in 1..n, i - 1 \in Good
      PROVE  i \in Good
  <2> DEFINE v == run[i - 1]
             w == OutcomesOfGame(s[i], market)
  <2>1. i - 1 \in 0..n /\ i \in 0..n /\ \A j \in 1..(i - 1) : j \in 1..i /\ j \in 1..n /\ j < i
    BY <1>2
  <2>2. v \in Seq(S) /\ SortedBy(v, before) /\ \A o \in ToSet(v) : \E j \in 1..(i - 1) : GradedAs(o, s[j])
    BY <1>3, <1>6, <2>1
  <2>3. s[i] \in HomeGames
    BY <1>2
  <2>4. w \in Seq(S) /\ ToSet(w) \subseteq S
    <3>1. w \in Seq(ToSet(w))
      BY GameOutcomesAre
    <3>2. ToSet(w) \subseteq S
      BY <2>3 DEF S, SeasonOutcomes, HomeGames
    <3> HIDE DEF w
    <3> QED
      BY <3>1, <3>2
  <2>5. SortedBy(w, before) /\ \A o \in ToSet(w) : GradedAs(o, s[i])
    BY <2>3, <2>4, OneGameInTime DEF before
  <2>6. run[i] = v \o w
    BY <1>4
  <2> HIDE DEF v, w
  <2>7. ASSUME NEW x \in ToSet(v), NEW y \in ToSet(w) PROVE <<x, y>> \in before
    <3>1. PICK j \in 1..(i - 1) : GradedAs(x, s[j])
      BY <2>2
    <3>2. GradedAs(y, s[i])
      BY <2>5
    <3>3. <<s[j], s[i]>> \in GameOrder
      BY <1>1, <1>2, <2>1 DEF SortedBy
    <3>4. s[j].day <= s[i].day /\ s[j].game # s[i].game /\ s[i].day \in Nat /\ s[j].day \in Nat
      <4>1. TeamGames \in Seq(AllTeamGames)
        BY ReplayAssumption
      <4>2. s[i] \in AllTeamGames /\ s[j] \in AllTeamGames
        BY <1>2, <2>1, <4>1, ElementsAreFinite DEF HomeGames
      <4> QED
        BY <3>3, <4>2 DEF GameOrder, AllTeamGames
    <3>5. x.closeAt = 24 * s[j].day /\ y.closeAt = 24 * s[i].day /\ x.game = s[j].game /\ y.game = s[i].game
      BY <3>1, <3>2 DEF GradedAs
    <3>6. x.closeAt <= y.closeAt
      BY <3>4, <3>5
    <3>7. Told(x) # Told(y)
      BY <3>4, <3>5 DEF Told
    <3>8. x \in S /\ y \in S
      BY <2>2, <2>4, ElementsAreFinite
    <3> QED
      BY <3>6, <3>7, <3>8 DEF before, TimeOrder
  <2>8. SortedBy(run[i], before) /\ ToSet(run[i]) = ToSet(v) \cup ToSet(w)
    BY <2>2, <2>4, <2>5, <2>6, <2>7, JoinedInOrder
  <2>9. \A o \in ToSet(run[i]) : \E j \in 1..i : GradedAs(o, s[j])
    BY <2>1, <2>2, <2>5, <2>8
  <2> QED
    BY <2>1, <2>8, <2>9
<1> HIDE DEF Good
<1>7. \A i \in 0..n : i \in Good
  BY <1>2, <1>5, <1>6, CountUp
<1>8. n \in Good
  BY <1>2, <1>7
<1>9. SortedBy(run[n], before) /\ \A o \in ToSet(run[n]) : \E j \in 1..n : GradedAs(o, s[j])
  BY <1>8 DEF Good
<1>10. InTime(run[n])
  BY <1>9, SortedIsInTime DEF before
<1> QED
  BY <1>2, <1>3, <1>9, <1>10

-----------------------------------------------------------------------------
(* What features are made from. *)

(* The end of a list has its last element, and no other than the list has. *)
LEMMA LastOfHas ==
  ASSUME NEW A, NEW s \in Seq(A)
  PROVE  /\ ToSet(LastOf(s)) \subseteq ToSet(s)
         /\ s # <<>> => s[Len(s)] \in ToSet(LastOf(s))
<1> DEFINE n == Len(s)
           k == Clamp(n - RollingWindow, 0, n)
           t == SubSeq(s, k + 1, n)
<1>1. n \in Nat /\ DOMAIN s = 1..n /\ RollingWindow \in Nat /\ RollingWindow >= 2
  BY ReplayAssumption
<1>2. k \in 0..n /\ (n > 0 => k < n)
  BY <1>1 DEF Clamp
<1>3. LastOf(s) = t
  BY DEF LastOf
<1> HIDE DEF k
<1>4. DOMAIN t = 1..(n - k) /\ \A i \in 1..(n - k) : t[i] = s[k + i]
  BY <1>1, <1>2
<1> HIDE DEF t
<1>5. ToSet(t) \subseteq ToSet(s)
  <2> SUFFICES ASSUME NEW i \in 1..(n - k) PROVE t[i] \in ToSet(s)
    BY <1>4 DEF ToSet
  <2>1. k + i \in DOMAIN s
    BY <1>1, <1>2
  <2> QED
    BY <1>4, <2>1 DEF ToSet
<1>6. ASSUME s # <<>> PROVE s[n] \in ToSet(t)
  <2>1. n > 0
    BY <1>6
  <2> HIDE DEF n
  <2>2. n - k \in 1..(n - k) /\ k + (n - k) = n
    BY <1>1, <1>2, <2>1
  <2>3. t[n - k] = s[n]
    BY <1>4, <2>2
  <2>4. n - k \in DOMAIN t
    BY <1>4, <2>2
  <2> QED
    BY <2>3, <2>4 DEF ToSet
<1> QED
  BY <1>3, <1>5, <1>6

(* Games of a team before a day. *)
TeamBefore(team, date, season) == {i \in PlayedBy(team, season) : TeamGames[i].day < date}

(* What is rolled up is from earlier days ... *)
LEMMA RollingIsEarlier ==
  ASSUME NEW team, NEW date, NEW season
  PROVE  \A t \in ToSet(RollingStats(team, date, season)) :
           \E i \in TeamBefore(team, date, season) : t = TeamGames[i]
<1> DEFINE places == TeamBefore(team, date, season)
           s == Where(TeamGames, places)
<1>1. TeamGames \in Seq(AllTeamGames)
  BY ReplayAssumption
<1>2. RollingStats(team, date, season) = LastOf(s)
  BY DEF RollingStats, TeamBefore
<1> HIDE DEF places
<1>3. s \in Seq(AllTeamGames) /\ ToSet(s) = {TeamGames[i] : i \in places \cap (1..Len(TeamGames))}
  BY <1>1, WhereElements
<1> HIDE DEF s
<1>4. ToSet(LastOf(s)) \subseteq ToSet(s)
  BY <1>3, LastOfHas
<1> QED
  BY <1>2, <1>3, <1>4 DEF places

DayOrder == {x \in AllTeamGames \X AllTeamGames : x[1].day < x[2].day}

(* ... and the day before, if it is a team's, is among them. *)
LEMMA RollingHasNewest ==
  ASSUME NEW team, NEW date \in Int, NEW season,
         NEW i \in TeamBefore(team, date, season), date <= TeamGames[i].day + 1
  PROVE  TeamGames[i] \in ToSet(RollingStats(team, date, season))
<1> DEFINE places == TeamBefore(team, date, season)
           s == Where(TeamGames, places)
           n == Len(s)
<1>1. TeamGames \in Seq(AllTeamGames)
  BY ReplayAssumption
<1>2. RollingStats(team, date, season) = LastOf(s)
  BY DEF RollingStats, TeamBefore
<1>p. \A j \in places : j \in DOMAIN TeamGames /\ TeamGames[j].team = team /\ TeamGames[j].day < date
  BY DEF TeamBefore, PlayedBy
<1> HIDE DEF places
<1>3. s \in Seq(AllTeamGames) /\ ToSet(s) = {TeamGames[j] : j \in places \cap (1..Len(TeamGames))}
  BY <1>1, WhereElements
<1>4. InOrderAt(TeamGames, places, DayOrder)
  <2>1. SUFFICES ASSUME NEW j \in places, NEW k \in places, j < k
                 PROVE  <<TeamGames[j], TeamGames[k]>> \in DayOrder
    BY DEF InOrderAt
  <2>2. j \in DOMAIN TeamGames /\ k \in DOMAIN TeamGames /\ TeamGames[j].team = TeamGames[k].team
    BY <1>p
  <2>3. j \in Int /\ k \in Int /\ TeamGames[j] \in AllTeamGames /\ TeamGames[k] \in AllTeamGames
    BY <2>2, ScheduleIs
  <2>4. j # k
    BY <2>1, <2>3
  <2>5. TeamGames[j].day <= TeamGames[k].day /\ TeamGames[j].day # TeamGames[k].day
    BY <2>1, <2>2, <2>4, ScheduleIs
  <2>6. TeamGames[j].day \in Nat /\ TeamGames[k].day \in Nat
    BY <2>3 DEF AllTeamGames
  <2>7. TeamGames[j].day < TeamGames[k].day
    BY <2>5, <2>6
  <2> QED
    BY <2>3, <2>7 DEF DayOrder
<1>5. SortedBy(s, DayOrder)
  BY <1>1, <1>4, WhereInOrder
<1>6. TeamGames[i] \in ToSet(s)
  <2>1. i \in places /\ i \in 1..Len(TeamGames)
    BY <1>1, <1>p DEF places
  <2> QED
    BY <1>3, <2>1
<1>d. \A t \in ToSet(s) : t.day < date /\ t.day \in Nat
  <2> SUFFICES ASSUME NEW j \in places PROVE TeamGames[j].day < date /\ TeamGames[j].day \in Nat
    BY <1>3
  <2>1. TeamGames[j] \in AllTeamGames
    BY <1>p, ScheduleIs
  <2> QED
    BY <1>p, <2>1 DEF AllTeamGames
<1> HIDE DEF s
<1>7. n \in Nat /\ DOMAIN s = 1..n
  BY <1>3
<1>8. PICK k \in 1..n : TeamGames[i] = s[k]
  BY <1>6, <1>7 DEF ToSet
<1>9. k = n
  <2>0. k \in Int /\ k <= n /\ n \in Int
    BY <1>7, <1>8
  <2>1. SUFFICES ASSUME k < n PROVE FALSE
    BY <2>0
  <2>2. n \in 1..n
    BY <1>7, <1>8, <2>1
  <2>3. <<s[k], s[n]>> \in DayOrder
    BY <1>5, <1>7, <2>1, <2>2 DEF SortedBy
  <2>4. s[k].day < s[n].day
    BY <2>3 DEF DayOrder
  <2>5. s[n] \in ToSet(s) /\ s[k] \in ToSet(s)
    BY <1>7, <2>2 DEF ToSet
  <2>6. s[n].day < date /\ s[n].day \in Nat /\ s[k].day \in Nat
    BY <1>d, <2>5
  <2>7. date <= s[k].day + 1
    BY <1>8
  <2> QED
    BY <2>4, <2>6, <2>7
<1>10. s # <<>>
  BY <1>7, <1>8
<1>11. s[n] \in ToSet(LastOf(s))
  BY <1>3, <1>10, LastOfHas
<1> QED
  BY <1>2, <1>8, <1>9, <1>11

(* A night is that of any entry of the game. *)
LEMMA NightIs ==
  ASSUME NEW i \in DOMAIN TeamGames
  PROVE  /\ NightOf(TeamGames[i].game) = TeamGames[i].day
         /\ EntryOf(TeamGames[i].game).playoff = TeamGames[i].playoff
<1> DEFINE game == TeamGames[i].game
           j == CHOOSE j \in DOMAIN TeamGames : TeamGames[j].game = game
<1>1. j \in DOMAIN TeamGames /\ TeamGames[j].game = game
  OBVIOUS
<1>2. EntryOf(game) = TeamGames[j]
  BY DEF EntryOf
<1> HIDE DEF j
<1>3. TeamGames[j].day = TeamGames[i].day /\ TeamGames[j].playoff = TeamGames[i].playoff
  BY <1>1, ScheduleIs
<1> QED
  BY <1>2, <1>3 DEF NightOf

(* The games that features are made from. *)
LEMMA UsedAre ==
  ASSUME NEW home, NEW away, NEW date \in Int, NEW season,
         BuildNHLFeatures(home, away, date, season).real
  PROVE  LET used == BuildNHLFeatures(home, away, date, season).used
         IN  /\ \A g \in used : \E i \in DOMAIN TeamGames :
                  TeamGames[i].game = g /\ TeamGames[i].day < date /\ ~TeamGames[i].playoff
             /\ \A i \in TeamBefore(home, date, season) :
                  date <= TeamGames[i].day + 1 => TeamGames[i].game \in used
<1> DEFINE h == RollingStats(home, date, season)
           a == RollingStats(away, date, season)
           used == {t.game : t \in ToSet(h) \cup ToSet(a)}
           f == BuildNHLFeatures(home, away, date, season)
<1>1. f = DefaultFeatures \/ f.used = used
  BY DEF BuildNHLFeatures
<1>2. f # DefaultFeatures
  BY DEF DefaultFeatures
<1> HIDE DEF f, h, a
<1>3. \A t \in ToSet(h) : \E i \in TeamBefore(home, date, season) : t = TeamGames[i]
  BY RollingIsEarlier DEF h
<1>4. \A t \in ToSet(a) : \E i \in TeamBefore(away, date, season) : t = TeamGames[i]
  BY RollingIsEarlier DEF a
<1>5. \A team : \A i \in TeamBefore(team, date, season) :
        i \in DOMAIN TeamGames /\ TeamGames[i].day < date /\ ~TeamGames[i].playoff
  BY DEF TeamBefore, PlayedBy
<1>6. \A g \in used : \E i \in DOMAIN TeamGames :
        TeamGames[i].game = g /\ TeamGames[i].day < date /\ ~TeamGames[i].playoff
  <2> SUFFICES ASSUME NEW t \in ToSet(h) \cup ToSet(a)
               PROVE  \E i \in DOMAIN TeamGames :
                        TeamGames[i].game = t.game /\ TeamGames[i].day < date /\ ~TeamGames[i].playoff
    OBVIOUS
  <2>1. PICK team \in {home, away} : \E i \in TeamBefore(team, date, season) : t = TeamGames[i]
    BY <1>3, <1>4
  <2> QED
    BY <1>5, <2>1
<1>7. ASSUME NEW i \in TeamBefore(home, date, season), date <= TeamGames[i].day + 1
      PROVE  TeamGames[i].game \in used
  <2>1. TeamGames[i] \in ToSet(h)
    BY <1>7, RollingHasNewest DEF h
  <2> QED
    BY <2>1
<1> HIDE DEF used
<1> QED
  BY <1>1, <1>2, <1>6, <1>7 DEF f

-----------------------------------------------------------------------------
(* Hindsight. *)

(* A game is scored by the entries of its two sides. *)
LEMMA LookupIs ==
  ASSUME NEW i \in DOMAIN TeamGames, TeamGames[i].home
  PROVE  LookupGameOutcome(TeamGames[i].game) = <<TeamGames[i].goals, AwayEntry(TeamGames[i].game).goals>>
<1> DEFINE game == TeamGames[i].game
           sides == {k \in DOMAIN TeamGames : TeamGames[k].game = game}
           goalsOf(home) == TeamGames[CHOOSE k \in sides : TeamGames[k].home = home].goals
<1>1. LookupGameOutcome(game) = IF Cardinality(sides) < 2 THEN <<>> ELSE <<goalsOf(TRUE), goalsOf(FALSE)>>
  BY DEF LookupGameOutcome
<1>2. PICK j \in DOMAIN TeamGames : i # j /\ TeamGames[j].game = game
  BY ScheduleAssumption
<1>3. \A k \in DOMAIN TeamGames : TeamGames[k].home \in BOOLEAN
  <2> SUFFICES ASSUME NEW k \in DOMAIN TeamGames PROVE TeamGames[k].home \in BOOLEAN
    OBVIOUS
  <2>1. TeamGames[k] \in AllTeamGames
    BY ScheduleIs
  <2> QED
    BY <2>1 DEF AllTeamGames
<1>4. \A k, l \in DOMAIN TeamGames :
        TeamGames[k].game = TeamGames[l].game /\ TeamGames[k].home = TeamGames[l].home => k = l
  BY ScheduleIs
<1>5. TeamGames[i].home = TRUE /\ TeamGames[j].home = FALSE
  BY <1>2, <1>3, <1>4
<1>6. i \in sides /\ j \in sides
  BY <1>2
<1>7. ~(Cardinality(sides) < 2)
  <2>1. Len(TeamGames) \in Nat /\ DOMAIN TeamGames = 1..Len(TeamGames)
    BY ReplayAssumption
  <2>2. IsFiniteSet(DOMAIN TeamGames)
    BY <2>1, FS_Interval
  <2>3. sides \subseteq DOMAIN TeamGames
    OBVIOUS
  <2>4. IsFiniteSet(sides)
    BY <2>2, <2>3, FS_Subset
  <2>5. IsFiniteSet({i}) /\ Cardinality({i}) = 1
    BY FS_Singleton
  <2>6. Cardinality({i} \cup {j}) = 2
    BY <1>2, <2>5, FS_AddElement
  <2>7. ({i} \cup {j}) \subseteq sides
    BY <1>6
  <2> HIDE DEF sides
  <2>8. Cardinality({i} \cup {j}) <= Cardinality(sides)
    BY <2>4, <2>7, FS_Subset
  <2>9. Cardinality(sides) \in Nat
    BY <2>4, FS_CardinalityType
  <2> QED
    BY <2>6, <2>8, <2>9
<1>8. \A k \in sides : k \in DOMAIN TeamGames /\ TeamGames[k].game = game
  OBVIOUS
<1>9. goalsOf(TRUE) = TeamGames[i].goals
  <2>1. (CHOOSE k \in sides : TeamGames[k].home = TRUE) = i
    BY <1>4, <1>5, <1>6, <1>8
  <2> QED
    BY <2>1
<1>10. goalsOf(FALSE) = TeamGames[j].goals
  <2>1. (CHOOSE k \in sides : TeamGames[k].home = FALSE) = j
    BY <1>2, <1>4, <1>5, <1>6, <1>8
  <2> QED
    BY <2>1
<1>11. AwayEntry(game) = TeamGames[j]
  <2>1. \A k \in DOMAIN TeamGames : TeamGames[k].game = game /\ ~TeamGames[k].home => k = j
    BY <1>2, <1>3, <1>4, <1>5
  <2>2. (CHOOSE k \in DOMAIN TeamGames : TeamGames[k].game = game /\ ~TeamGames[k].home) = j
    BY <1>2, <1>5, <2>1
  <2> QED
    BY <2>2 DEF AwayEntry
<1> HIDE DEF goalsOf, sides
<1> QED
  BY <1>1, <1>7, <1>9, <1>10, <1>11

(* The home entry of a replayed game. *)
IsHomeEntry(i, game) ==
  LET date == DateAt(ReplayGames[game].at)
  IN  /\ TeamGames[i].game = game /\ TeamGames[i].home /\ TeamGames[i].team = ReplayGames[game].home
      /\ TeamGames[i].season = NhlSeasonFromDate(date) /\ date \in {TeamGames[i].day, TeamGames[i].day + 1}
      /\ TeamGames[i].day \in Nat

(* A game that is replayed has its home side's entry. *)
LEMMA HomeEntryIs ==
  ASSUME NEW game \in DOMAIN ReplayGames, ReplayGames[game].sport = "NHL"
  PROVE  \E i \in DOMAIN TeamGames : IsHomeEntry(i, game)
<1> DEFINE date == DateAt(ReplayGames[game].at)
<1>1. PICK t \in ToSet(TeamGames) : /\ t.game = game /\ t.home /\ t.team = ReplayGames[game].home
                                   /\ t.season = NhlSeasonFromDate(date) /\ date \in {t.day, t.day + 1}
  BY ScheduleAssumption
<1>2. PICK i \in DOMAIN TeamGames : t = TeamGames[i]
  BY DEF ToSet
<1>3. TeamGames[i] \in AllTeamGames
  BY ScheduleIs
<1>4. TeamGames[i].day \in Nat
  BY <1>3 DEF AllTeamGames
<1> QED
  BY <1>1, <1>2, <1>4 DEF IsHomeEntry

(* No feature is made from a later game, and of the game itself only       *)
(* overnight.                                                              *)
Leaks(o, overnight) ==
  o.real => /\ \A g \in o.used : NightOf(g) <= NightOf(o.game)
            /\ o.game \in o.used <=> overnight /\ ~EntryOf(o.game).playoff

(* A replay of stored odds sees its own night and nothing later. *)
LEMMA OddsLeak ==
  ASSUME replay.mode = "odds", NEW row \in AllReplayRows
  PROVE  Leaks(OutcomeOf(row), StartsOvernight(OutcomeOf(row)))
<1> DEFINE o == OutcomeOf(row)
           game == row.game
           date == DateAt(ReplayGames[game].at)
           season == NhlSeasonFromDate(date)
           f == BuildNHLFeatures(ReplayGames[game].home, ReplayGames[game].away, date, season)
           team == ReplayGames[game].home
<1>1. o.game = game /\ o.real = FeaturesOf(row).real /\ o.used = FeaturesOf(row).used
  BY DEF OutcomeOf
<1>3. game \in DOMAIN ReplayGames
  BY DEF AllReplayRows
<1>2. FeaturesOf(row) = IF IsNHL(row) THEN f ELSE DefaultFeatures
  BY <1>3 DEF FeaturesOf, FeaturesOfGame, IsNHL
<1>4. IsNHL(row) <=> ReplayGames[game].sport = "NHL"
  BY DEF IsNHL
<1>5. StartsOvernight(o) <=> ReplayGames[game].sport = "NHL" /\ date > NightOf(game)
  BY <1>1 DEF StartsOvernight, IsNHL
<1> HIDE DEF o, game
<1>6. SUFFICES ASSUME o.real
               PROVE  /\ \A g \in o.used : NightOf(g) <= NightOf(game)
                      /\ game \in o.used <=> StartsOvernight(o) /\ ~EntryOf(game).playoff
  BY <1>1 DEF Leaks, o
<1>7. ReplayGames[game].sport = "NHL" /\ f.real /\ o.used = f.used
  <2>1. DefaultFeatures.real = FALSE
    BY DEF DefaultFeatures
  <2> HIDE DEF f
  <2>2. IsNHL(row)
    BY <1>1, <1>2, <1>6, <2>1
  <2> QED
    BY <1>1, <1>2, <1>4, <1>6, <2>2
<1>8. date \in Int
  <2>1. ReplayGames[game].at \in Int
    BY <1>3, ReplayAssumption
  <2> QED
    BY <2>1 DEF DateAt
<1> HIDE DEF date, season, f
<1>9. /\ \A g \in o.used : \E i \in DOMAIN TeamGames :
           TeamGames[i].game = g /\ TeamGames[i].day < date /\ ~TeamGames[i].playoff
      /\ \A i \in TeamBefore(team, date, season) : date <= TeamGames[i].day + 1 => TeamGames[i].game \in o.used
  BY <1>7, <1>8, UsedAre DEF f
<1>10. PICK e \in DOMAIN TeamGames : IsHomeEntry(e, game)
  BY <1>3, <1>7, HomeEntryIs
<1>11. /\ TeamGames[e].game = game /\ TeamGames[e].team = team /\ TeamGames[e].season = season
       /\ date \in {TeamGames[e].day, TeamGames[e].day + 1} /\ TeamGames[e].day \in Nat
  BY <1>10 DEF IsHomeEntry, date, season
<1>12. NightOf(game) = TeamGames[e].day /\ EntryOf(game).playoff = TeamGames[e].playoff
  BY <1>11, NightIs
<1>13. \A i \in DOMAIN TeamGames : NightOf(TeamGames[i].game) = TeamGames[i].day /\ TeamGames[i].day \in Nat
  <2> SUFFICES ASSUME NEW i \in DOMAIN TeamGames PROVE NightOf(TeamGames[i].game) = TeamGames[i].day /\ TeamGames[i].day \in Nat
    OBVIOUS
  <2>1. TeamGames[i] \in AllTeamGames
    BY ScheduleIs
  <2> QED
    BY <2>1, NightIs DEF AllTeamGames
<1>14. ASSUME NEW g \in o.used PROVE NightOf(g) <= NightOf(game)
  <2>1. PICK i \in DOMAIN TeamGames : TeamGames[i].game = g /\ TeamGames[i].day < date
    BY <1>9
  <2>2. NightOf(g) = TeamGames[i].day /\ TeamGames[i].day \in Nat
    BY <1>13, <2>1
  <2> QED
    BY <1>8, <1>11, <1>12, <2>1, <2>2
<1>15. ASSUME game \in o.used PROVE date > NightOf(game) /\ ~EntryOf(game).playoff
  <2>1. PICK i \in DOMAIN TeamGames : TeamGames[i].game = game /\ TeamGames[i].day < date /\ ~TeamGames[i].playoff
    BY <1>9, <1>15
  <2>2. TeamGames[i].day = TeamGames[e].day /\ TeamGames[i].playoff = TeamGames[e].playoff
    BY <1>11, <2>1, ScheduleIs
  <2> QED
    BY <1>8, <1>11, <1>12, <2>1, <2>2
<1>16. ASSUME date > NightOf(game), ~EntryOf(game).playoff PROVE game \in o.used
  <2>1. TeamGames[e].day < date /\ date <= TeamGames[e].day + 1
    BY <1>8, <1>11, <1>12, <1>16
  <2>2. e \in TeamBefore(team, date, season)
    BY <1>11, <1>12, <1>16, <2>1 DEF TeamBefore, PlayedBy
  <2> QED
    BY <1>9, <1>11, <2>1, <2>2
<1> QED
  BY <1>5, <1>7, <1>14, <1>15, <1>16

(* A season's game sees nothing of its own day. *)
LEMMA SeasonLeak ==
  ASSUME NEW t \in HomeGames, NEW o, GradedAs(o, t)
  PROVE  Leaks(o, FALSE)
<1> DEFINE away == AwayEntry(t.game).team
           f == BuildNHLFeatures(t.team, away, t.day, t.season)
<1>1. o.game = t.game /\ o.real = f.real /\ o.used = f.used
  BY DEF GradedAs
<1>2. PICK e \in DOMAIN TeamGames : t = TeamGames[e]
  BY DEF HomeGames, ToSet
<1>3. t \in AllTeamGames
  BY <1>2, ScheduleIs
<1>4. t.day \in Nat
  BY <1>3 DEF AllTeamGames
<1>5. NightOf(o.game) = t.day
  BY <1>1, <1>2, NightIs
<1>6. SUFFICES ASSUME o.real
               PROVE  (\A g \in o.used : NightOf(g) <= NightOf(o.game)) /\ o.game \notin o.used
  BY DEF Leaks
<1> HIDE DEF away
<1>7. \A g \in f.used : \E i \in DOMAIN TeamGames : TeamGames[i].game = g /\ TeamGames[i].day < t.day
  <2>1. t.day \in Int /\ f.real
    BY <1>1, <1>4, <1>6
  <2> QED
    BY <2>1, UsedAre
<1> HIDE DEF f
<1>8. ASSUME NEW g \in o.used PROVE NightOf(g) < t.day /\ NightOf(g) \in Nat
  <2>1. PICK i \in DOMAIN TeamGames : TeamGames[i].game = g /\ TeamGames[i].day < t.day
    BY <1>1, <1>7
  <2>2. TeamGames[i] \in AllTeamGames
    BY ScheduleIs
  <2>3. NightOf(g) = TeamGames[i].day /\ TeamGames[i].day \in Nat
    BY <2>1, <2>2, NightIs DEF AllTeamGames
  <2> QED
    BY <2>1, <2>3
<1> QED
  BY <1>4, <1>5, <1>8

(* Where game_results has a game its score is MoneyPuck's. *)
LEMMA LookupAgrees ==
  ASSUME StoredOK, NEW i \in DOMAIN TeamGames, TeamGames[i].home
  PROVE  LET game == TeamGames[i].game
         IN  LookupGameOutcome(game) = IF game \in finals THEN FinalScores[game] ELSE LookupGameOutcome(game)
<1> DEFINE game == TeamGames[i].game
<1>1. LookupGameOutcome(game) # <<>>
  <2>1. LookupGameOutcome(game) = <<TeamGames[i].goals, AwayEntry(game).goals>>
    BY LookupIs
  <2> QED
    BY <2>1
<1>2. game \in finals => game \in DOMAIN FinalScores
  BY DEF StoredOK
<1> QED
  BY <1>1, <1>2, ScheduleAssumption

(* A row was listed with the score that game_results has, if it had one.   *)
GradeKnown(row, known) == row.final # <<>> => row.game \in known /\ row.final = FinalScores[row.game]

(* An outcome is graded by its own score or, overnight, by that of a home  *)
(* game of the day after.                                                  *)
OwnScore(o) == o.actual = IF o.game \in finals THEN FinalScores[o.game] ELSE LookupGameOutcome(o.game)
NextDaysScore(o) ==
  \E t \in ToSet(TeamGames) : /\ t.home /\ t.team = ReplayGames[o.game].home
                              /\ t.day = NightOf(o.game) + 1
                              /\ o.actual = LookupGameOutcome(t.game)

(* A replay of stored odds is graded by the game, or by the next day's. *)
LEMMA OddsGraded ==
  ASSUME StoredOK, replay.mode = "odds", NEW row \in AllReplayRows, GradeKnown(row, finals),
         OutcomeOf(row).actual # <<>>
  PROVE  OwnScore(OutcomeOf(row)) \/ (StartsOvernight(OutcomeOf(row)) /\ NextDaysScore(OutcomeOf(row)))
<1> DEFINE o == OutcomeOf(row)
           game == row.game
           date == DateAt(ReplayGames[game].at)
           team == ReplayGames[game].home
           id == FindMoneypuckGameID(team, date)
           found == {i \in DOMAIN TeamGames : TeamGames[i].team = team /\ TeamGames[i].day = date /\ TeamGames[i].home}
<1>1. o.game = game /\ o.actual = ActualOf(row)
  BY DEF OutcomeOf
<1>2. game \in DOMAIN ReplayGames
  BY DEF AllReplayRows
<1>3. IsNHL(row) <=> ReplayGames[game].sport = "NHL"
  BY DEF IsNHL
<1>4. StartsOvernight(o) <=> ReplayGames[game].sport = "NHL" /\ date > NightOf(game)
  BY <1>1 DEF StartsOvernight, IsNHL
<1>5. ActualOf(row) = IF row.final # <<>> THEN row.final ELSE IF ~IsNHL(row) THEN <<>> ELSE LookupGameOutcome(id)
  BY DEF ActualOf
<1>6. id = IF found = {} THEN 0 ELSE TeamGames[CHOOSE i \in found : TRUE].game
  BY DEF FindMoneypuckGameID
<1>7. \A i \in found : i \in DOMAIN TeamGames /\ TeamGames[i].team = team /\ TeamGames[i].day = date /\ TeamGames[i].home
  OBVIOUS
<1>8. CASE row.final # <<>>
  BY <1>1, <1>5, <1>8 DEF GradeKnown, OwnScore
<1>9. CASE row.final = <<>>
  <2>1. ReplayGames[game].sport = "NHL" /\ o.actual = LookupGameOutcome(id) /\ o.actual # <<>>
    BY <1>1, <1>3, <1>5, <1>9
  <2>2. PICK e \in DOMAIN TeamGames : IsHomeEntry(e, game)
    BY <1>2, <2>1, HomeEntryIs
  <2>3. /\ TeamGames[e].game = game /\ TeamGames[e].home /\ TeamGames[e].team = team
        /\ date \in {TeamGames[e].day, TeamGames[e].day + 1} /\ TeamGames[e].day \in Nat
    BY <2>2 DEF IsHomeEntry
  <2>4. NightOf(game) = TeamGames[e].day
    BY <2>3, NightIs
  <2> HIDE DEF o, date, id
  <2>5. CASE date = TeamGames[e].day
    <3>1. e \in found
      BY <2>3, <2>5
    <3>2. \A i \in found : i = e
      BY <1>7, <2>3, <2>5, ScheduleIs
    <3> HIDE DEF found
    <3>3. id = game
      BY <1>6, <2>3, <3>1, <3>2
    <3>4. LookupGameOutcome(game) = IF game \in finals THEN FinalScores[game] ELSE LookupGameOutcome(game)
      BY <2>3, LookupAgrees
    <3>5. o.actual = IF o.game \in finals THEN FinalScores[o.game] ELSE LookupGameOutcome(o.game)
      BY <1>1, <2>1, <3>3, <3>4, Zenon
    <3> QED
      BY <3>5 DEF OwnScore, o
  <2>6. CASE date = TeamGames[e].day + 1
    <3>1. date > NightOf(game) /\ date = NightOf(game) + 1
      BY <2>3, <2>4, <2>6
    <3>2. found # {}
      <4>1. SUFFICES ASSUME found = {} PROVE FALSE
        OBVIOUS
      <4>2. id = 0
        BY <1>6, <4>1
      <4>3. {i \in DOMAIN TeamGames : TeamGames[i].game = 0} = {}
        BY ScheduleAssumption
      <4>4. Cardinality({}) = 0
        BY FS_EmptySet
      <4>5. LookupGameOutcome(0) = <<>>
        BY <4>3, <4>4 DEF LookupGameOutcome
      <4> QED
        BY <2>1, <4>2, <4>5
    <3> DEFINE k == CHOOSE i \in found : TRUE
    <3>3. k \in found
      BY <3>2
    <3>4. id = TeamGames[k].game
      BY <1>6, <3>2
    <3> HIDE DEF k, found
    <3>5. /\ k \in DOMAIN TeamGames /\ TeamGames[k].home /\ TeamGames[k].team = ReplayGames[o.game].home
          /\ TeamGames[k].day = NightOf(o.game) + 1 /\ o.actual = LookupGameOutcome(TeamGames[k].game)
      BY <1>1, <1>7, <2>1, <3>1, <3>3, <3>4
    <3>6. TeamGames[k] \in ToSet(TeamGames)
      BY <3>5 DEF ToSet
    <3>7. NextDaysScore(o)
      BY <3>5, <3>6 DEF NextDaysScore
    <3>8. StartsOvernight(o)
      BY <1>4, <2>1, <3>1
    <3> QED
      BY <3>7, <3>8 DEF o
  <2> QED
    BY <2>3, <2>5, <2>6
<1> QED
  BY <1>8, <1>9

(* A season is graded by the game itself. *)
LEMMA SeasonGraded ==
  ASSUME StoredOK, NEW t \in HomeGames, NEW o, GradedAs(o, t)
  PROVE  OwnScore(o)
<1>1. PICK i \in DOMAIN TeamGames : t = TeamGames[i]
  BY DEF HomeGames, ToSet
<1>2. TeamGames[i].home
  BY <1>1 DEF HomeGames
<1>3. o.game = TeamGames[i].game /\ o.actual = <<TeamGames[i].goals, AwayEntry(TeamGames[i].game).goals>>
  BY <1>1 DEF GradedAs
<1>4. o.actual = LookupGameOutcome(TeamGames[i].game)
  BY <1>2, <1>3, LookupIs
<1>5. LET game == TeamGames[i].game
      IN  LookupGameOutcome(game) = IF game \in finals THEN FinalScores[game] ELSE LookupGameOutcome(game)
  BY <1>2, LookupAgrees
<1> QED
  BY <1>3, <1>4, <1>5, Zenon DEF OwnScore

(* Where the outcomes of a replay are from. *)
FromOdds(o, known) == \E row \in AllReplayRows : o = OutcomeOf(row) /\ GradeKnown(row, known)
FromSeason(o) == \E t \in HomeGames : GradedAs(o, t)

Foreseen(r, known) ==
  /\ \A i \in DOMAIN r.rows : GradeKnown(r.rows[i], known)
  /\ r.at = "rows" => \A i \in DOMAIN r.outcomes : i \in DOMAIN r.rows /\ r.outcomes[i] = OutcomeOf(r.rows[i])
  /\ \A o \in ToSet(r.outcomes) : IF r.mode = "odds" THEN FromOdds(o, known) ELSE FromSeason(o)
  /\ TrainsOnThePast(r.folds)

HindsightInv == ReplayInv /\ Foreseen(replay, finals)

(* Outcomes from where they are from are told without hindsight. *)
LEMMA ForeseenIsBounded ==
  ASSUME HindsightInv
  PROVE  HindsightIsBounded
<1>0. StoredOK /\ replay \in AllReplays(replay)
  BY DEF HindsightInv, ReplayInv, GoodReplay
<1>1. FoldsTrainOnThePast
  BY DEF HindsightInv, Foreseen, TrainsOnThePast, Told, FoldsTrainOnThePast
<1>2. ASSUME NEW o \in Seen
      PROVE  /\ Leaks(o, StartsOvernight(o))
             /\ o.actual # <<>> => OwnScore(o) \/ (StartsOvernight(o) /\ NextDaysScore(o))
  <2>1. IF replay.mode = "odds" THEN FromOdds(o, finals) ELSE FromSeason(o)
    BY <1>2 DEF HindsightInv, Foreseen, Seen
  <2>2. CASE replay.mode = "odds"
    <3>1. PICK row \in AllReplayRows : o = OutcomeOf(row) /\ GradeKnown(row, finals)
      BY <2>1, <2>2 DEF FromOdds
    <3> QED
      BY <1>0, <2>2, <3>1, OddsLeak, OddsGraded
  <2>3. CASE replay.mode # "odds"
    <3>1. PICK t \in HomeGames : GradedAs(o, t)
      BY <2>1, <2>3 DEF FromSeason
    <3>2. StartsOvernight(o) = FALSE
      BY <2>3 DEF StartsOvernight
    <3> QED
      BY <1>0, <3>1, <3>2, SeasonLeak, SeasonGraded
  <2> QED
    BY <2>2, <2>3
<1>3. LeakOnlyOvernight
  BY <1>2 DEF LeakOnlyOvernight, Leaks
<1>4. GradedByItself
  BY <1>2 DEF GradedByItself, OwnScore, NextDaysScore
<1> QED
  BY <1>1, <1>3, <1>4 DEF HindsightIsBounded

(* Results that come in take nothing back. *)
LEMMA ResultsComeIn ==
  ASSUME NEW r, NEW known, NEW more, Foreseen(r, known), known \subseteq more
  PROVE  Foreseen(r, more)
<1>1. \A row : GradeKnown(row, known) => GradeKnown(row, more)
  BY DEF GradeKnown
<1>2. \A o : FromOdds(o, known) => FromOdds(o, more)
  BY <1>1 DEF FromOdds
<1> QED
  BY <1>1, <1>2 DEF Foreseen

(* The outcomes of a replay under way are of rows apart. *)
LEMMA UnderWayApart ==
  ASSUME NEW r, NEW table, NEW quotes, GoodReplay(r, table, quotes), NEW known, Foreseen(r, known), r.at = "rows"
  PROVE  KeyedApart(ToSet(r.outcomes))
<1>1. r.rows \in Seq(AllReplayRows) /\ RowsApart(r.rows)
  BY DEF GoodReplay, RowsOK
<1>2. \A i \in DOMAIN r.outcomes : i \in DOMAIN r.rows /\ r.outcomes[i] = OutcomeOf(r.rows[i])
  BY DEF Foreseen
<1>3. \A o \in ToSet(r.outcomes) : \E i \in DOMAIN r.rows : o = OutcomeOf(r.rows[i])
  BY <1>2 DEF ToSet
<1>4. \A i \in DOMAIN r.rows :
        LET o == OutcomeOf(r.rows[i])
        IN  o.game = r.rows[i].game /\ o.book = r.rows[i].book /\ o.closeAt = r.rows[i].closeAt
  BY DEF OutcomeOf
<1>5. ASSUME NEW i \in DOMAIN r.rows
      PROVE  r.rows[i].game \in Int /\ r.rows[i].book \in Int /\ r.rows[i].closeAt \in Int
  <2>1. r.rows[i] \in AllReplayRows
    BY <1>1
  <2> QED
    BY <2>1, ReplayAssumption DEF AllReplayRows
<1>6. ASSUME NEW o \in ToSet(r.outcomes), NEW p \in ToSet(r.outcomes), o.game = p.game, o.book = p.book
      PROVE  o = p
  <2>1. PICK i \in DOMAIN r.rows : o = OutcomeOf(r.rows[i])
    BY <1>3
  <2>2. PICK j \in DOMAIN r.rows : p = OutcomeOf(r.rows[j])
    BY <1>3
  <2>3. i = j
    BY <1>1, <1>4, <1>6, <2>1, <2>2 DEF RowsApart
  <2> QED
    BY <2>1, <2>2, <2>3
<1>7. ASSUME NEW o \in ToSet(r.outcomes)
      PROVE  o.closeAt \in Int /\ o.game \in Int /\ o.book \in Int
  <2>1. PICK i \in DOMAIN r.rows : o = OutcomeOf(r.rows[i])
    BY <1>3
  <2> QED
    BY <1>4, <1>5, <2>1
<1> QED
  BY <1>6, <1>7 DEF KeyedApart

(* A replay that gives up keeps what it has told. *)
LEMMA ForeseenEnds ==
  ASSUME NEW r, NEW known, Foreseen(r, known), r \in AllReplays(r), NEW end, end # "rows"
  PROVE  Foreseen([r EXCEPT !.at = end], known)
<1> DEFINE next == [r EXCEPT !.at = end]
<1>1. next.at = end /\ next.rows = r.rows /\ next.outcomes = r.outcomes /\ next.mode = r.mode /\ next.folds = r.folds
  BY DEF AllReplays
<1> HIDE DEF next
<1> QED
  BY <1>1 DEF Foreseen, next

(* A replay that comes to its end sorts what it has told. *)
LEMMA ForeseenFinishes ==
  ASSUME NEW r, NEW table, NEW quotes, GoodReplay(r, table, quotes), NEW known, Foreseen(r, known), r.at = "rows"
  PROVE  Foreseen(Done(r, ByClosing(r.outcomes)), known)
<1> DEFINE done == ByClosing(r.outcomes)
           next == Done(r, done)
<1>1. r \in AllReplays(r) /\ r.outcomes \in Seq(AllReplayOutcomes)
  BY DEF GoodReplay, AllReplays
<1>2. KeyedApart(ToSet(r.outcomes))
  BY UnderWayApart
<1>3. done \in Seq(AllReplayOutcomes) /\ ToSet(done) = ToSet(r.outcomes) /\ InTime(done)
  BY <1>1, <1>2, ByClosingIs, ByClosingIsInTime
<1> HIDE DEF done
<1>4. TrainsOnThePast(FoldsOf(done))
  BY <1>3, FoldsAreInTime
<1>5. /\ next.at = "done" /\ next.rows = r.rows /\ next.outcomes = done /\ next.mode = r.mode
      /\ next.folds = FoldsOf(done)
  BY <1>1 DEF Done, AllReplays
<1> HIDE DEF next
<1> QED
  BY <1>3, <1>4, <1>5 DEF Foreseen, next, done

(* A row more. *)
LEMMA ForeseenGoesOn ==
  ASSUME NEW r, NEW table, NEW quotes, GoodReplay(r, table, quotes), NEW known, Foreseen(r, known),
         r.at = "rows", Len(r.outcomes) < Len(r.rows), NEW balance, NEW o, o = OutcomeOf(r.rows[Len(r.outcomes) + 1])
  PROVE  Foreseen([r EXCEPT !.outcomes = Append(@, o), !.balance = balance], known)
<1> DEFINE n == Len(r.outcomes)
           next == [r EXCEPT !.outcomes = Append(@, o), !.balance = balance]
           row == r.rows[n + 1]
<1>1. r \in AllReplays(r) /\ r.outcomes \in Seq(AllReplayOutcomes) /\ r.rows \in Seq(AllReplayRows)
  BY DEF GoodReplay, AllReplays
<1>2. n \in Nat /\ DOMAIN r.outcomes = 1..n /\ DOMAIN r.rows = 1..Len(r.rows) /\ n + 1 \in DOMAIN r.rows
  BY <1>1
<1>3. r.mode = "odds"
  BY DEF GoodReplay, InProgress
<1>4. row \in AllReplayRows /\ GradeKnown(row, known)
  BY <1>1, <1>2 DEF Foreseen
<1>5. /\ next.at = "rows" /\ next.rows = r.rows /\ next.outcomes = Append(r.outcomes, o) /\ next.mode = "odds"
      /\ next.folds = r.folds
  BY <1>1, <1>3 DEF AllReplays
<1> HIDE DEF next
<1>6. o \in AllReplayOutcomes
  BY <1>4 DEF AllReplayOutcomes
<1>7. ToSet(Append(r.outcomes, o)) = ToSet(r.outcomes) \cup {o}
  BY <1>1, <1>6, ElementsAppended
<1>8. ASSUME NEW x \in ToSet(next.outcomes) PROVE FromOdds(x, known)
  <2>1. CASE x \in ToSet(r.outcomes)
    BY <1>3, <2>1 DEF Foreseen
  <2>2. CASE x = o
    BY <1>4, <2>2 DEF FromOdds
  <2> QED
    BY <1>5, <1>7, <1>8, <2>1, <2>2
<1>9. ASSUME NEW i \in DOMAIN next.outcomes
      PROVE  i \in DOMAIN r.rows /\ next.outcomes[i] = OutcomeOf(r.rows[i])
  <2> DEFINE t == Append(r.outcomes, o)
  <2>1. DOMAIN t = 1..(n + 1) /\ t[n + 1] = o /\ \A j \in 1..n : t[j] = r.outcomes[j]
    BY <1>1, <1>2
  <2> HIDE DEF t
  <2>2. t = next.outcomes
    BY <1>5 DEF t
  <2>3. i \in 1..n \/ i = n + 1
    BY <1>2, <1>9, <2>1, <2>2
  <2>4. CASE i \in 1..n
    BY <1>2, <2>1, <2>2, <2>4 DEF Foreseen
  <2>5. CASE i = n + 1
    BY <1>2, <2>1, <2>2, <2>5
  <2> QED
    BY <2>3, <2>4, <2>5
<1>10. (\A i \in DOMAIN r.rows : GradeKnown(r.rows[i], known)) /\ TrainsOnThePast(r.folds)
  BY DEF Foreseen
<1>11. Foreseen(next, known)
  BY <1>5, <1>8, <1>9, <1>10 DEF Foreseen
<1> QED
  BY <1>11 DEF next

(* A replay begins with rows as they are stored, or with a season.         *)
LEMMA ForeseenBegins ==
  ASSUME StoredOK, NEW ask \in ReplayAsks, NEW table, NEW next,
         LET work == [NoReplay EXCEPT !.mode = ask.mode, !.version = ask.version, !.before = table]
             rows == ListBacktestReplayRows(ask)
         IN  next = IF (IF ask.mode = "outcome" THEN OutcomeGames(ask.season) ELSE rows) = <<>>
                      THEN [work EXCEPT !.at = "empty"]
                    ELSE IF ask.mode = "outcome" THEN Done(work, OutcomesOfSeason(ask.season, ask.market))
                    ELSE [work EXCEPT !.at = "rows", !.rows = rows]
  PROVE  Foreseen(next, finals)
<1> DEFINE work == [NoReplay EXCEPT !.mode = ask.mode, !.version = ask.version, !.before = table]
           rows == ListBacktestReplayRows(ask)
           graded == OutcomesOfSeason(ask.season, ask.market)
<1>1. ask.mode \in {"odds", "outcome"}
  BY ReplayAssumption DEF AllAsks
<1>2. /\ work.mode = ask.mode /\ work.rows = <<>> /\ work.outcomes = <<>> /\ work.folds = {}
      /\ work \in [at : {"none"}, mode : {ask.mode}, version : {ask.version}, rows : {<<>>}, balance : {StartingBankroll},
                    before : {table}, outcomes : {<<>>}, folds : {{}}, pass : {FALSE}]
  BY DEF NoReplay
<1>3. \/ next = [work EXCEPT !.at = "empty"]
      \/ ask.mode = "outcome" /\ next = Done(work, graded)
      \/ ask.mode = "odds" /\ next = [work EXCEPT !.at = "rows", !.rows = rows]
  BY <1>1 DEF work, rows, graded
<1> HIDE DEF work, rows, graded
<1>4. DOMAIN <<>> = {} /\ ToSet(<<>>) = {} /\ TrainsOnThePast({})
  BY DEF ToSet, TrainsOnThePast
<1>5. CASE next = [work EXCEPT !.at = "empty"]
  <2>1. next.at = "empty" /\ next.rows = <<>> /\ next.outcomes = <<>> /\ next.folds = {}
    BY <1>2, <1>5
  <2> QED
    BY <1>4, <2>1 DEF Foreseen
<1>6. CASE ask.mode = "outcome" /\ next = Done(work, graded)
  <2>1. next.at = "done" /\ next.rows = <<>> /\ next.outcomes = graded /\ next.folds = FoldsOf(graded) /\ next.mode = "outcome"
    BY <1>2, <1>6 DEF Done
  <2>2. InTime(graded) /\ \A o \in ToSet(graded) : FromSeason(o)
    BY SeasonInTime DEF graded, FromSeason
  <2>3. graded \in Seq(SeasonOutcomes(ask.market))
    BY SeasonOutcomesAre DEF graded
  <2>4. TrainsOnThePast(FoldsOf(graded))
    BY <2>2, <2>3, FoldsAreInTime
  <2> QED
    BY <1>4, <2>1, <2>2, <2>4 DEF Foreseen
<1>7. CASE ask.mode = "odds" /\ next = [work EXCEPT !.at = "rows", !.rows = rows]
  <2>1. next.at = "rows" /\ next.rows = rows /\ next.outcomes = <<>> /\ next.folds = {} /\ next.mode = "odds"
    BY <1>2, <1>7
  <2>2. \A i \in DOMAIN rows : rows[i] = RowFor(rows[i].game, rows[i].book)
    BY ReplayRowsAre DEF rows
  <2>3. ASSUME NEW i \in DOMAIN rows PROVE GradeKnown(rows[i], finals)
    <3> DEFINE game == rows[i].game
    <3>1. rows[i].final = IF game \in finals THEN FinalScores[game] ELSE <<>>
      BY <2>2 DEF RowFor
    <3> QED
      BY <3>1 DEF GradeKnown
  <2> QED
    BY <1>4, <2>1, <2>3 DEF Foreseen
<1> QED
  BY <1>3, <1>5, <1>6, <1>7

(* What a replay knows in advance is bounded: folds are trained on the     *)
(* past, a game sees at most its own night, and is graded by its own score *)
(* or, overnight, by that of the day after.                                *)
THEOREM NoMoreHindsight == ReplaySpec => []HindsightIsBounded
<1>1. ReplayInit => Foreseen(replay, finals)
  <2> SUFFICES ASSUME ReplayInit PROVE Foreseen(replay, finals)
    OBVIOUS
  <2>1. replay.at = "none" /\ replay.rows = <<>> /\ replay.outcomes = <<>> /\ replay.folds = {}
    BY DEF ReplayInit, NoReplay
  <2>2. DOMAIN <<>> = {} /\ ToSet(<<>>) = {} /\ TrainsOnThePast({})
    BY DEF ToSet, TrainsOnThePast
  <2> QED
    BY <2>1, <2>2 DEF Foreseen
<1>2. HindsightInv /\ [ReplayNext]_replayVars => Foreseen(replay, finals)'
  <2> SUFFICES ASSUME HindsightInv, [ReplayNext]_replayVars PROVE Foreseen(replay', finals')
    OBVIOUS
  <2>0. StoredOK /\ GoodReplay(replay, predictions, stored) /\ Foreseen(replay, finals) /\ replay \in AllReplays(replay)
    BY DEF HindsightInv, ReplayInv, GoodReplay
  <2>1. CASE UNCHANGED replay /\ finals \subseteq finals'
    <3>1. replay' = replay
      BY <2>1
    <3>2. Foreseen(replay, finals')
      BY <2>0, <2>1, ResultsComeIn
    <3> QED
      BY <3>1, <3>2
  <2>2. ASSUME NEW i \in DOMAIN HomeQuotes, StoreQuote(i) PROVE Foreseen(replay', finals')
    BY <2>1, <2>2 DEF StoreQuote
  <2>3. ASSUME NEW game \in DOMAIN FinalScores, StoreResult(game) PROVE Foreseen(replay', finals')
    BY <2>1, <2>3 DEF StoreResult
  <2>4. ASSUME NEW ask \in ReplayAsks, BeginReplay(ask) PROVE Foreseen(replay', finals')
    <3>1. LET work == [NoReplay EXCEPT !.mode = ask.mode, !.version = ask.version, !.before = predictions]
              rows == ListBacktestReplayRows(ask)
          IN  replay' = IF (IF ask.mode = "outcome" THEN OutcomeGames(ask.season) ELSE rows) = <<>>
                          THEN [work EXCEPT !.at = "empty"]
                        ELSE IF ask.mode = "outcome" THEN Done(work, OutcomesOfSeason(ask.season, ask.market))
                        ELSE [work EXCEPT !.at = "rows", !.rows = rows]
      BY <2>4 DEF BeginReplay
    <3>2. Foreseen(replay', finals)
      BY <2>0, <3>1, ForeseenBegins
    <3>3. finals' = finals
      BY <2>4 DEF BeginReplay
    <3> QED
      BY <3>2, <3>3
  <2>5. ASSUME PersistPrediction PROVE Foreseen(replay', finals')
    <3> DEFINE o == OutcomeOf(NextRow)
               balance == ApplyCLV(replay.balance,
                                   RecommendStake(ReplayGames[NextRow.game].sport, o.edge, replay.balance), o.clv)
    <3>1. replay.at = "rows" /\ Len(replay.outcomes) < Len(replay.rows) /\ NextRow = replay.rows[Len(replay.outcomes) + 1]
      BY <2>5 DEF PersistPrediction, HasNextRow, IsReplaying, NextRow
    <3>2. replay' = [replay EXCEPT !.outcomes = Append(@, o), !.balance = balance] /\ finals' = finals
      BY <2>5 DEF PersistPrediction
    <3>3. o = OutcomeOf(replay.rows[Len(replay.outcomes) + 1])
      BY <3>1
    <3> HIDE DEF o, balance
    <3>4. Foreseen(replay', finals)
      BY <2>0, <3>1, <3>2, <3>3, ForeseenGoesOn
    <3> QED
      BY <3>2, <3>4
  <2>6. ASSUME NothingReturned PROVE Foreseen(replay', finals')
    <3>1. replay' = [replay EXCEPT !.at = "stopped"] /\ finals' = finals
      BY <2>6 DEF NothingReturned
    <3> QED
      BY <2>0, <3>1, ForeseenEnds
  <2>7. ASSUME FinishReplay PROVE Foreseen(replay', finals')
    <3>1. replay.at = "rows" /\ replay' = Done(replay, ByClosing(replay.outcomes)) /\ finals' = finals
      BY <2>7 DEF FinishReplay, IsReplaying
    <3>2. Foreseen(replay', finals)
      BY <2>0, <3>1, ForeseenFinishes
    <3> QED
      BY <3>1, <3>2
  <2>8. ASSUME CutShort PROVE Foreseen(replay', finals')
    <3>1. replay' = [replay EXCEPT !.at = "cut"] /\ finals' = finals
      BY <2>8 DEF CutShort
    <3> QED
      BY <2>0, <3>1, ForeseenEnds
  <2>9. ASSUME UNCHANGED replayVars PROVE Foreseen(replay', finals')
    BY <2>1, <2>9 DEF replayVars
  <2> QED
    BY <2>2, <2>3, <2>4, <2>5, <2>6, <2>7, <2>8, <2>9 DEF ReplayNext
<1>3. HindsightInv <=> ReplayInv /\ Foreseen(replay, finals)
  BY DEF HindsightInv
<1>4. HindsightInv => HindsightIsBounded
  BY ForeseenIsBounded
<1> QED
  BY <1>1, <1>2, <1>3, <1>4, ReplayInvHolds, PTL DEF ReplaySpec

-----------------------------------------------------------------------------
(* The parts of a report. *)

(* What a row adds to each field of a tally. *)
Adds(w, s, field) ==
  \A P \in SUBSET (1..Len(s)) : Tally(s, P)[field] = SumFunctionOnSet([i \in P |-> w[i]], P)

AddedFields == {"count", "settled", "observed", "expected", "brier", "clv"}

(* A sum over some of the places is one over all, with nothing elsewhere. *)
LEMMA FieldAdds ==
  ASSUME NEW s, Len(s) \in Nat, NEW field, NEW Q, NEW v \in [1..Len(s) -> Int],
         \A P \in SUBSET (1..Len(s)) : Tally(s, P)[field] = SumFunctionOnSet([i \in P \cap Q |-> v[i]], P \cap Q)
  PROVE  \E w \in [1..Len(s) -> Int] : Adds(w, s, field)
<1> DEFINE n == Len(s)
           w == [i \in 1..n |-> IF i \in Q THEN v[i] ELSE 0]
<1>1. IsFiniteSet(1..n)
  <2> HIDE DEF n
  <2>1. n \in Nat
    BY DEF n
  <2> QED
    BY <2>1, FS_Interval
<1>2. w \in [1..n -> Int]
  OBVIOUS
<1>3. ASSUME NEW P \in SUBSET (1..n)
      PROVE  Tally(s, P)[field] = SumFunctionOnSet([i \in P |-> w[i]], P)
  <2>1. IsFiniteSet(P) /\ \A i \in P \cap Q : v[i] \in Int
    BY <1>1, FS_Subset
  <2>2. [i \in P |-> w[i]] = [i \in P |-> IF i \in Q THEN v[i] ELSE 0]
    OBVIOUS
  <2>3. SumFunctionOnSet([i \in P |-> IF i \in Q THEN v[i] ELSE 0], P)
          = SumFunctionOnSet([i \in P \cap Q |-> v[i]], P \cap Q)
    BY <2>1, SumWithin
  <2> QED
    BY <2>2, <2>3
<1> HIDE DEF w
<1> QED
  BY <1>2, <1>3 DEF Adds

(* Every field of a tally is a sum over the places it is made of. *)
LEMMA TallyAdds ==
  ASSUME NEW s, s \in Seq(AllRows), NEW field \in AddedFields
  PROVE  \E w \in [1..Len(s) -> Int] : Adds(w, s, field)
<1> DEFINE n == Len(s)
           Q == SettledRows(s, 1..n)
           L == WithLine(s, 1..n)
<1>1. n \in Nat /\ \A i \in 1..n : s[i] \in AllRows
  OBVIOUS
<1>2. ASSUME NEW P \in SUBSET (1..n)
      PROVE  SettledRows(s, P) = P \cap Q /\ WithLine(s, P) = P \cap L /\ IsFiniteSet(P)
             /\ IsFiniteSet(P \cap Q)
  <2>1. IsFiniteSet(1..n)
    <3> HIDE DEF n
    <3> QED
      BY <1>1, FS_Interval
  <2>2. SettledRows(s, P) = P \cap Q /\ WithLine(s, P) = P \cap L
    BY DEF SettledRows, WithLine
  <2>3. IsFiniteSet(P) /\ IsFiniteSet(P \cap Q)
    BY <2>1, FS_Subset
  <2> QED
    BY <2>2, <2>3
<1>3. ASSUME NEW i \in 1..n
      PROVE  /\ Won(s[i]) \in Int /\ s[i].expected \in Int /\ Brier(s[i]) \in Int
             /\ i \in L => s[i].clv[1] \in Int
  <2>1. s[i] \in AllRows
    BY <1>1
  <2>2. s[i].expected \in 0..100 /\ s[i].clv \in Seq(Int)
    BY <2>1 DEF AllRows
  <2>3. Won(s[i]) \in Int
    BY DEF Won
  <2>4. s[i].expected \in Int
    <3>1. \A x \in 0..100 : x \in Int
      OBVIOUS
    <3> QED
      BY <2>2, <3>1
  <2>5. Brier(s[i]) \in Int
    <3>1. s[i].expected - Won(s[i]) \in Int
      <4>1. \A x, y \in Int : x - y \in Int
        OBVIOUS
      <4> QED
        BY <2>3, <2>4, <4>1
    <3>2. \A x \in Int : x * x \in Int
      OBVIOUS
    <3> QED
      BY <3>1, <3>2 DEF Brier
  <2>6. i \in L => s[i].clv # <<>>
    BY DEF WithLine
  <2>7. i \in L => s[i].clv[1] \in Int
    BY <2>2, <2>6
  <2> QED
    BY <2>3, <2>4, <2>5, <2>7
<1> HIDE DEF Q, L
<1>4. CASE field = "count"
  <2> DEFINE v == [i \in 1..n |-> 1]
  <2>1. ASSUME NEW P \in SUBSET (1..n)
        PROVE  Tally(s, P)[field] = SumFunctionOnSet([i \in P \cap (1..n) |-> v[i]], P \cap (1..n))
    <3>1. Tally(s, P).count = Cardinality(P)
      BY TallyIs
    <3>2. SumFunctionOnSet([i \in P |-> 1], P) = Cardinality(P)
      BY <1>2, CardinalityIsSum
    <3>3. [i \in P \cap (1..n) |-> v[i]] = [i \in P |-> 1] /\ P \cap (1..n) = P
      OBVIOUS
    <3> QED
      BY <1>4, <3>1, <3>2, <3>3
  <2>2. v \in [1..n -> Int]
    OBVIOUS
  <2> HIDE DEF v
  <2> QED
    BY <1>1, <2>1, <2>2, FieldAdds
<1>5. CASE field = "settled"
  <2> DEFINE v == [i \in 1..n |-> 1]
  <2>1. ASSUME NEW P \in SUBSET (1..n)
        PROVE  Tally(s, P)[field] = SumFunctionOnSet([i \in P \cap Q |-> v[i]], P \cap Q)
    <3>1. Tally(s, P).settled = Cardinality(SettledRows(s, P))
      BY TallyIs
    <3>2. SumFunctionOnSet([i \in P \cap Q |-> 1], P \cap Q) = Cardinality(P \cap Q)
      BY <1>2, CardinalityIsSum
    <3>3. [i \in P \cap Q |-> v[i]] = [i \in P \cap Q |-> 1]
      OBVIOUS
    <3> QED
      BY <1>2, <1>5, <3>1, <3>2, <3>3
  <2>2. v \in [1..n -> Int]
    OBVIOUS
  <2> HIDE DEF v
  <2> QED
    BY <1>1, <2>1, <2>2, FieldAdds
<1>6. CASE field = "observed"
  <2> DEFINE v == [i \in 1..n |-> Won(s[i])]
  <2>1. ASSUME NEW P \in SUBSET (1..n)
        PROVE  Tally(s, P)[field] = SumFunctionOnSet([i \in P \cap Q |-> v[i]], P \cap Q)
    <3>1. Tally(s, P).observed = SumFunctionOnSet([i \in SettledRows(s, P) |-> Won(s[i])], SettledRows(s, P))
      BY TallyIs
    <3>2. [i \in P \cap Q |-> v[i]] = [i \in P \cap Q |-> Won(s[i])]
      OBVIOUS
    <3> QED
      BY <1>2, <1>6, <3>1, <3>2
  <2>2. v \in [1..n -> Int]
    BY <1>3
  <2> HIDE DEF v
  <2> QED
    BY <1>1, <2>1, <2>2, FieldAdds
<1>7. CASE field = "expected"
  <2> DEFINE v == [i \in 1..n |-> s[i].expected]
  <2>1. ASSUME NEW P \in SUBSET (1..n)
        PROVE  Tally(s, P)[field] = SumFunctionOnSet([i \in P \cap Q |-> v[i]], P \cap Q)
    <3>1. Tally(s, P).expected = SumFunctionOnSet([i \in SettledRows(s, P) |-> s[i].expected], SettledRows(s, P))
      BY TallyIs
    <3>2. [i \in P \cap Q |-> v[i]] = [i \in P \cap Q |-> s[i].expected]
      OBVIOUS
    <3> QED
      BY <1>2, <1>7, <3>1, <3>2
  <2>2. v \in [1..n -> Int]
    BY <1>3
  <2> HIDE DEF v
  <2> QED
    BY <1>1, <2>1, <2>2, FieldAdds
<1>8. CASE field = "brier"
  <2> DEFINE v == [i \in 1..n |-> Brier(s[i])]
  <2>1. ASSUME NEW P \in SUBSET (1..n)
        PROVE  Tally(s, P)[field] = SumFunctionOnSet([i \in P \cap Q |-> v[i]], P \cap Q)
    <3>1. Tally(s, P).brier = SumFunctionOnSet([i \in SettledRows(s, P) |-> Brier(s[i])], SettledRows(s, P))
      BY TallyIs
    <3>2. [i \in P \cap Q |-> v[i]] = [i \in P \cap Q |-> Brier(s[i])]
      OBVIOUS
    <3> QED
      BY <1>2, <1>8, <3>1, <3>2
  <2>2. v \in [1..n -> Int]
    BY <1>3
  <2> HIDE DEF v
  <2> QED
    BY <1>1, <2>1, <2>2, FieldAdds
<1>9. CASE field = "clv"
  <2> DEFINE v == [i \in 1..n |-> IF i \in L THEN s[i].clv[1] ELSE 0]
  <2>1. ASSUME NEW P \in SUBSET (1..n)
        PROVE  Tally(s, P)[field] = SumFunctionOnSet([i \in P \cap L |-> v[i]], P \cap L)
    <3>1. Tally(s, P).clv = SumFunctionOnSet([i \in WithLine(s, P) |-> s[i].clv[1]], WithLine(s, P))
      BY TallyIs
    <3>2. [i \in P \cap L |-> v[i]] = [i \in P \cap L |-> s[i].clv[1]]
      OBVIOUS
    <3> QED
      BY <1>2, <1>9, <3>1, <3>2
  <2>2. v \in [1..n -> Int]
    BY <1>3
  <2> HIDE DEF v
  <2> QED
    BY <1>1, <2>1, <2>2, FieldAdds
<1> QED
  BY <1>4, <1>5, <1>6, <1>7, <1>8, <1>9 DEF AddedFields

(* The places of a bucket are between two bounds. *)
LEMMA BucketIs ==
  ASSUME NEW n \in 1..3, NEW m \in Nat \ {0}, NEW i \in 1..m
  PROVE  /\ BucketOf(i, m, n) \in 0..(n - 1)
         /\ \A b \in 1..n : BucketOf(i, m, n) = b - 1 <=> (b - 1) * m <= (i - 1) * n /\ (i - 1) * n < b * m
<1> DEFINE x == (i - 1) * n
           q == x \div m
<1>1. x \in Nat /\ x < n * m
  OBVIOUS
<1>2. BucketOf(i, m, n) = q
  BY DEF BucketOf
<1>3. ASSUME NEW y \in Nat, NEW k \in Nat \ {0}
      PROVE  y \div k \in Int /\ k * (y \div k) <= y /\ y < k * (y \div k) + k
  OBVIOUS
<1> HIDE DEF x
<1>4. q \in Int /\ m * q <= x /\ x < m * q + m
  BY <1>1, <1>3
<1> HIDE DEF q
<1>5. q >= 0
  <2>1. q <= -1 => m * q <= -m
    BY <1>4
  <2> QED
    BY <1>1, <1>4, <2>1
<1>6. q < n
  <2>1. q >= n => m * q >= m * n
    BY <1>4
  <2>2. m * n = n * m
    OBVIOUS
  <2> QED
    BY <1>1, <1>4, <2>1, <2>2
<1>7. ASSUME NEW b \in 1..n
      PROVE  q = b - 1 <=> (b - 1) * m <= x /\ x < b * m
  <2>1. (q = 0 /\ m * q = 0) \/ (q = 1 /\ m * q = m) \/ (q = 2 /\ m * q = m + m)
    BY <1>4, <1>5, <1>6
  <2>2. \/ b = 1 /\ (b - 1) * m = 0 /\ b * m = m
        \/ b = 2 /\ (b - 1) * m = m /\ b * m = m + m
        \/ b = 3 /\ (b - 1) * m = m + m /\ b * m = m + m + m
    OBVIOUS
  <2> DEFINE low == (b - 1) * m
             high == b * m
             at == m * q
  <2>3. low \in Int /\ high \in Int /\ at \in Int
    BY <1>4
  <2>4. at <= x /\ x < at + m
    BY <1>4
  <2>5. /\ (q = 0 /\ at = 0) \/ (q = 1 /\ at = m) \/ (q = 2 /\ at = m + m)
        /\ \/ b = 1 /\ low = 0 /\ high = m
           \/ b = 2 /\ low = m /\ high = m + m
           \/ b = 3 /\ low = m + m /\ high = m + m + m
    BY <2>1, <2>2
  <2> HIDE DEF low, high, at
  <2>6. q = b - 1 <=> low <= x /\ x < high
    BY <1>1, <2>3, <2>4, <2>5
  <2> QED
    BY <2>6 DEF low, high
<1> QED
  BY <1>2, <1>4, <1>5, <1>6, <1>7 DEF x

(* The buckets are the parts of the ranking, cut at these places.  *)
LEMMA BucketsCut ==
  ASSUME NEW n \in 1..3, NEW m \in Nat \ {0}
  PROVE  \E cut \in [0..n -> Nat] :
           /\ \A b \in 1..n : /\ BucketPlaces(n, b, m) = cut[b - 1] + 1 .. cut[b]
                              /\ cut[b - 1] <= cut[b]
           /\ \A a, b \in 1..n : (cut[a] - cut[a - 1]) - (cut[b] - cut[b - 1]) <= 1
<1> DEFINE third == IF n = 1 THEN m ELSE IF n = 2 THEN (m + 1) \div 2 ELSE (m + 2) \div 3
           other == IF n = 1 THEN m ELSE IF n = 2 THEN m ELSE (2 * m + 2) \div 3
           cut == [b \in 0..n |-> IF b = 0 THEN 0 ELSE IF b = 1 THEN third ELSE IF b = 2 THEN other ELSE m]
<1>1. n = 1 \/ n = 2 \/ n = 3
  OBVIOUS
<1>2. third \in Nat /\ other \in Nat /\ third <= other /\ other <= m
  BY <1>1
<1>3. cut \in [0..n -> Nat]
  BY <1>2
<1>4. ASSUME NEW i \in 1..m, NEW b \in 1..n
      PROVE  (b - 1) * m <= (i - 1) * n /\ (i - 1) * n < b * m <=> cut[b - 1] + 1 <= i /\ i <= cut[b]
  BY <1>1
<1>5. \A b \in 1..n : cut[b - 1] <= cut[b] /\ cut[b] <= m
  BY <1>1, <1>2
<1>6. \A a, b \in 1..n : (cut[a] - cut[a - 1]) - (cut[b] - cut[b - 1]) <= 1
  BY <1>1
<1>7. \A b \in 1..n : b \in 0..n /\ b - 1 \in 0..n
  OBVIOUS
<1> HIDE DEF cut
<1>8. ASSUME NEW b \in 1..n PROVE BucketPlaces(n, b, m) = cut[b - 1] + 1 .. cut[b]
  <2>1. \A i \in 1..m : i \in BucketPlaces(n, b, m) <=> cut[b - 1] + 1 <= i /\ i <= cut[b]
    BY <1>4, BucketIs DEF BucketPlaces
  <2>2. cut[b - 1] \in Nat /\ cut[b] \in Nat /\ cut[b] <= m
    BY <1>3, <1>5, <1>7
  <2>3. BucketPlaces(n, b, m) \subseteq 1..m
    BY DEF BucketPlaces
  <2>4. \A i \in (cut[b - 1] + 1) .. cut[b] : i \in 1..m /\ cut[b - 1] + 1 <= i /\ i <= cut[b]
    BY <2>2
  <2>5. \A i \in 1..m : cut[b - 1] + 1 <= i /\ i <= cut[b] => i \in (cut[b - 1] + 1) .. cut[b]
    BY <2>2
  <2>6. \A i : i \in BucketPlaces(n, b, m) <=> i \in (cut[b - 1] + 1) .. cut[b]
    BY <2>1, <2>3, <2>4, <2>5
  <2> QED
    BY <2>6
<1> QED
  BY <1>3, <1>5, <1>6, <1>8

(* What a field is in each bucket. *)
FieldByBucket(h, s, n, field) == h = [b \in 1..n |-> Tally(s, BucketPlaces(n, b, Len(s)))[field]]

(* What a report is of its rows in order: each field of the whole is the   *)
(* sum of those of its buckets.                                            *)
LEMMA FieldsAddUp ==
  ASSUME NEW s, s \in Seq(AllRows), s # <<>>, NEW n \in 1..3, NEW field \in AddedFields,
         NEW h, FieldByBucket(h, s, n, field)
  PROVE  /\ SumFunctionOnSet(h, 1..n) = Tally(s, 1..Len(s))[field]
         /\ h \in [1..n -> Int]
<1> DEFINE m == Len(s)
           K == 1..m
           part == [i \in K |-> BucketOf(i, m, n) + 1]
           sums == h
<1>1. m \in Nat \ {0}
  OBVIOUS
<1>2. PICK w \in [K -> Int] : Adds(w, s, field)
  BY TallyAdds
<1> HIDE DEF m
<1>3. IsFiniteSet(K)
  BY <1>1, FS_Interval
<1>4. part \in [K -> 1..n]
  <2>1. ASSUME NEW i \in K PROVE BucketOf(i, m, n) + 1 \in 1..n
    <3>1. BucketOf(i, m, n) \in 0..(n - 1)
      BY <1>1, BucketIs
    <3> QED
      BY <3>1
  <2> QED
    BY <2>1
<1>5. ASSUME NEW b \in 1..n PROVE PartOf(part, b) = BucketPlaces(n, b, m)
  <2>1. \A i \in K : BucketOf(i, m, n) + 1 = b <=> BucketOf(i, m, n) = b - 1
    <3>1. \A i \in K : BucketOf(i, m, n) \in 0..(n - 1)
      BY <1>1, BucketIs
    <3> QED
      BY <3>1
  <2> QED
    BY <2>1 DEF PartOf, BucketPlaces
<1>6. ASSUME NEW P \in SUBSET K
      PROVE  Tally(s, P)[field] = SumFunctionOnSet([i \in P |-> w[i]], P) /\ Tally(s, P)[field] \in Int
  <2>1. Tally(s, P)[field] = SumFunctionOnSet([i \in P |-> w[i]], P)
    BY <1>2 DEF Adds, m
  <2> DEFINE e == [i \in P |-> w[i]]
  <2>2. e \in [P -> Int] /\ IsFiniteSet(P)
    BY <1>2, <1>3, FS_Subset
  <2> HIDE DEF e
  <2>3. SumFunctionOnSet(e, P) \in Int
    BY <2>2, SumIsInt
  <2> QED
    BY <2>1, <2>3 DEF e
<1>7. \A b \in 1..n : BucketPlaces(n, b, m) \in SUBSET K
  BY DEF BucketPlaces
<1>8. sums \in [1..n -> Int] /\ \A b \in 1..n : sums[b] = Tally(s, BucketPlaces(n, b, m))[field]
  BY <1>6, <1>7 DEF m, FieldByBucket
<1> HIDE DEF part
<1> HIDE DEF sums
<1>9. SumsByPart(sums, w, part, n)
  BY <1>5, <1>6, <1>7, <1>8 DEF SumsByPart
<1>10. SumFunctionOnSet(sums, 1..n) = SumFunctionOnSet(w, K)
  <2> HIDE DEF K
  <2>1. n \in Nat
    OBVIOUS
  <2>2. InParts(K, w, n, part, sums)
    BY <1>2, <1>3, <1>4, <1>8, <1>9, <2>1 DEF InParts
  <2> QED
    BY <2>2, SumOfBuckets
<1>11. SumFunctionOnSet(w, K) = Tally(s, K)[field]
  <2>1. w = [i \in K |-> w[i]] /\ K \in SUBSET K
    BY <1>2
  <2> QED
    BY <1>6, <2>1
<1> QED
  BY <1>8, <1>10, <1>11 DEF m, sums

(* The parts of a report add up to the whole, evenly, in the order of rank, *)
(* and no miss of one is made up for by another.                            *)
LEMMA PartsMakeTheWhole ==
  ASSUME NEW S, OnePerId(S), NEW rows, rows \in Seq(S), IsInjective(rows), rows # <<>>, NEW n \in 1..3
  PROVE  LET report == CalibrationReport(rows, n)
             whole == report.overall
             bucket == report.buckets
         IN  /\ \A field \in AddedFields : Sum(LAMBDA t : t[field], bucket) = whole[field]
             /\ \A a, b \in 1..n : bucket[a].count - bucket[b].count <= 1
             /\ \A a, b \in 1..n : a < b => \A x \in bucket[a].ranks, y \in bucket[b].ranks : x >= y
             /\ report.ece >= Magnitude(whole.observed - whole.expected)
             /\ report.ece \in Int /\ whole.settled \in Int /\ whole.brier \in Int
<1> DEFINE report == CalibrationReport(rows, n)
           whole == report.overall
           bucket == report.buckets
           s == Ordered(rows)
           m == Len(s)
           K == 1..n
<1>1. s \in Seq(S) /\ ToSet(s) = ToSet(rows) /\ SortedBy(s, RowOrder(S))
  BY OrderedSorts
<1>2. \A r, q \in S : <<r, q>> \in RowOrder(S) <=> ReportOrder(r, q)
  BY RowOrderIsOrder
<1>3. S \in SUBSET AllRows
  BY DEF OnePerId
<1>4. /\ whole = Tally(s, 1..m)
      /\ bucket = [b \in K |-> Tally(s, BucketPlaces(n, b, m))]
      /\ report.ece = SumFunctionOnSet([b \in K |-> Magnitude(bucket[b].observed - bucket[b].expected)], K)
  BY ReportIs
<1>n. n \in Nat /\ IsFiniteSet(K)
  BY FS_Interval
<1> HIDE DEF report
<1>5. s # <<>>
  <2>1. 1 \in DOMAIN rows
    OBVIOUS
  <2>2. rows[1] \in ToSet(s)
    BY <1>1, <2>1 DEF ToSet
  <2> QED
    BY <2>2 DEF ToSet
<1> HIDE DEF s
<1>6. s \in Seq(AllRows) /\ m \in Nat \ {0} /\ \A i \in 1..m : s[i] \in S
  BY <1>1, <1>3, <1>5
<1>7. ASSUME NEW field \in AddedFields
      PROVE  /\ SumFunctionOnSet([b \in K |-> bucket[b][field]], K) = whole[field]
             /\ \A b \in K : bucket[b][field] \in Int
             /\ Sum(LAMBDA t : t[field], bucket) = whole[field]
             /\ whole[field] \in Int
  <2> DEFINE h == [b \in K |-> Tally(s, BucketPlaces(n, b, m))[field]]
  <2>1. h = [b \in K |-> bucket[b][field]] /\ DOMAIN bucket = K
    BY <1>4
  <2>2. SumFunctionOnSet(h, K) = Tally(s, 1..m)[field] /\ h \in [K -> Int]
    <3> DEFINE g == h
    <3>1. FieldByBucket(g, s, n, field)
      BY DEF FieldByBucket
    <3> HIDE DEF g
    <3>2. SumFunctionOnSet(g, 1..n) = Tally(s, 1..Len(s))[field] /\ g \in [1..n -> Int]
      BY <1>5, <1>6, <3>1, FieldsAddUp
    <3> QED
      BY <3>2 DEF g
  <2>3. Sum(LAMBDA t : t[field], bucket) = SumFunctionOnSet([b \in DOMAIN bucket |-> bucket[b][field]], DOMAIN bucket)
    BY DEF Sum, SumAt
  <2> HIDE DEF h, bucket, whole, K, m
  <2>4. \A b \in K : bucket[b][field] \in Int
    <3>1. \A b \in K : h[b] = bucket[b][field]
      BY <2>1
    <3> QED
      BY <2>2, <3>1
  <2>5. whole[field] \in Int
    BY <1>n, <1>4, <2>2, SumIsInt
  <2> QED
    BY <1>4, <2>1, <2>2, <2>3, <2>4, <2>5
<1>8. PICK cut \in [0..n -> Nat] :
        /\ \A b \in 1..n : BucketPlaces(n, b, m) = cut[b - 1] + 1 .. cut[b] /\ cut[b - 1] <= cut[b]
        /\ \A a, b \in 1..n : (cut[a] - cut[a - 1]) - (cut[b] - cut[b - 1]) <= 1
  BY <1>6, BucketsCut
<1>9. ASSUME NEW b \in 1..n
      PROVE  /\ cut[b - 1] \in Nat /\ cut[b] \in Nat
             /\ bucket[b].count = cut[b] - cut[b - 1]
             /\ bucket[b].ranks = {s[i].rank : i \in BucketPlaces(n, b, m)}
  <2>1. b - 1 \in 0..n /\ b \in 0..n
    OBVIOUS
  <2>2. cut[b - 1] \in Nat /\ cut[b] \in Nat /\ cut[b - 1] <= cut[b]
    BY <1>8, <2>1
  <2>3. Cardinality((cut[b - 1] + 1) .. cut[b]) = cut[b] - cut[b - 1]
    <3> DEFINE from == cut[b - 1] + 1
               to == cut[b]
    <3>1. from \in Int /\ to \in Int /\ from <= to + 1
      BY <2>2
    <3> HIDE DEF from, to
    <3>2. Cardinality(from .. to) = IF from > to THEN 0 ELSE to - from + 1
      BY <3>1, FS_Interval
    <3>3. Cardinality(from .. to) = to - from + 1
      BY <3>1, <3>2
    <3> QED
      BY <2>2, <3>3 DEF from, to
  <2>4. bucket[b] = Tally(s, BucketPlaces(n, b, m))
    BY <1>4
  <2>5. bucket[b].count = Cardinality(BucketPlaces(n, b, m)) /\ bucket[b].ranks = {s[i].rank : i \in BucketPlaces(n, b, m)}
    <3> DEFINE P == BucketPlaces(n, b, m)
               t == bucket[b]
    <3>1. t = Tally(s, P)
      BY <2>4
    <3> HIDE DEF P, t
    <3>2. Tally(s, P).count = Cardinality(P) /\ Tally(s, P).ranks = {s[i].rank : i \in P}
      BY TallyIs
    <3>3. t.count = Cardinality(P) /\ t.ranks = {s[i].rank : i \in P}
      BY <3>1, <3>2
    <3> QED
      BY <3>3 DEF P, t
  <2> QED
    BY <1>8, <2>2, <2>3, <2>5
<1>10. \A a, b \in 1..n : bucket[a].count - bucket[b].count <= 1
  BY <1>8, <1>9
<1>11. ASSUME NEW a \in 1..n, NEW b \in 1..n, a < b, NEW x \in bucket[a].ranks, NEW y \in bucket[b].ranks
       PROVE  x >= y
  <2>1. PICK i \in BucketPlaces(n, a, m) : x = s[i].rank
    BY <1>9
  <2>2. PICK j \in BucketPlaces(n, b, m) : y = s[j].rank
    BY <1>9
  <2>3. i \in 1..m /\ j \in 1..m
    BY <2>1, <2>2 DEF BucketPlaces
  <2>4. /\ cut[b - 1] \in Nat /\ cut[a] \in Nat /\ i <= cut[a] /\ j >= cut[b - 1] + 1
    <3>1. /\ cut[a - 1] \in Nat /\ cut[a] \in Nat /\ cut[b - 1] \in Nat /\ cut[b] \in Nat
      BY <1>9
    <3>2. i \in (cut[a - 1] + 1) .. cut[a] /\ j \in (cut[b - 1] + 1) .. cut[b]
      BY <1>8, <2>1, <2>2
    <3> QED
      BY <3>1, <3>2
  <2>5. cut[a] <= cut[b - 1]
    <3>1. n = 1 \/ n = 2 \/ n = 3
      OBVIOUS
    <3>2. a = b - 1 \/ (a = 1 /\ b = 3 /\ n = 3)
      BY <1>11
    <3>3. cut[2 - 1] <= cut[2] \/ n = 1
      BY <1>8, <3>1
    <3> QED
      BY <2>4, <3>2, <3>3
  <2>6. i < j
    BY <2>3, <2>4, <2>5
  <2>7. s[i] \in S /\ s[j] \in S /\ <<s[i], s[j]>> \in RowOrder(S)
    BY <1>1, <1>6, <2>3, <2>6 DEF SortedBy
  <2>8. ReportOrder(s[i], s[j])
    BY <1>2, <2>7
  <2>9. s[i].rank \in Int /\ s[j].rank \in Int
    BY <1>3, <2>7 DEF AllRows
  <2> QED
    BY <2>1, <2>2, <2>8, <2>9 DEF ReportOrder
<1>12. report.ece >= Magnitude(whole.observed - whole.expected) /\ report.ece \in Int
  <2> DEFINE o == [b \in K |-> bucket[b].observed]
             e == [b \in K |-> bucket[b].expected]
             f == [b \in K |-> bucket[b].observed - bucket[b].expected]
             g == [b \in K |-> Magnitude(bucket[b].observed - bucket[b].expected)]
  <2>1. "observed" \in AddedFields /\ "expected" \in AddedFields
    BY DEF AddedFields
  <2>2. /\ SumFunctionOnSet(o, K) = whole.observed /\ SumFunctionOnSet(e, K) = whole.expected
        /\ \A b \in K : bucket[b].observed \in Int /\ bucket[b].expected \in Int
    BY <1>7, <2>1
  <2>3. report.ece = SumFunctionOnSet(g, K)
    BY <1>4
  <2> HIDE DEF K, bucket, whole
  <2>4. \A x \in Int : Magnitude(x) \in Int /\ Magnitude(x) >= x /\ Magnitude(x) >= -x
    BY DEF Magnitude
  <2>5. \A b \in K : /\ o[b] = bucket[b].observed /\ e[b] = bucket[b].expected
                     /\ f[b] = o[b] - e[b] /\ f[b] \in Int /\ g[b] = Magnitude(f[b])
    BY <2>2
  <2>6. o \in [K -> Int] /\ e \in [K -> Int] /\ f \in [K -> Int] /\ g \in [K -> Int]
    <3>1. o \in [K -> Int] /\ e \in [K -> Int]
      BY <2>2
    <3>2. \A b \in K : bucket[b].observed - bucket[b].expected \in Int
      BY <2>5
    <3>3. f \in [K -> Int]
      BY <3>2
    <3>4. \A b \in K : Magnitude(bucket[b].observed - bucket[b].expected) \in Int
      BY <2>4, <3>2
    <3>5. g \in [K -> Int]
      BY <3>4
    <3> QED
      BY <3>1, <3>3, <3>5
  <2> HIDE DEF o, e, f, g
  <2>7. IsDifference(f, o, e, K)
    BY <2>5 DEF IsDifference
  <2>8. SumFunctionOnSet(f, K) = SumFunctionOnSet(o, K) - SumFunctionOnSet(e, K)
    BY <1>n, <2>6, <2>7, SumOfDifferences, ZenonT(60)
  <2>9. \A b \in K : g[b] >= f[b] /\ g[b] >= -f[b]
    BY <2>4, <2>5
  <2>10. SumFunctionOnSet(g, K) >= SumFunctionOnSet(f, K) /\ SumFunctionOnSet(g, K) >= -SumFunctionOnSet(f, K)
    BY <1>n, <2>6, <2>9, SumOfMagnitudes
  <2>11. SumFunctionOnSet(f, K) \in Int /\ SumFunctionOnSet(g, K) \in Int
    BY <1>n, <2>6, SumIsInt
  <2> QED
    BY <2>2, <2>3, <2>8, <2>10, <2>11 DEF Magnitude
<1>13. whole.settled \in Int /\ whole.brier \in Int
  BY <1>7 DEF AddedFields
<1> QED
  BY <1>7, <1>10, <1>11, <1>12, <1>13 DEF report

(* Two steps short of a limit ... *)
ShortSteps(a, k, b, l, c, m, scale, w, far) ==
  /\ a \in Int /\ b \in Int /\ c \in Int
  /\ k \in Nat \ {0} /\ l \in Nat \ {0} /\ m \in Nat \ {0}
  /\ scale \in Nat /\ w \in Nat /\ far \in Nat /\ 2 * w <= far
  /\ ~Reaches(a, k, b, l, scale, w) /\ ~Reaches(b, l, c, m, scale, w)

(* ... stay short of twice the limit. *)
LEMMA StepsStayShort ==
  ASSUME NEW a, NEW k, NEW b, NEW l, NEW c, NEW m, NEW scale, NEW w, NEW far,
         ShortSteps(a, k, b, l, c, m, scale, w, far)
  PROVE  ~Reaches(a, k, c, m, scale, far)
<1> SUFFICES ASSUME a \in Int, b \in Int, c \in Int, k \in Nat \ {0}, l \in Nat \ {0}, m \in Nat \ {0},
                    scale \in Nat, w \in Nat, far \in Nat, 2 * w <= far,
                    ~Reaches(a, k, b, l, scale, w), ~Reaches(b, l, c, m, scale, w)
             PROVE  ~Reaches(a, k, c, m, scale, far)
  BY DEF ShortSteps
<1> DEFINE P == a * l - b * k
           Q == b * m - c * l
           R == a * m - c * k
           U == w * scale * k * l
           V == w * scale * l * m
           W == far * scale * k * m
<1>1. l * R = m * P + k * Q
  OBVIOUS
<1>2. P \in Int /\ Q \in Int /\ R \in Int /\ U \in Int /\ V \in Int /\ W \in Int
  OBVIOUS
<1>3. \A x, y \in Int : ~(1000 * Magnitude(x) >= y) <=> 1000 * x < y /\ 1000 * (-x) < y
  BY DEF Magnitude
<1>4. 1000 * P < U /\ 1000 * (-P) < U
  BY <1>2, <1>3 DEF Reaches
<1>5. 1000 * Q < V /\ 1000 * (-Q) < V
  BY <1>2, <1>3 DEF Reaches
<1>6. m * U + k * V <= l * W
  <2> DEFINE D == scale * k * l * m
  <2>1. D \in Nat
    <3>1. \A x, y \in Nat : x * y \in Nat
      OBVIOUS
    <3>2. scale * k \in Nat
      BY <3>1
    <3>3. scale * k * l \in Nat
      BY <3>1, <3>2
    <3> QED
      BY <3>1, <3>3
  <2>2. m * U = w * D /\ k * V = w * D /\ l * W = far * D
    OBVIOUS
  <2> HIDE DEF D, U, V, W
  <2>3. w * D + w * D <= far * D
    <3>1. (far - 2 * w) * D >= 0
      <4>1. far - 2 * w \in Nat
        OBVIOUS
      <4>2. \A x, y \in Nat : x * y >= 0
        OBVIOUS
      <4> QED
        BY <2>1, <4>1, <4>2
    <3>2. (far - 2 * w) * D = far * D - (w * D + w * D)
      BY <2>1
    <3>3. far * D \in Int /\ w * D \in Int
      BY <2>1
    <3> QED
      BY <3>1, <3>2, <3>3
  <2> QED
    BY <2>2, <2>3
<1> HIDE DEF P, Q, R, U, V, W
<1>7. ASSUME NEW p \in Int, NEW q \in Int, NEW r \in Int, l * r = m * p + k * q, 1000 * p < U, 1000 * q < V
      PROVE  1000 * r < W
  <2>1. \A x \in Nat \ {0}, y, z \in Int : y < z => x * y < x * z
    OBVIOUS
  <2>2. m * (1000 * p) < m * U /\ k * (1000 * q) < k * V
    BY <1>2, <1>7, <2>1
  <2>3. m * (1000 * p) = 1000 * (m * p) /\ k * (1000 * q) = 1000 * (k * q) /\ l * (1000 * r) = 1000 * (l * r)
    OBVIOUS
  <2> DEFINE mp == m * p
             kq == k * q
             lr == l * r
             mU == m * U
             kV == k * V
             lW == l * W
  <2>4. mp \in Int /\ kq \in Int /\ lr \in Int /\ mU \in Int /\ kV \in Int /\ lW \in Int
    BY <1>2
  <2>5. 1000 * mp < mU /\ 1000 * kq < kV /\ lr = mp + kq /\ mU + kV <= lW
    BY <1>6, <1>7, <2>2, <2>3
  <2> HIDE DEF mp, kq, lr, mU, kV, lW
  <2>6. 1000 * lr < lW
    BY <2>4, <2>5
  <2>7. l * (1000 * r) < l * W
    BY <2>3, <2>6 DEF lr, lW
  <2>8. \A y, z \in Int : l * y < l * z => y < z
    OBVIOUS
  <2>9. 1000 * r \in Int
    OBVIOUS
  <2> QED
    BY <1>2, <2>7, <2>8, <2>9
<1>8. 1000 * R < W
  <2>1. P \in Int /\ Q \in Int /\ R \in Int /\ l * R = m * P + k * Q /\ 1000 * P < U /\ 1000 * Q < V
    BY <1>1, <1>2, <1>4, <1>5
  <2> QED
    BY <1>7, <2>1
<1>9. 1000 * (-R) < W
  <2>1. l * (-R) = m * (-P) + k * (-Q)
    <3>1. \A x, y \in Int : x * (-y) = -(x * y)
      OBVIOUS
    <3>2. l * R \in Int /\ m * P \in Int /\ k * Q \in Int
      BY <1>2
    <3> QED
      BY <1>1, <1>2, <3>1, <3>2
  <2>2. -P \in Int /\ -Q \in Int /\ -R \in Int
    BY <1>2
  <2> QED
    BY <1>4, <1>5, <1>7, <2>1, <2>2
<1> QED
  BY <1>2, <1>3, <1>8, <1>9 DEF Reaches, R, W

(* How far apart two reports are does not depend on which comes first. *)
LEMMA ReachesBothWays ==
  ASSUME NEW a \in Int, NEW b \in Int, NEW k \in Int, NEW l \in Int, NEW scale \in Int, NEW t \in Int
  PROVE  Reaches(a, k, b, l, scale, t) <=> Reaches(b, l, a, k, scale, t)
<1> DEFINE x == a * l - b * k
<1>1. b * k - a * l = -x /\ x \in Int
  OBVIOUS
<1>2. \A y \in Int : Magnitude(-y) = Magnitude(y)
  BY DEF Magnitude
<1>3. t * scale * k * l = t * scale * l * k
  OBVIOUS
<1> QED
  BY <1>1, <1>2, <1>3 DEF Reaches

(* What the verdict on two reports compares. *)
FarApart(A, B, ece, brier) ==
  \/ Reaches(A.ece, A.overall.settled, B.ece, B.overall.settled, 100, ece)
  \/ Reaches(A.overall.brier, A.overall.settled, B.overall.brier, B.overall.settled, 10000, brier)

LEMMA DriftLevelIs ==
  ASSUME NEW A, NEW B
  PROVE  LET t == Defaults.thresholds
             g == Defaults.guardrails
         IN  DriftLevel(A, B, g, t) =
               IF TooFew(A, g) \/ TooFew(B, g) THEN "insufficient_sample"
               ELSE IF FarApart(A, B, t.criticalECE, t.criticalBrier) THEN "critical"
               ELSE IF FarApart(A, B, t.warnECE, t.warnBrier) THEN "warn" ELSE "ok"
<1> DEFINE t == Defaults.thresholds
           g == Defaults.guardrails
<1>1. /\ t \in [{"warnECE", "criticalECE", "warnBrier", "criticalBrier"} -> 0..1000]
      /\ 2 * t.warnECE <= t.criticalECE /\ 2 * t.warnBrier <= t.criticalBrier
      /\ g \in [{"overall", "perBucket"} -> Nat \ {0}]
  BY ReportsAssumption
<1> HIDE DEF t, g
<1>2. OrDefault(t, t) = t
  <2>1. [f \in DOMAIN t |-> IF t[f] = 0 THEN t[f] ELSE t[f]] = t
    BY <1>1
  <2> QED
    BY <2>1 DEF OrDefault
<1>3. OrDefault(g, g) = g
  <2>1. [f \in DOMAIN g |-> IF g[f] = 0 THEN g[f] ELSE g[f]] = g
    BY <1>1
  <2> QED
    BY <2>1 DEF OrDefault
<1>4. ValidThresholds(t)
  <2>1. t.warnECE \in 0..1000 /\ t.criticalECE \in 0..1000 /\ t.warnBrier \in 0..1000 /\ t.criticalBrier \in 0..1000
    BY <1>1
  <2>2. t.warnECE <= t.criticalECE /\ t.warnBrier <= t.criticalBrier
    <3> DEFINE we == t.warnECE
               ce == t.criticalECE
               wb == t.warnBrier
               cb == t.criticalBrier
    <3>1. /\ we \in 0..1000 /\ ce \in 0..1000 /\ wb \in 0..1000 /\ cb \in 0..1000
          /\ 2 * we <= ce /\ 2 * wb <= cb
      BY <1>1, <2>1
    <3> HIDE DEF we, ce, wb, cb
    <3>2. we <= ce /\ wb <= cb
      BY <3>1
    <3> QED
      BY <3>2 DEF we, ce, wb, cb
  <2>3. \A f \in DOMAIN t : t[f] \in 0..1000
    BY <1>1
  <2> QED
    BY <2>2, <2>3 DEF ValidThresholds
<1>5. DriftLevel(A, B, g, t) =
        IF TooFew(A, g) \/ TooFew(B, g) THEN "insufficient_sample"
        ELSE IF FarApart(A, B, t.criticalECE, t.criticalBrier) THEN "critical"
        ELSE IF FarApart(A, B, t.warnECE, t.warnBrier) THEN "warn" ELSE "ok"
  <2>1. Defaults.thresholds = t /\ Defaults.guardrails = g
    BY DEF t, g
  <2>2. CASE TooFew(A, g) \/ TooFew(B, g)
    BY <1>2, <1>3, <1>4, <2>1, <2>2 DEF DriftLevel
  <2>3. CASE ~(TooFew(A, g) \/ TooFew(B, g))
    BY <1>2, <1>3, <1>4, <2>1, <2>3 DEF DriftLevel, FarApart
  <2> QED
    BY <2>2, <2>3
<1> QED
  BY <1>5 DEF t, g

(* What a verdict needs of a report. *)
LEMMA EnoughIsANumber ==
  ASSUME NEW S, OnePerId(S), NEW rows, rows \in Seq(S), IsInjective(rows)
  PROVE  LET report == CalibrationReport(rows, 1)
         IN  ~TooFew(report, Defaults.guardrails) =>
               report.overall.settled \in Nat \ {0} /\ report.ece \in Int /\ report.overall.brier \in Int
<1> DEFINE report == CalibrationReport(rows, 1)
           overall == Defaults.guardrails.overall
<1>1. overall \in Nat \ {0}
  BY ReportsAssumption
<1> HIDE DEF report
<1>2. CASE rows = <<>>
  <2> DEFINE s == Ordered(rows)
             K == 1..Len(s)
  <2>1. s \in Seq(S) /\ ToSet(s) = ToSet(rows)
    BY OrderedSorts
  <2>2. ToSet(rows) = {}
    BY <1>2 DEF ToSet
  <2>3. report.overall = Tally(s, K)
    BY ReportIs DEF report
  <2> HIDE DEF s
  <2>4. DOMAIN s = {}
    BY <2>1, <2>2 DEF ToSet
  <2>5. K = {}
    BY <2>1, <2>4
  <2> HIDE DEF K
  <2>6. SettledRows(s, K) = {}
    BY <2>5 DEF SettledRows
  <2>7. Tally(s, K).settled = Cardinality(SettledRows(s, K))
    BY TallyIs
  <2>8. report.overall.settled = 0
    BY <2>3, <2>6, <2>7, FS_EmptySet
  <2>9. TooFew(report, Defaults.guardrails)
    BY <1>1, <2>8 DEF TooFew
  <2> QED
    BY <2>9 DEF report
<1>3. CASE rows # <<>>
  <2>1. report.ece \in Int /\ report.overall.settled \in Int /\ report.overall.brier \in Int
    <3>1. 1 \in 1..3
      OBVIOUS
    <3>2. /\ CalibrationReport(rows, 1).ece \in Int /\ CalibrationReport(rows, 1).overall.settled \in Int
          /\ CalibrationReport(rows, 1).overall.brier \in Int
      BY <1>3, <3>1, PartsMakeTheWhole
    <3> QED
      BY <3>2 DEF report
  <2>2. ASSUME ~TooFew(report, Defaults.guardrails) PROVE report.overall.settled >= overall
    BY <1>1, <2>1, <2>2 DEF TooFew
  <2> QED
    BY <1>1, <2>1, <2>2 DEF report
<1> QED
  BY <1>2, <1>3

(* Reports compare as distances do: whichever is the baseline, and step by *)
(* step.                                                                   *)
LEMMA LevelsAreDistances ==
  ASSUME NEW S, OnePerId(S), NEW p, p \in Seq(S), IsInjective(p), NEW q, q \in Seq(S), IsInjective(q),
         NEW r, r \in Seq(S), IsInjective(r)
  PROVE  /\ Level(p, r) = Level(r, p)
         /\ Level(p, q) = "ok" /\ Level(q, r) = "ok" => Level(p, r) # "critical"
<1> DEFINE t == Defaults.thresholds
           g == Defaults.guardrails
           A == CalibrationReport(p, 1)
           B == CalibrationReport(q, 1)
           C == CalibrationReport(r, 1)
           Enough(X) == ~TooFew(X, g)
           Numbers(X) == X.overall.settled \in Nat \ {0} /\ X.ece \in Int /\ X.overall.brier \in Int
           Verdict(X, Y) == IF TooFew(X, g) \/ TooFew(Y, g) THEN "insufficient_sample"
                            ELSE IF FarApart(X, Y, t.criticalECE, t.criticalBrier) THEN "critical"
                            ELSE IF FarApart(X, Y, t.warnECE, t.warnBrier) THEN "warn" ELSE "ok"
<1>1. Level(p, q) = Verdict(A, B) /\ Level(q, r) = Verdict(B, C) /\ Level(p, r) = Verdict(A, C) /\ Level(r, p) = Verdict(C, A)
  BY DriftLevelIs DEF Level
<1>2. (Enough(A) => Numbers(A)) /\ (Enough(B) => Numbers(B)) /\ (Enough(C) => Numbers(C))
  BY EnoughIsANumber
<1>3. /\ t.warnECE \in Nat /\ t.criticalECE \in Nat /\ t.warnBrier \in Nat /\ t.criticalBrier \in Nat
      /\ 2 * t.warnECE <= t.criticalECE /\ 2 * t.warnBrier <= t.criticalBrier
  <2>1. /\ t \in [{"warnECE", "criticalECE", "warnBrier", "criticalBrier"} -> 0..1000]
        /\ 2 * t.warnECE <= t.criticalECE /\ 2 * t.warnBrier <= t.criticalBrier
    BY ReportsAssumption
  <2> HIDE DEF t
  <2>2. t.warnECE \in 0..1000 /\ t.criticalECE \in 0..1000 /\ t.warnBrier \in 0..1000 /\ t.criticalBrier \in 0..1000
    BY <2>1
  <2> DEFINE we == t.warnECE
             ce == t.criticalECE
             wb == t.warnBrier
             cb == t.criticalBrier
  <2>3. /\ we \in 0..1000 /\ ce \in 0..1000 /\ wb \in 0..1000 /\ cb \in 0..1000
        /\ 2 * we <= ce /\ 2 * wb <= cb
    BY <2>1, <2>2
  <2> HIDE DEF we, ce, wb, cb
  <2>4. we \in Nat /\ ce \in Nat /\ wb \in Nat /\ cb \in Nat /\ 2 * we <= ce /\ 2 * wb <= cb
    BY <2>3
  <2> QED
    BY <2>4 DEF we, ce, wb, cb
<1> HIDE DEF t, g, A, B, C
<1>4. ASSUME NEW X, NEW Y, Numbers(X), Numbers(Y), NEW ece \in Nat, NEW brier \in Nat
      PROVE  FarApart(X, Y, ece, brier) <=> FarApart(Y, X, ece, brier)
  <2> DEFINE k == X.overall.settled
             l == Y.overall.settled
             d == X.ece
             e == Y.ece
             f == X.overall.brier
             h == Y.overall.brier
  <2>0. k \in Int /\ l \in Int /\ d \in Int /\ e \in Int /\ f \in Int /\ h \in Int /\ ece \in Int /\ brier \in Int
        /\ 100 \in Int /\ 10000 \in Int
    BY <1>4
  <2> HIDE DEF k, l, d, e, f, h
  <2>1. Reaches(d, k, e, l, 100, ece) <=> Reaches(e, l, d, k, 100, ece)
    BY <2>0, ReachesBothWays
  <2>2. Reaches(f, k, h, l, 10000, brier) <=> Reaches(h, l, f, k, 10000, brier)
    BY <2>0, ReachesBothWays
  <2> QED
    BY <2>1, <2>2 DEF FarApart, k, l, d, e, f, h
<1>5. Verdict(A, C) = Verdict(C, A)
  <2>1. CASE Enough(A) /\ Enough(C)
    <3>1. /\ FarApart(A, C, t.criticalECE, t.criticalBrier) <=> FarApart(C, A, t.criticalECE, t.criticalBrier)
          /\ FarApart(A, C, t.warnECE, t.warnBrier) <=> FarApart(C, A, t.warnECE, t.warnBrier)
      BY <1>2, <1>3, <1>4, <2>1
    <3> QED
      BY <2>1, <3>1
  <2>2. CASE ~(Enough(A) /\ Enough(C))
    BY <2>2
  <2> QED
    BY <2>1, <2>2
<1>6. ASSUME Verdict(A, B) = "ok", Verdict(B, C) = "ok" PROVE Verdict(A, C) # "critical"
  <2>1. Enough(A) /\ Enough(B) /\ Enough(C)
    BY <1>6
  <2>2. ~FarApart(A, B, t.warnECE, t.warnBrier) /\ ~FarApart(B, C, t.warnECE, t.warnBrier)
    BY <1>6, <2>1
  <2>3. Numbers(A) /\ Numbers(B) /\ Numbers(C)
    BY <1>2, <2>1
  <2> DEFINE k == A.overall.settled
             l == B.overall.settled
             m == C.overall.settled
             we == t.warnECE
             ce == t.criticalECE
             wb == t.warnBrier
             cb == t.criticalBrier
  <2>4. k \in Nat \ {0} /\ l \in Nat \ {0} /\ m \in Nat \ {0}
    BY <2>3
  <2>5. we \in Nat /\ ce \in Nat /\ 2 * we <= ce /\ wb \in Nat /\ cb \in Nat /\ 2 * wb <= cb /\ 100 \in Nat /\ 10000 \in Nat
    BY <1>3
  <2>6. ~Reaches(A.ece, k, C.ece, m, 100, ce)
    <3> DEFINE x == A.ece
               y == B.ece
               z == C.ece
    <3>1. ~Reaches(x, k, y, l, 100, we) /\ ~Reaches(y, l, z, m, 100, we)
      BY <2>2 DEF FarApart
    <3>2. x \in Int /\ y \in Int /\ z \in Int
      BY <2>3
    <3> HIDE DEF x, y, z, k, l, m, we, ce
    <3>0. ShortSteps(x, k, y, l, z, m, 100, we, ce)
      BY <2>4, <2>5, <3>1, <3>2 DEF ShortSteps
    <3>3. ~Reaches(x, k, z, m, 100, ce)
      BY <3>0, StepsStayShort
    <3> QED
      BY <3>3 DEF x, z
  <2>7. ~Reaches(A.overall.brier, k, C.overall.brier, m, 10000, cb)
    <3> DEFINE x == A.overall.brier
               y == B.overall.brier
               z == C.overall.brier
    <3>1. ~Reaches(x, k, y, l, 10000, wb) /\ ~Reaches(y, l, z, m, 10000, wb)
      BY <2>2 DEF FarApart
    <3>2. x \in Int /\ y \in Int /\ z \in Int
      BY <2>3
    <3> HIDE DEF x, y, z, k, l, m, wb, cb
    <3>0. ShortSteps(x, k, y, l, z, m, 10000, wb, cb)
      BY <2>4, <2>5, <3>1, <3>2 DEF ShortSteps
    <3>3. ~Reaches(x, k, z, m, 10000, cb)
      BY <3>0, StepsStayShort
    <3> QED
      BY <3>3 DEF x, z
  <2>8. ~FarApart(A, C, t.criticalECE, t.criticalBrier)
    BY <2>6, <2>7 DEF FarApart
  <2> QED
    BY <2>8
<1> QED
  BY <1>1, <1>5, <1>6

(* A stretch of a listing has each row once. *)
LEMMA StretchIs ==
  ASSUME NEW S, NEW s, s \in Seq(S), IsInjective(s), NEW i, i \in 1..(Len(s) + 1), NEW j, j \in 0..Len(s)
  PROVE  SubSeq(s, i, j) \in Seq(S) /\ IsInjective(SubSeq(s, i, j))
<1> DEFINE cut == SubSeq(s, i, j)
<1>1. \A k \in i..j : s[k] \in S
  OBVIOUS
<1>2. /\ cut \in Seq(S) /\ Len(cut) = IF i <= j THEN j - i + 1 ELSE 0
      /\ \A k \in 1..(j - i + 1) : cut[k] = s[i + k - 1]
  BY <1>1, SubSeqProperties
<1> HIDE DEF cut
<1>3. \A k \in DOMAIN cut : k \in 1..(j - i + 1) /\ i + k - 1 \in DOMAIN s
  BY <1>2
<1>4. ASSUME NEW k \in DOMAIN cut, NEW l \in DOMAIN cut, cut[k] = cut[l] PROVE k = l
  <2>1. s[i + k - 1] = s[i + l - 1]
    BY <1>2, <1>3, <1>4
  <2>2. i + k - 1 = i + l - 1
    BY <1>3, <2>1 DEF IsInjective
  <2> QED
    BY <1>3, <2>2
<1>5. IsInjective(cut)
  BY <1>4 DEF IsInjective
<1> QED
  BY <1>2, <1>5 DEF cut

(* The parts of a calibration report add up to the whole and no miss of    *)
(* one is made up for by another; and drift between two reports is the     *)
(* same either way and grows step by step: ComputeCalibrationReport and    *)
(* EvaluateCalibrationDrift.                                               *)
THEOREM PartsAddUp == ReportSpec => []ReportsAddUp
<1>1. ReportInv => ReportsAddUp
  <2> SUFFICES ASSUME ReportInv PROVE ReportsAddUp
    OBVIOUS
  <2> DEFINE S == RowUniverse
             rows == calibrationRows
  <2>1. OnePerId(S) /\ rows \in Seq(S) /\ IsInjective(rows)
    BY ReportsAssumption DEF OnePerId, ReportInv
  <2>2. BucketsSplitTheRanking
    <3> SUFFICES ASSUME NEW n \in 1..3, rows # <<>>
                 PROVE  LET report == CalibrationReport(rows, n)
                            whole == report.overall
                            bucket == report.buckets
                        IN  /\ \A field \in {"count", "settled", "observed", "expected", "brier", "clv"} :
                                 Sum(LAMBDA t : t[field], bucket) = whole[field]
                            /\ \A a, b \in 1..n : bucket[a].count - bucket[b].count <= 1
                            /\ \A a, b \in 1..n : a < b => \A x \in bucket[a].ranks, y \in bucket[b].ranks : x >= y
                            /\ report.ece >= Magnitude(whole.observed - whole.expected)
      BY DEF BucketsSplitTheRanking
    <3> HIDE DEF rows, S
    <3> QED
      BY <2>1, PartsMakeTheWhole DEF AddedFields
  <2>3. DriftIsADistance
    <3> SUFFICES ASSUME NEW i \in 0..Len(rows), NEW j \in 0..Len(rows), i <= j
                 PROVE  LET first == SubSeq(rows, 1, i)
                            middle == SubSeq(rows, i + 1, j)
                            last == SubSeq(rows, j + 1, Len(rows))
                        IN  /\ Level(first, last) = Level(last, first)
                            /\ Level(first, middle) = "ok" /\ Level(middle, last) = "ok" => Level(first, last) # "critical"
      BY DEF DriftIsADistance
    <3> DEFINE first == SubSeq(rows, 1, i)
               middle == SubSeq(rows, i + 1, j)
               last == SubSeq(rows, j + 1, Len(rows))
    <3> HIDE DEF rows, S
    <3>1. Len(rows) \in Nat
      BY <2>1
    <3>2. /\ 1 \in 1..(Len(rows) + 1) /\ i + 1 \in 1..(Len(rows) + 1) /\ j + 1 \in 1..(Len(rows) + 1)
          /\ Len(rows) \in 0..Len(rows)
      BY <3>1
    <3>3. first \in Seq(S) /\ IsInjective(first)
      BY <2>1, <3>2, StretchIs
    <3>4. middle \in Seq(S) /\ IsInjective(middle)
      BY <2>1, <3>2, StretchIs
    <3>5. last \in Seq(S) /\ IsInjective(last)
      BY <2>1, <3>2, StretchIs
    <3> HIDE DEF first, middle, last
    <3>6. /\ Level(first, last) = Level(last, first)
          /\ Level(first, middle) = "ok" /\ Level(middle, last) = "ok" => Level(first, last) # "critical"
      BY <2>1, <3>3, <3>4, <3>5, LevelsAreDistances
    <3> QED
      BY <3>6 DEF first, middle, last
  <2> QED
    BY <2>2, <2>3 DEF ReportsAddUp
<1> QED
  BY <1>1, ReportInvHolds, PTL

-----------------------------------------------------------------------------
(* Neither picks nor reports depend on the order in which what they are    *)
(* made of is listed.                                                      *)
THEOREM OrderIsIrrelevant == DecisionSpec => []OrderFree
<1>1. PicksOrderFree /\ ReportOrderFree => OrderFree
  BY DEF OrderFree
<1> QED
  BY <1>1, ArrivalOrderIsIrrelevant, ListingOrderIsIrrelevant, PTL DEF DecisionSpec

(* Picks, rows of the log and replays are what they should look like,      *)
(* whatever the universe of candidates, the snapshots and the odds are.    *)
THEOREM TypesAreCorrect == DecisionSpec => []DecisionTypeOK
<1>1. PickTypeOK /\ OutTypeOK /\ ReplayTypeOK => DecisionTypeOK
  BY DEF DecisionTypeOK
<1> QED
  BY <1>1, PickTypeCorrect, OutTypeCorrect, ReplayTypeCorrect, PTL DEF DecisionSpec

=============================================================================
