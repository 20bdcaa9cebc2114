----------------------------- MODULE Collections -----------------------------
(***************************************************************************)
(* Facts about finite sets, sums and lists, for the proofs.                *)
(*                                                                         *)
(* SumFunctionOnSet takes the elements in an order that is not known, so   *)
(* what a sum is has to be shown to be the same in every order.  The books *)
(* of Execution are sums over the bets.                                    *)
(*                                                                         *)
(* Folds of lists, and what Listings makes with them, are runs: a function *)
(* from 0..n that takes one step of the fold after the other.              *)
(*                                                                         *)
(* Induction, over subsets or up to a number, has a set in the place of a  *)
(* predicate.                                                              *)
(***************************************************************************)
EXTENDS Listings, Functions, FiniteSetTheorems, SequenceTheorems, TLAPS

(* Induction over the subsets of a finite set, with a set in the place of  *)
(* a predicate.                                                            *)
LEMMA SubsetInduction ==
  ASSUME NEW S, IsFiniteSet(S), NEW Good,
         \A T \in SUBSET S : (\A U \in SUBSET T : U # T => U \in Good) => T \in Good
  PROVE  \A T \in SUBSET S : T \in Good
<1> DEFINE Bad == (SUBSET S) \ Good
<1>1. SUFFICES ASSUME Bad # {} PROVE FALSE
  OBVIOUS
<1>2. IsWellFoundedOn(StrictSubsetOrdering(S), FiniteSubsetsOf(S))
  BY FS_StrictSubsetOrderingWellFounded
<1>3. Bad \subseteq FiniteSubsetsOf(S)
  BY FS_FiniteSubsetsOfFinite
<1>4. PICK T \in Bad : \A U \in Bad : ~ (<<U, T>> \in StrictSubsetOrdering(S))
  <2> HIDE DEF Bad
  <2> QED
    BY <1>1, <1>2, <1>3, WFMin
<1>5. ASSUME NEW U \in SUBSET T, U # T
      PROVE  U \in Good
  <2>1. <<U, T>> \in (SUBSET S) \X (SUBSET S) /\ U \subseteq T /\ U # T
    BY <1>4, <1>5
  <2>2. <<U, T>> \in StrictSubsetOrdering(S)
    BY <2>1 DEF StrictSubsetOrdering
  <2> QED
    BY <1>4, <1>5, <2>2
<1> QED
  BY <1>4, <1>5

(* In a finite set that is ordered, a set with something in it has a first *)
(* element.  (The order is a set of pairs.)                                *)
LinearOn(before, S) ==
  /\ \A x, y \in S : <<x, y>> \in before \/ <<y, x>> \in before
  /\ \A x, y, z \in S : <<x, y>> \in before /\ <<y, z>> \in before => <<x, z>> \in before

LEMMA FirstExists ==
  ASSUME NEW S, IsFiniteSet(S), NEW before, LinearOn(before, S)
  PROVE  \A T \in SUBSET S : T # {} => \E x \in T : \A y \in T : <<x, y>> \in before
<1> DEFINE Good == {T \in SUBSET S : T # {} => \E x \in T : \A y \in T : <<x, y>> \in before}
<1>1. ASSUME NEW T \in SUBSET S, \A U \in SUBSET T : U # T => U \in Good
      PROVE  T \in Good
  <2>1. SUFFICES ASSUME T # {} PROVE \E x \in T : \A y \in T : <<x, y>> \in before
    OBVIOUS
  <2>2. PICK z \in T : TRUE
    BY <2>1
  <2>3. <<z, z>> \in before
    BY DEF LinearOn
  <2>4. T \ {z} \in SUBSET T /\ T \ {z} # T
    BY <2>2
  <2>5. T \ {z} \in Good
    BY <1>1, <2>4
  <2>6. CASE T \ {z} = {}
    <3>1. \A y \in T : y = z
      BY <2>6
    <3> QED
      BY <2>3, <3>1
  <2>7. CASE T \ {z} # {}
    <3>1. PICK x \in T \ {z} : \A y \in T \ {z} : <<x, y>> \in before
      BY <2>5, <2>7
    <3>2. x \in S /\ z \in S
      OBVIOUS
    <3>3. CASE <<x, z>> \in before
      <4>1. \A y \in T : <<x, y>> \in before
        BY <3>1, <3>3
      <4> QED
        BY <4>1
    <3>4. CASE <<z, x>> \in before
      <4>1. ASSUME NEW y \in T PROVE <<z, y>> \in before
        <5>1. CASE y = z
          BY <2>3, <5>1
        <5>2. CASE y # z
          <6>1. <<x, y>> \in before
            BY <3>1, <5>2
          <6>2. y \in S
            OBVIOUS
          <6> QED
            BY <3>2, <3>4, <6>1, <6>2 DEF LinearOn
        <5> QED
          BY <5>1, <5>2
      <4> QED
        BY <4>1
    <3> QED
      BY <3>2, <3>3, <3>4 DEF LinearOn
  <2> QED
    BY <2>6, <2>7
<1> HIDE DEF Good
<1>2. \A T \in SUBSET S : T \in Good
  BY <1>1, SubsetInduction
<1> QED
  BY <1>2 DEF Good

(* p names the element of each set that is added up next; g totals f over  *)
(* the subsets of S in that order.                                         *)
Picks(p, S) == \A T \in SUBSET S : T # {} => p[T] \in T

Totals(g, f, p, S) ==
  \A T \in SUBSET S : g[T] = IF T = {} THEN 0 ELSE f[p[T]] + g[T \ {p[T]}]

(* Two totals of f in the same order agree, of whatever sets they are      *)
(* totals besides.                                                         *)
LEMMA TotalsAgree ==
  ASSUME NEW S, NEW R \in SUBSET S, IsFiniteSet(R), NEW p, Picks(p, S), NEW f, NEW g, NEW h,
         Totals(g, f, p, S), Totals(h, f, p, R)
  PROVE  g[R] = h[R]
<1> DEFINE Good == {T \in SUBSET R : g[T] = h[T]}
<1>1. ASSUME NEW T \in SUBSET R, \A U \in SUBSET T : U # T => U \in Good
      PROVE  T \in Good
  <2>1. CASE T = {}
    BY <2>1 DEF Totals
  <2>2. CASE T # {}
    <3>1. p[T] \in T
      BY <2>2 DEF Picks
    <3>2. g[T] = f[p[T]] + g[T \ {p[T]}] /\ h[T] = f[p[T]] + h[T \ {p[T]}]
      BY <2>2 DEF Totals
    <3>3. g[T \ {p[T]}] = h[T \ {p[T]}]
      BY <1>1, <3>1
    <3> QED
      BY <3>1, <3>2, <3>3
  <2> QED
    BY <2>1, <2>2
<1> HIDE DEF Good
<1>2. \A T \in SUBSET R : T \in Good
  BY <1>1, SubsetInduction
<1> QED
  BY <1>2 DEF Good

(* A function into the integers has totals in any order.                   *)
LEMMA TotalsExist ==
  ASSUME NEW S, IsFiniteSet(S), NEW f \in [S -> Int], NEW p, Picks(p, S)
  PROVE  \E g \in [SUBSET S -> Int] : Totals(g, f, p, S)
<1> DEFINE Good == {T \in SUBSET S : \E g \in [SUBSET T -> Int] : Totals(g, f, p, T)}
<1>1. ASSUME NEW T \in SUBSET S, \A U \in SUBSET T : U # T => U \in Good
      PROVE  \E g \in [SUBSET T -> Int] : Totals(g, f, p, T)
  <2>1. \E h : \A U \in SUBSET T : U # T => h[U] \in [SUBSET U -> Int] /\ Totals(h[U], f, p, U)
    <3> WITNESS [U \in SUBSET T |-> CHOOSE g \in [SUBSET U -> Int] : Totals(g, f, p, U)]
    <3> QED
      BY <1>1
  <2>2. PICK h : \A U \in SUBSET T : U # T => h[U] \in [SUBSET U -> Int] /\ Totals(h[U], f, p, U)
    BY <2>1
  <2> DEFINE rest(U) == U \ {p[U]}
             g == [U \in SUBSET T |-> IF U = {} THEN 0 ELSE f[p[U]] + h[rest(U)][rest(U)]]
  <2>3. \A U \in SUBSET T : U # {} =>
           p[U] \in U /\ rest(U) \in SUBSET U /\ rest(U) # U /\ rest(U) # T /\ rest(U) \in SUBSET T
    BY DEF Picks
  <2>4. \A U \in SUBSET T : U # T => h[U][U] \in Int
    BY <2>2
  <2> HIDE DEF rest
  <2>5. ASSUME NEW U \in SUBSET T, U # {}
        PROVE  f[p[U]] + h[rest(U)][rest(U)] \in Int
    <3>1. f[p[U]] \in Int
      BY <2>3, <2>5
    <3>2. h[rest(U)][rest(U)] \in Int
      BY <2>3, <2>4, <2>5
    <3> QED
      BY <3>1, <3>2
  <2>6. g \in [SUBSET T -> Int]
    BY <2>5
  <2>7. ASSUME NEW U \in SUBSET T, U # T
        PROVE  g[U] = h[U][U]
    <3>0. Totals(h[U], f, p, U)
      BY <2>2, <2>7
    <3>1. CASE U = {}
      BY <3>0, <3>1 DEF Totals
    <3>2. CASE U # {}
      <4>1. h[U][U] = f[p[U]] + h[U][rest(U)]
        BY <3>0, <3>2 DEF Totals, rest
      <4>2. rest(U) \in SUBSET U /\ rest(U) \in SUBSET T /\ rest(U) # T /\ IsFiniteSet(rest(U))
        BY <2>3, <3>2, FS_Subset
      <4>3. Totals(h[rest(U)], f, p, rest(U)) /\ Picks(p, U)
        BY <2>2, <4>2 DEF Picks
      <4>4. h[U][rest(U)] = h[rest(U)][rest(U)]
        BY <3>0, <4>2, <4>3, TotalsAgree
      <4>5. g[U] = f[p[U]] + h[rest(U)][rest(U)]
        BY <3>2
      <4> QED
        BY <4>1, <4>4, <4>5
    <3> QED
      BY <3>1, <3>2
  <2>8. ASSUME NEW U \in SUBSET T, U # {}
        PROVE  g[U] = f[p[U]] + g[U \ {p[U]}]
    <3>1. g[rest(U)] = h[rest(U)][rest(U)]
      BY <2>3, <2>7, <2>8
    <3> QED
      BY <2>8, <3>1 DEF rest
  <2>9. g[{}] = 0
    OBVIOUS
  <2> HIDE DEF g
  <2>10. Totals(g, f, p, T)
    BY <2>8, <2>9 DEF Totals
  <2> QED
    BY <2>6, <2>10
<1>2. \A T \in SUBSET S : (\A U \in SUBSET T : U # T => U \in Good) => T \in Good
  BY <1>1
<1> HIDE DEF Good
<1>3. \A T \in SUBSET S : T \in Good
  BY <1>2, SubsetInduction
<1> QED
  BY <1>3 DEF Good

(* Totals do not depend on the order: any element may be taken off.        *)
TotalsAnyhow(g, f, S) == \A T \in SUBSET S : \A x \in T : g[T] = f[x] + g[T \ {x}]

LEMMA TotalsInAnyOrder ==
  ASSUME NEW S, IsFiniteSet(S), NEW f \in [S -> Int], NEW p, Picks(p, S),
         NEW g \in [SUBSET S -> Int], Totals(g, f, p, S)
  PROVE  TotalsAnyhow(g, f, S)
<1> DEFINE Good == {T \in SUBSET S : \A x \in T : g[T] = f[x] + g[T \ {x}]}
<1>0. \A U \in SUBSET S : g[U] \in Int
  OBVIOUS
<1>1. ASSUME NEW T \in SUBSET S, \A U \in SUBSET T : U # T => U \in Good
      PROVE  T \in Good
  <2> SUFFICES ASSUME NEW x \in T
               PROVE  g[T] = f[x] + g[T \ {x}]
    OBVIOUS
  <2>1. p[T] \in T /\ g[T] = f[p[T]] + g[T \ {p[T]}]
    BY DEF Totals, Picks
  <2>2. ASSUME NEW y \in T, y # x, g[T] = f[y] + g[T \ {y}]
        PROVE  g[T] = f[x] + g[T \ {x}]
    <3>1. g[T \ {y}] = f[x] + g[(T \ {y}) \ {x}]
      BY <1>1, <2>2
    <3>2. g[T \ {x}] = f[y] + g[(T \ {x}) \ {y}]
      BY <1>1, <2>2
    <3>3. (T \ {y}) \ {x} = (T \ {x}) \ {y} /\ (T \ {y}) \ {x} \in SUBSET S
      OBVIOUS
    <3>4. f[x] \in Int /\ f[y] \in Int /\ g[(T \ {y}) \ {x}] \in Int
      BY <1>0, <3>3
    <3>5. g[(T \ {y}) \ {x}] = g[(T \ {x}) \ {y}]
      BY <3>3
    <3> QED
      BY <2>2, <3>1, <3>2, <3>4, <3>5
  <2> QED
    BY <2>1, <2>2
<1> HIDE DEF Good
<1>2. \A T \in SUBSET S : T \in Good
  BY <1>1, SubsetInduction
<1> QED
  BY <1>2 DEF Good, TotalsAnyhow

AnyOf(U) == CHOOSE x \in U : TRUE
AnyPick(S) == [U \in SUBSET S |-> AnyOf(U)]

(* The order in which MapThenFoldSet takes the elements is an order.       *)
LEMMA AnyPickPicks ==
  ASSUME NEW S, NEW T \in SUBSET S
  PROVE  Picks(AnyPick(S), T) /\ \A U \in SUBSET T : AnyPick(S)[U] = AnyOf(U)
  BY DEF Picks, AnyPick, AnyOf

(* SumFunctionOnSet is a total in that order.                              *)
LEMMA SumIsTotal ==
  ASSUME NEW S, IsFiniteSet(S), NEW f \in [S -> Int], NEW g, NEW p, p = AnyPick(S),
         Totals(g, f, p, S),
         NEW T \in SUBSET S, NEW e \in [T -> Int], \A x \in T : e[x] = f[x]
  PROVE  SumFunctionOnSet(e, T) = g[T]
<1> DEFINE body(s, U) == IF U = {} THEN 0 ELSE e[AnyOf(U)] + s[U \ {AnyOf(U)}]
           IsIter(s) == s = [U \in SUBSET T |-> body(s, U)]
           iter == CHOOSE s : IsIter(s)
<1>0. IsFiniteSet(T)
  BY FS_Subset
<1>1. SumFunctionOnSet(e, T) = iter[T]
  BY DEF SumFunctionOnSet, FoldFunctionOnSet, MapThenFoldSet, AnyOf
<1>2. Picks(p, S) /\ Picks(p, T) /\ \A U \in SUBSET T : p[U] = AnyOf(U)
  BY AnyPickPicks
<1>3. \E h : IsIter(h)
  <2>1. PICK h \in [SUBSET T -> Int] : Totals(h, e, p, T)
    BY <1>0, <1>2, TotalsExist
  <2>2. \A U \in SUBSET T : h[U] = body(h, U)
    BY <1>2, <2>1 DEF Totals
  <2>3. h = [U \in SUBSET T |-> h[U]]
    BY <2>1
  <2>4. h = [U \in SUBSET T |-> body(h, U)]
    <3> HIDE DEF body
    <3> QED
      BY <2>2, <2>3
  <2> QED
    BY <2>4
<1>4. IsIter(iter)
  <2> HIDE DEF IsIter
  <2> QED
    BY <1>3
<1>5. Totals(iter, e, p, T)
  <2>1. \A U \in SUBSET T : iter[U] = body(iter, U)
    <3> HIDE DEF body, iter
    <3> QED
      BY <1>4
  <2> HIDE DEF iter
  <2> QED
    BY <1>2, <2>1 DEF Totals
<1>6. Totals(iter, f, p, T)
  <2> HIDE DEF iter
  <2>1. \A U \in SUBSET T : U # {} => p[U] \in T
    BY <1>2 DEF Picks
  <2> QED
    BY <1>5, <2>1 DEF Totals
<1>7. g[T] = iter[T]
  <2> HIDE DEF iter
  <2> QED
    BY <1>0, <1>2, <1>6, TotalsAgree
<1> QED
  BY <1>1, <1>7

(* A sum of integers is an integer.                                        *)
LEMMA SumIsInt ==
  ASSUME NEW S, IsFiniteSet(S), NEW f \in [S -> Int]
  PROVE  SumFunctionOnSet(f, S) \in Int
<1> DEFINE p == AnyPick(S)
<1>1. Picks(p, S)
  BY AnyPickPicks
<1> HIDE DEF p
<1>2. PICK g \in [SUBSET S -> Int] : Totals(g, f, p, S)
  BY <1>1, TotalsExist
<1>3. SumFunctionOnSet(f, S) = g[S]
  BY <1>2, SumIsTotal DEF p
<1> QED
  BY <1>3

(* A sum of differences. *)
IsDifference(f, a, b, S) == \A x \in S : f[x] = a[x] - b[x]

(* A sum of differences is the difference of the sums.                     *)
LEMMA SumOfDifferences ==
  ASSUME NEW S, IsFiniteSet(S), NEW f \in [S -> Int], NEW a \in [S -> Int], NEW b \in [S -> Int],
         IsDifference(f, a, b, S)
  PROVE  SumFunctionOnSet(f, S) = SumFunctionOnSet(a, S) - SumFunctionOnSet(b, S)
<1> DEFINE p == AnyPick(S)
<1>1. Picks(p, S)
  BY AnyPickPicks
<1> HIDE DEF p
<1>2. PICK F \in [SUBSET S -> Int] : Totals(F, f, p, S)
  BY <1>1, TotalsExist
<1>3. PICK G \in [SUBSET S -> Int] : Totals(G, a, p, S)
  BY <1>1, TotalsExist
<1>4. PICK H \in [SUBSET S -> Int] : Totals(H, b, p, S)
  BY <1>1, TotalsExist
<1>5. /\ SumFunctionOnSet(f, S) = F[S]
      /\ SumFunctionOnSet(a, S) = G[S]
      /\ SumFunctionOnSet(b, S) = H[S]
  BY <1>2, <1>3, <1>4, SumIsTotal DEF p
<1> DEFINE Good == {T \in SUBSET S : F[T] = G[T] - H[T]}
<1>6. ASSUME NEW T \in SUBSET S, \A U \in SUBSET T : U # T => U \in Good
      PROVE  T \in Good
  <2>1. CASE T = {}
    BY <1>2, <1>3, <1>4, <2>1 DEF Totals
  <2>2. CASE T # {}
    <3> DEFINE x == p[T]
               R == T \ {x}
    <3>1. x \in T /\ x \in S /\ R \in SUBSET T /\ R # T /\ R \in SUBSET S
      BY <1>1, <2>2 DEF Picks
    <3>2. F[T] = f[x] + F[R] /\ G[T] = a[x] + G[R] /\ H[T] = b[x] + H[R]
      BY <1>2, <1>3, <1>4, <2>2 DEF Totals
    <3>3. F[R] = G[R] - H[R] /\ f[x] = a[x] - b[x]
      BY <1>6, <3>1 DEF IsDifference
    <3>4. F[R] \in Int /\ G[R] \in Int /\ H[R] \in Int /\ a[x] \in Int /\ b[x] \in Int
      BY <3>1
    <3> HIDE DEF x, R
    <3>5. F[T] = G[T] - H[T]
      BY <3>2, <3>3, <3>4
    <3> QED
      BY <3>5
  <2> QED
    BY <2>1, <2>2
<1> HIDE DEF Good
<1>7. \A T \in SUBSET S : T \in Good
  BY <1>6, SubsetInduction
<1>8. F[S] = G[S] - H[S]
  BY <1>7 DEF Good
<1> QED
  BY <1>5, <1>8

(* What is zero adds nothing. *)
LEMMA SumOfSupport ==
  ASSUME NEW S, IsFiniteSet(S), NEW A \in SUBSET S, NEW f \in [S -> Int], NEW e \in [A -> Int],
         \A x \in A : e[x] = f[x], \A x \in S \ A : f[x] = 0
  PROVE  SumFunctionOnSet(f, S) = SumFunctionOnSet(e, A)
<1> DEFINE p == AnyPick(S)
<1>1. Picks(p, S)
  BY AnyPickPicks
<1> HIDE DEF p
<1>2. PICK F \in [SUBSET S -> Int] : Totals(F, f, p, S)
  BY <1>1, TotalsExist
<1>3. SumFunctionOnSet(f, S) = F[S]
  BY <1>2, SumIsTotal DEF p
<1>4. SumFunctionOnSet(e, A) = F[A]
  BY <1>2, SumIsTotal DEF p
<1> DEFINE Good == {T \in SUBSET S : A \subseteq T => F[T] = F[A]}
<1>5. ASSUME NEW T \in SUBSET S, \A U \in SUBSET T : U # T => U \in Good, A \subseteq T
      PROVE  F[T] = F[A]
  <2>1. ASSUME NEW x \in T, x \notin A
        PROVE  F[T] = F[A]
    <3> DEFINE R == T \ {x}
    <3>0. TotalsAnyhow(F, f, S)
      BY <1>1, <1>2, TotalsInAnyOrder
    <3>1. F[T] = f[x] + F[R]
      BY <2>1, <3>0 DEF TotalsAnyhow
    <3>2. R \in SUBSET T /\ R # T /\ R \in SUBSET S /\ A \subseteq R
      BY <1>5, <2>1
    <3>3. F[R] = F[A] /\ F[R] \in Int /\ f[x] = 0
      BY <1>5, <2>1, <3>2
    <3> HIDE DEF R
    <3> QED
      BY <3>1, <3>3
  <2>2. CASE T \subseteq A
    <3>1. T = A
      BY <1>5, <2>2
    <3> QED
      BY <3>1
  <2> QED
    BY <2>1, <2>2
<1>6. \A T \in SUBSET S : (\A U \in SUBSET T : U # T => U \in Good) => T \in Good
  BY <1>5
<1> HIDE DEF Good
<1>7. \A T \in SUBSET S : T \in Good
  BY <1>6, SubsetInduction
<1>8. F[S] = F[A]
  BY <1>7 DEF Good
<1> QED
  BY <1>3, <1>4, <1>8

(* A sum with one more term. *)
LEMMA SumOneMore ==
  ASSUME NEW S, IsFiniteSet(S), NEW x \in S, NEW f \in [S -> Int],
         NEW e \in [S \ {x} -> Int], \A y \in S \ {x} : e[y] = f[y]
  PROVE  SumFunctionOnSet(f, S) = f[x] + SumFunctionOnSet(e, S \ {x})
<1> DEFINE p == AnyPick(S)
           A == S \ {x}
<1>1. A \in SUBSET S /\ S \in SUBSET S
  OBVIOUS
<1>2. Picks(p, S)
  BY AnyPickPicks
<1> HIDE DEF p
<1>3. PICK g \in [SUBSET S -> Int] : Totals(g, f, p, S)
  BY <1>2, TotalsExist
<1>4. SumFunctionOnSet(f, S) = g[S]
  BY <1>3, SumIsTotal DEF p
<1>5. SumFunctionOnSet(e, A) = g[A]
  BY <1>1, <1>3, SumIsTotal DEF p
<1>6. TotalsAnyhow(g, f, S)
  BY <1>2, <1>3, TotalsInAnyOrder
<1>7. g[S] = f[x] + g[A]
  BY <1>1, <1>6 DEF TotalsAnyhow
<1> QED
  BY <1>4, <1>5, <1>7

(* The sum of f where f is a - b on A, -c on B and zero elsewhere. *)
LEMMA SumOfParts ==
  ASSUME NEW S, IsFiniteSet(S), NEW A \in SUBSET S, NEW B \in SUBSET S, A \cap B = {},
         NEW f \in [S -> Int], NEW a \in [A -> Int], NEW b \in [A -> Int], NEW c \in [B -> Int],
         \A x \in A : f[x] = a[x] - b[x],
         \A x \in B : f[x] = -c[x],
         \A x \in S \ (A \cup B) : f[x] = 0
  PROVE  SumFunctionOnSet(f, S) = SumFunctionOnSet(a, A) - SumFunctionOnSet(b, A)
                                    - SumFunctionOnSet(c, B)
<1> DEFINE gain == [x \in S |-> IF x \in A THEN a[x] ELSE 0]
           cost == [x \in S |-> IF x \in A THEN b[x] ELSE 0]
           rest == [x \in S |-> IF x \in B THEN c[x] ELSE 0]
           most == [x \in S |-> gain[x] - cost[x]]
<1>1. /\ gain \in [S -> Int] /\ cost \in [S -> Int] /\ rest \in [S -> Int]
      /\ \A x \in A : a[x] = gain[x] /\ b[x] = cost[x]
      /\ \A x \in B : c[x] = rest[x]
      /\ \A x \in S \ A : gain[x] = 0 /\ cost[x] = 0
      /\ \A x \in S \ B : rest[x] = 0
  OBVIOUS
<1>2. \A x \in S : f[x] = (gain[x] - cost[x]) - rest[x]
  OBVIOUS
<1> HIDE DEF gain, cost, rest
<1>3. most \in [S -> Int] /\ IsDifference(most, gain, cost, S)
  BY <1>1 DEF IsDifference
<1>4. IsDifference(f, most, rest, S)
  BY <1>2 DEF IsDifference
<1> HIDE DEF most
<1>5. SumFunctionOnSet(gain, S) = SumFunctionOnSet(a, A)
  BY <1>1, SumOfSupport
<1>6. SumFunctionOnSet(cost, S) = SumFunctionOnSet(b, A)
  BY <1>1, SumOfSupport
<1>7. SumFunctionOnSet(rest, S) = SumFunctionOnSet(c, B)
  BY <1>1, SumOfSupport
<1>8. SumFunctionOnSet(most, S) = SumFunctionOnSet(gain, S) - SumFunctionOnSet(cost, S)
  BY <1>1, <1>3, SumOfDifferences
<1>9. SumFunctionOnSet(f, S) = SumFunctionOnSet(most, S) - SumFunctionOnSet(rest, S)
  BY <1>1, <1>3, <1>4, SumOfDifferences
<1> QED
  BY <1>5, <1>6, <1>7, <1>8, <1>9

(* The sums over all parts of a set, as one function. *)
SumsParts(g, f, S) ==
  /\ g[{}] = 0 /\ TotalsAnyhow(g, f, S)
  /\ \A T \in SUBSET S : SumFunctionOnSet([x \in T |-> f[x]], T) = g[T]

LEMMA PartSums ==
  ASSUME NEW S, IsFiniteSet(S), NEW f \in [S -> Int]
  PROVE  \E g \in [SUBSET S -> Int] : SumsParts(g, f, S)
<1> DEFINE p == AnyPick(S)
<1>1. Picks(p, S) /\ p = AnyPick(S)
  BY AnyPickPicks
<1> HIDE DEF p
<1>2. PICK g \in [SUBSET S -> Int] : Totals(g, f, p, S)
  BY <1>1, TotalsExist
<1>3. TotalsAnyhow(g, f, S)
  BY <1>1, <1>2, TotalsInAnyOrder
<1>4. g[{}] = 0
  BY <1>2 DEF Totals
<1>5. ASSUME NEW T \in SUBSET S PROVE SumFunctionOnSet([x \in T |-> f[x]], T) = g[T]
  <2> DEFINE e == [x \in T |-> f[x]]
  <2>1. e \in [T -> Int] /\ \A x \in T : e[x] = f[x]
    OBVIOUS
  <2> HIDE DEF e
  <2>2. SumFunctionOnSet(e, T) = g[T]
    BY <1>1, <1>2, <2>1, SumIsTotal
  <2> QED
    BY <2>2 DEF e
<1> QED
  BY <1>2, <1>3, <1>4, <1>5 DEF SumsParts

(* What is left out adds nothing. *)
LEMMA SumWithin ==
  ASSUME NEW P, IsFiniteSet(P), NEW Q, NEW v, \A i \in P \cap Q : v[i] \in Int
  PROVE  SumFunctionOnSet([i \in P |-> IF i \in Q THEN v[i] ELSE 0], P)
           = SumFunctionOnSet([i \in P \cap Q |-> v[i]], P \cap Q)
<1> DEFINE A == P \cap Q
           f == [i \in P |-> IF i \in Q THEN v[i] ELSE 0]
           e == [i \in A |-> v[i]]
<1>1. f \in [P -> Int] /\ A \in SUBSET P /\ e \in [A -> Int]
  OBVIOUS
<1>2. \A i \in A : e[i] = f[i]
  OBVIOUS
<1>3. \A i \in P \ A : f[i] = 0
  OBVIOUS
<1> HIDE DEF f, e, A
<1>4. SumFunctionOnSet(f, P) = SumFunctionOnSet(e, A)
  BY <1>1, <1>2, <1>3, SumOfSupport
<1> QED
  BY <1>4 DEF f, e, A

(* All of them as one function that adds up. *)
AddsUp(g, S) == \A A, B \in SUBSET S : A \cap B = {} => g[A \cup B] = g[A] + g[B]

LEMMA PartSumsAdd ==
  ASSUME NEW S, IsFiniteSet(S), NEW f \in [S -> Int]
  PROVE  \E g \in [SUBSET S -> Int] : SumsParts(g, f, S) /\ AddsUp(g, S)
<1>1. PICK g \in [SUBSET S -> Int] : SumsParts(g, f, S)
  BY PartSums
<1>2. ASSUME NEW A \in SUBSET S, NEW B \in SUBSET S, A \cap B = {} PROVE g[A \cup B] = g[A] + g[B]
  <2> DEFINE Good == {T \in SUBSET B : g[A \cup T] = g[A] + g[T]}
  <2>0. IsFiniteSet(B)
    BY FS_Subset
  <2>1. ASSUME NEW T \in SUBSET B, \A U \in SUBSET T : U # T => U \in Good
        PROVE  T \in Good
    <3>1. CASE T = {}
      <4>1. A \cup T = A /\ g[A] \in Int
        BY <3>1
      <4> QED
        BY <1>1, <3>1, <4>1 DEF SumsParts
    <3>2. CASE T # {}
      <4>1. PICK x \in T : TRUE
        BY <3>2
      <4> DEFINE U == T \ {x}
      <4>2. U \in SUBSET T /\ U # T /\ U \in SUBSET S /\ T \in SUBSET S /\ x \in S /\ A \cup T \in SUBSET S
        BY <4>1
      <4>3. (A \cup T) \ {x} = A \cup U /\ x \in A \cup T
        BY <1>2, <4>1
      <4> HIDE DEF U
      <4>4. g[A \cup U] = g[A] + g[U]
        BY <2>1, <4>2
      <4>5. g[A \cup T] = f[x] + g[A \cup U] /\ g[T] = f[x] + g[U]
        <5>1. \A V \in SUBSET S : \A y \in V : g[V] = f[y] + g[V \ {y}]
          BY <1>1 DEF SumsParts, TotalsAnyhow
        <5>2. g[T] = f[x] + g[U]
          BY <4>1, <4>2, <5>1 DEF U
        <5>3. g[A \cup T] = f[x] + g[(A \cup T) \ {x}]
          BY <4>2, <4>3, <5>1
        <5> QED
          BY <4>3, <5>2, <5>3
      <4>6. g[A] \in Int /\ g[U] \in Int /\ f[x] \in Int
        BY <4>2
      <4> QED
        BY <4>4, <4>5, <4>6
    <3> QED
      BY <3>1, <3>2
  <2> HIDE DEF Good
  <2>2. \A T \in SUBSET B : T \in Good
    BY <2>0, <2>1, SubsetInduction
  <2> QED
    BY <2>2 DEF Good
<1> QED
  BY <1>1, <1>2 DEF AddsUp

(* No sum is further from zero than its terms together. *)
LEMMA SumOfMagnitudes ==
  ASSUME NEW S, IsFiniteSet(S), NEW f \in [S -> Int], NEW m \in [S -> Int],
         \A x \in S : m[x] >= f[x] /\ m[x] >= -f[x]
  PROVE  /\ SumFunctionOnSet(m, S) >= SumFunctionOnSet(f, S)
         /\ SumFunctionOnSet(m, S) >= -SumFunctionOnSet(f, S)
<1>1. PICK g \in [SUBSET S -> Int] : SumsParts(g, f, S)
  BY PartSums
<1>2. PICK h \in [SUBSET S -> Int] : SumsParts(h, m, S)
  BY PartSums
<1> DEFINE Good == {T \in SUBSET S : h[T] >= g[T] /\ h[T] >= -g[T]}
<1>3. ASSUME NEW T \in SUBSET S, \A U \in SUBSET T : U # T => U \in Good
      PROVE  T \in Good
  <2>1. CASE T = {}
    BY <1>1, <1>2, <2>1 DEF SumsParts
  <2>2. CASE T # {}
    <3>1. PICK x \in T : TRUE
      BY <2>2
    <3> DEFINE U == T \ {x}
    <3>2. U \in SUBSET T /\ U # T /\ U \in SUBSET S /\ x \in S
      BY <3>1
    <3>3. g[T] = f[x] + g[U] /\ h[T] = m[x] + h[U]
      BY <1>1, <1>2, <3>1 DEF SumsParts, TotalsAnyhow
    <3> HIDE DEF U
    <3>4. h[U] >= g[U] /\ h[U] >= -g[U]
      BY <1>3, <3>2
    <3>5. g[U] \in Int /\ h[U] \in Int /\ f[x] \in Int /\ m[x] \in Int
      BY <3>2
    <3> QED
      BY <3>2, <3>3, <3>4, <3>5
  <2> QED
    BY <2>1, <2>2
<1> HIDE DEF Good
<1>4. \A T \in SUBSET S : T \in Good
  BY <1>3, SubsetInduction
<1>5. S \in Good
  BY <1>4
<1>6. SumFunctionOnSet(f, S) = g[S] /\ SumFunctionOnSet(m, S) = h[S]
  <2>1. f = [x \in S |-> f[x]] /\ m = [x \in S |-> m[x]] /\ S \in SUBSET S
    OBVIOUS
  <2> QED
    BY <1>1, <1>2, <2>1 DEF SumsParts
<1> QED
  BY <1>5, <1>6 DEF Good

(* There are as many as ones. *)
LEMMA CardinalityIsSum ==
  ASSUME NEW S, IsFiniteSet(S)
  PROVE  SumFunctionOnSet([x \in S |-> 1], S) = Cardinality(S)
<1> DEFINE f == [x \in S |-> 1]
<1>1. f \in [S -> Int] /\ \A x \in S : f[x] = 1
  OBVIOUS
<1> HIDE DEF f
<1>2. PICK g \in [SUBSET S -> Int] : SumsParts(g, f, S)
  BY <1>1, PartSums
<1> DEFINE Good == {T \in SUBSET S : g[T] = Cardinality(T)}
<1>3. ASSUME NEW T \in SUBSET S, \A U \in SUBSET T : U # T => U \in Good
      PROVE  T \in Good
  <2>1. CASE T = {}
    BY <1>2, <2>1, FS_EmptySet DEF SumsParts
  <2>2. CASE T # {}
    <3>1. PICK x \in T : TRUE
      BY <2>2
    <3> DEFINE U == T \ {x}
    <3>2. U \in SUBSET T /\ U # T /\ U \in SUBSET S /\ x \in S
      BY <3>1
    <3>3. g[T] = f[x] + g[U]
      BY <1>2, <3>1 DEF SumsParts, TotalsAnyhow
    <3>4. IsFiniteSet(T)
      BY FS_Subset
    <3>5. Cardinality(U) = Cardinality(T) - 1 /\ Cardinality(T) \in Nat
      BY <3>1, <3>4, FS_RemoveElement, FS_CardinalityType
    <3> HIDE DEF U
    <3>6. g[U] = Cardinality(U)
      BY <1>3, <3>2
    <3> QED
      BY <1>1, <3>2, <3>3, <3>5, <3>6
  <2> QED
    BY <2>1, <2>2
<1> HIDE DEF Good
<1>4. \A T \in SUBSET S : T \in Good
  BY <1>3, SubsetInduction
<1>5. S \in Good
  BY <1>4
<1>6. SumFunctionOnSet(f, S) = g[S]
  <2>1. f = [x \in S |-> f[x]] /\ S \in SUBSET S
    BY <1>1
  <2> QED
    BY <1>2, <2>1 DEF SumsParts
<1> QED
  BY <1>5, <1>6 DEF Good, f

-----------------------------------------------------------------------------
(* Sequences as runs of folds. *)

(* Induction from 0 to n, with a set in the place of a predicate. *)
LEMMA CountUp ==
  ASSUME NEW n \in Nat, NEW Good, 0 \in Good, \A i \in 1..n : i - 1 \in Good => i \in Good
  PROVE  \A i \in 0..n : i \in Good
<1> DEFINE before == {x \in (0..n) \X (0..n) : x[1] <= x[2]}
           Bad == (0..n) \ Good
<1>1. IsFiniteSet(0..n)
  BY FS_Interval
<1>2. LinearOn(before, 0..n)
  BY DEF LinearOn
<1>3. SUFFICES ASSUME Bad # {} PROVE FALSE
  OBVIOUS
<1>4. PICK i \in Bad : \A j \in Bad : <<i, j>> \in before
  <2>1. Bad \in SUBSET (0..n)
    OBVIOUS
  <2> HIDE DEF before, Bad
  <2> QED
    BY <1>1, <1>2, <1>3, <2>1, FirstExists
<1>5. i \in 1..n /\ i - 1 \in 0..n
  BY <1>4
<1>6. i - 1 \notin Bad
  <2>1. <<i, i - 1>> \notin before
    BY <1>5
  <2> HIDE DEF before, Bad
  <2> QED
    BY <1>4, <2>1
<1> QED
  BY <1>4, <1>5, <1>6

-----------------------------------------------------------------------------
(* Folds, as MapThenFoldSet computes them: g is a fold over S that starts  *)
(* from base, takes off the element p[T] of T and then makes step[p[T]].   *)
Folds(g, base, step, p, S) ==
  \A T \in SUBSET S : g[T] = IF T = {} THEN base ELSE step[p[T]][g[T \ {p[T]}]]

(* Two folds agree, over whatever sets they are folds besides.             *)
LEMMA FoldsAgree ==
  ASSUME NEW S, NEW R \in SUBSET S, IsFiniteSet(R), NEW p, Picks(p, S), NEW base, NEW step, NEW g, NEW h,
         Folds(g, base, step, p, S), Folds(h, base, step, p, R)
  PROVE  g[R] = h[R]
<1> DEFINE Good == {T \in SUBSET R : g[T] = h[T]}
<1>1. ASSUME NEW T \in SUBSET R, \A U \in SUBSET T : U # T => U \in Good
      PROVE  T \in Good
  <2>1. CASE T = {}
    BY <2>1 DEF Folds
  <2>2. CASE T # {}
    <3>1. p[T] \in T
      BY <2>2 DEF Picks
    <3>2. g[T] = step[p[T]][g[T \ {p[T]}]] /\ h[T] = step[p[T]][h[T \ {p[T]}]]
      BY <2>2 DEF Folds
    <3>3. g[T \ {p[T]}] = h[T \ {p[T]}]
      BY <1>1, <3>1
    <3> QED
      BY <3>1, <3>2, <3>3
  <2> QED
    BY <2>1, <2>2
<1> HIDE DEF Good
<1>2. \A T \in SUBSET R : T \in Good
  BY <1>1, SubsetInduction
<1> QED
  BY <1>2 DEF Good

(* There is a fold of steps within a set, in any order.                    *)
LEMMA FoldsExist ==
  ASSUME NEW S, IsFiniteSet(S), NEW V, NEW base \in V, NEW step \in [S -> [V -> V]], NEW p, Picks(p, S)
  PROVE  \E g \in [SUBSET S -> V] : Folds(g, base, step, p, S)
<1> DEFINE Good == {T \in SUBSET S : \E g \in [SUBSET T -> V] : Folds(g, base, step, p, T)}
<1>1. ASSUME NEW T \in SUBSET S, \A U \in SUBSET T : U # T => U \in Good
      PROVE  \E g \in [SUBSET T -> V] : Folds(g, base, step, p, T)
  <2>1. \E h : \A U \in SUBSET T : U # T => h[U] \in [SUBSET U -> V] /\ Folds(h[U], base, step, p, U)
    <3> WITNESS [U \in SUBSET T |-> CHOOSE g \in [SUBSET U -> V] : Folds(g, base, step, p, U)]
    <3> QED
      BY <1>1
  <2>2. PICK h : \A U \in SUBSET T : U # T => h[U] \in [SUBSET U -> V] /\ Folds(h[U], base, step, p, U)
    BY <2>1
  <2> DEFINE rest(U) == U \ {p[U]}
             g == [U \in SUBSET T |-> IF U = {} THEN base ELSE step[p[U]][h[rest(U)][rest(U)]]]
  <2>3. \A U \in SUBSET T : U # {} =>
           p[U] \in U /\ rest(U) \in SUBSET U /\ rest(U) # U /\ rest(U) # T /\ rest(U) \in SUBSET T
    BY DEF Picks
  <2>4. \A U \in SUBSET T : U # T => h[U][U] \in V
    <3> SUFFICES ASSUME NEW U \in SUBSET T, U # T PROVE h[U][U] \in V
      OBVIOUS
    <3>1. h[U] \in [SUBSET U -> V] /\ U \in SUBSET U
      BY <2>2
    <3> QED
      BY <3>1
  <2> HIDE DEF rest
  <2>5. ASSUME NEW U \in SUBSET T, U # {}
        PROVE  step[p[U]][h[rest(U)][rest(U)]] \in V
    <3>1. step[p[U]] \in [V -> V]
      BY <2>3, <2>5
    <3>2. h[rest(U)][rest(U)] \in V
      BY <2>3, <2>4, <2>5
    <3> QED
      BY <3>1, <3>2
  <2>6. g \in [SUBSET T -> V]
    BY <2>5
  <2>7. ASSUME NEW U \in SUBSET T, U # T
        PROVE  g[U] = h[U][U]
    <3>0. Folds(h[U], base, step, p, U)
      BY <2>2, <2>7
    <3>1. CASE U = {}
      BY <3>0, <3>1 DEF Folds
    <3>2. CASE U # {}
      <4>1. h[U][U] = step[p[U]][h[U][rest(U)]]
        BY <3>0, <3>2 DEF Folds, rest
      <4>2. rest(U) \in SUBSET U /\ rest(U) \in SUBSET T /\ rest(U) # T /\ IsFiniteSet(rest(U))
        BY <2>3, <3>2, FS_Subset
      <4>3. Folds(h[rest(U)], base, step, p, rest(U)) /\ Picks(p, U)
        BY <2>2, <4>2 DEF Picks
      <4>4. h[U][rest(U)] = h[rest(U)][rest(U)]
        BY <3>0, <4>2, <4>3, FoldsAgree
      <4>5. g[U] = step[p[U]][h[rest(U)][rest(U)]]
        BY <3>2
      <4> QED
        BY <4>1, <4>4, <4>5
    <3> QED
      BY <3>1, <3>2
  <2>8. ASSUME NEW U \in SUBSET T, U # {}
        PROVE  g[U] = step[p[U]][g[U \ {p[U]}]]
    <3>1. g[rest(U)] = h[rest(U)][rest(U)]
      BY <2>3, <2>7, <2>8
    <3> QED
      BY <2>8, <3>1 DEF rest
  <2>9. g[{}] = base
    OBVIOUS
  <2> HIDE DEF g
  <2>10. Folds(g, base, step, p, T)
    BY <2>8, <2>9 DEF Folds
  <2> QED
    BY <2>6, <2>10
<1>2. \A T \in SUBSET S : (\A U \in SUBSET T : U # T => U \in Good) => T \in Good
  BY <1>1
<1> HIDE DEF Good
<1>3. \A T \in SUBSET S : T \in Good
  BY <1>2, SubsetInduction
<1> QED
  BY <1>3 DEF Good

(* The last of what is left, which FoldLeft takes off.                     *)
LEMMA MaxOfPlaces ==
  ASSUME NEW n \in Nat, NEW T \in SUBSET (1..n), T # {}
  PROVE  Max(T) \in T /\ \A i \in T : i <= Max(T)
<1> DEFINE before == {x \in (1..n) \X (1..n) : x[1] >= x[2]}
<1>1. IsFiniteSet(1..n)
  BY FS_Interval
<1>2. LinearOn(before, 1..n)
  BY DEF LinearOn
<1>3. PICK m \in T : \A j \in T : <<m, j>> \in before
  <2> HIDE DEF before
  <2> QED
    BY <1>1, <1>2, FirstExists
<1>4. \E x \in T : \A y \in T : x >= y
  <2>1. \A y \in T : m >= y
    BY <1>3
  <2> QED
    BY <2>1
<1>5. Max(T) \in T /\ \A y \in T : Max(T) >= y
  BY <1>4 DEF Max
<1> QED
  BY <1>5

(* The last of the first places is the last of them. *)
LEMMA MaxOfPrefix ==
  ASSUME NEW n \in Nat, NEW i \in 1..n
  PROVE  Max(1..i) = i /\ (1..i) \ {Max(1..i)} = 1..i - 1
<1>1. (1..i) \in SUBSET (1..n) /\ (1..i) # {}
  OBVIOUS
<1>2. Max(1..i) \in 1..i /\ \A j \in 1..i : j <= Max(1..i)
  BY <1>1, MaxOfPlaces
<1>3. Max(1..i) = i
  BY <1>2
<1> QED
  BY <1>3

(* Folding to the left over n places: there is a fold.                     *)
FoldsLeft(g, base, step, n, V) ==
  \A T \in SUBSET (1..n) :
    /\ T = {} => g[T] = base
    /\ T # {} => /\ Max(T) \in 1..n /\ g[T \ {Max(T)}] \in V
                 /\ g[T] = step[Max(T)][g[T \ {Max(T)}]]

(* A fold over the places of a sequence takes its steps from the left. *)
LEMMA LeftFolds ==
  ASSUME NEW n, n \in Nat, NEW V, NEW base, base \in V, NEW step, step \in [1..n -> [V -> V]]
  PROVE  \E g \in [SUBSET (1..n) -> V] : FoldsLeft(g, base, step, n, V)
<1> DEFINE p == [T \in SUBSET (1..n) |-> Max(T)]
<1>1. \A T \in SUBSET (1..n) : p[T] = Max(T)
  OBVIOUS
<1>2. Picks(p, 1..n)
  BY <1>1, MaxOfPlaces DEF Picks
<1>3. IsFiniteSet(1..n)
  BY FS_Interval
<1> HIDE DEF p
<1>4. PICK g \in [SUBSET (1..n) -> V] : Folds(g, base, step, p, 1..n)
  BY <1>2, <1>3, FoldsExist
<1>5. ASSUME NEW T \in SUBSET (1..n), T # {}
      PROVE  /\ Max(T) \in 1..n /\ g[T \ {Max(T)}] \in V
             /\ g[T] = step[Max(T)][g[T \ {Max(T)}]]
  <2>1. Max(T) \in T
    BY <1>5, MaxOfPlaces
  <2>2. T \ {Max(T)} \in SUBSET (1..n)
    OBVIOUS
  <2>3. g[T] = step[Max(T)][g[T \ {Max(T)}]]
    BY <1>1, <1>4, <1>5 DEF Folds
  <2> QED
    BY <2>1, <2>2, <2>3
<1>6. \A T \in SUBSET (1..n) : T = {} => g[T] = base
  BY <1>4 DEF Folds
<1> QED
  BY <1>5, <1>6 DEF FoldsLeft

(* What a fold comes to place by place, whatever fold is taken.            *)
StepsBy(run, base, step, n, last) ==
  /\ run[0] = base /\ run[n] = last
  /\ \A i \in 1..n : run[i] = step[i][run[i - 1]]

Iterates(iter, base, step, n, V) ==
  \A T \in SUBSET (1..n) :
    /\ T = {} => iter[T] = base
    /\ T # {} /\ iter[T \ {Max(T)}] \in V => iter[T] = step[Max(T)][iter[T \ {Max(T)}]]

(* Whatever solves the fold's recursion does what the steps do, one by one.*)
LEMMA LeftRuns ==
  ASSUME NEW n, n \in Nat, NEW V, NEW base, base \in V, NEW step, step \in [1..n -> [V -> V]], NEW iter, Iterates(iter, base, step, n, V)
  PROVE  \E run \in [0..n -> V] : StepsBy(run, base, step, n, iter[1..n])
<1> DEFINE run == [i \in 0..n |-> iter[1..i]]
           Good == {i \in 0..n : run[i] \in V}
<1>1. 0 \in 0..n /\ n \in 0..n /\ 1..0 = {} /\ \A i \in 1..n : i \in 0..n /\ i - 1 \in 0..n
  OBVIOUS
<1>2. run[0] = base /\ run[n] = iter[1..n]
  BY <1>1 DEF Iterates
<1>3. ASSUME NEW i \in 1..n, run[i - 1] \in V
      PROVE  run[i] = step[i][run[i - 1]] /\ run[i] \in V
  <2>1. Max(1..i) = i /\ (1..i) \ {Max(1..i)} = 1..i - 1
    BY MaxOfPrefix
  <2>2. (1..i) \in SUBSET (1..n) /\ i \in 1..i
    OBVIOUS
  <2>3. run[i] = iter[1..i] /\ run[i - 1] = iter[1..i - 1]
    BY <1>1
  <2> HIDE DEF run
  <2>4. iter[(1..i) \ {Max(1..i)}] \in V
    BY <1>3, <2>1, <2>3
  <2>5. iter[1..i] = step[Max(1..i)][iter[(1..i) \ {Max(1..i)}]]
    BY <2>2, <2>4 DEF Iterates
  <2>6. step[i] \in [V -> V]
    OBVIOUS
  <2> QED
    BY <1>3, <2>1, <2>3, <2>5, <2>6
<1> HIDE DEF run
<1>4. 0 \in Good
  BY <1>1, <1>2
<1>5. \A i \in 1..n : i - 1 \in Good => i \in Good
  BY <1>1, <1>3
<1> HIDE DEF Good
<1>6. \A i \in 0..n : i \in Good
  BY <1>4, <1>5, CountUp
<1>7. \A i \in 0..n : run[i] \in V
  BY <1>6 DEF Good
<1>8. run \in [0..n -> V]
  BY <1>7 DEF run
<1>9. StepsBy(run, base, step, n, iter[1..n])
  BY <1>1, <1>2, <1>3, <1>7 DEF StepsBy
<1> QED
  BY <1>8, <1>9

-----------------------------------------------------------------------------
(* Where, place by place. *)
WhereSteps(run, s, places) ==
  /\ run[0] = <<>> /\ run[Len(s)] = Where(s, places)
  /\ \A i \in 1..Len(s) : run[i] = IF i \in places THEN Append(run[i - 1], s[i]) ELSE run[i - 1]

(* Where passes over a sequence once and appends what is wanted. *)
LEMMA WhereRuns ==
  ASSUME NEW A, NEW s, s \in Seq(A), NEW places
  PROVE  \E run \in [0..Len(s) -> Seq(A)] : WhereSteps(run, s, places)
<1> DEFINE n == Len(s)
           V == Seq(A)
           IsIter(h) == h = [T \in SUBSET (1..n) |->
             IF T = {} THEN <<>>
             ELSE IF [i \in 1..n |-> i][Max(T)] \in places
                  THEN Append(h[T \ {Max(T)}], s[[i \in 1..n |-> i][Max(T)]])
                  ELSE h[T \ {Max(T)}]]
           iter == CHOOSE h : IsIter(h)
           base == <<>>
           step == [i \in 1..n |-> [v \in V |-> IF i \in places THEN Append(v, s[i]) ELSE v]]
<1>0. n \in Nat /\ DOMAIN s = 1..n
  OBVIOUS
<1>a. base \in V
  OBVIOUS
<1>b. \A i \in 1..n : s[i] \in A
  OBVIOUS
<1>1. Where(s, places) = iter[1..n]
  <2>1. DOMAIN [i \in 1..n |-> i] = 1..n
    OBVIOUS
  <2> QED
    BY <1>0, <2>1 DEF Where, FoldLeftDomain, FoldLeft, MapThenFoldSet
<1> HIDE DEF n
<1>2. step \in [1..n -> [V -> V]]
  BY <1>b
<1>3. \E h : IsIter(h)
  <2>1. PICK g \in [SUBSET (1..n) -> V] : FoldsLeft(g, base, step, n, V)
    <3> HIDE DEF step, V, base
    <3> QED
      BY <1>0, <1>a, <1>2, LeftFolds
  <2>2. ASSUME NEW T \in SUBSET (1..n), T # {}
        PROVE  g[T] = IF [i \in 1..n |-> i][Max(T)] \in places
                        THEN Append(g[T \ {Max(T)}], s[[i \in 1..n |-> i][Max(T)]])
                        ELSE g[T \ {Max(T)}]
    BY <2>1, <2>2 DEF FoldsLeft
  <2>3. g = [T \in SUBSET (1..n) |-> g[T]]
    BY <2>1
  <2>4. IsIter(g)
    BY <2>1, <2>2, <2>3 DEF FoldsLeft
  <2> QED
    BY <2>4
<1>4. IsIter(iter)
  <2> HIDE DEF IsIter
  <2> QED
    BY <1>3
<1>5. iter[{}] = base
  <2> HIDE DEF iter
  <2> QED
    BY <1>4
<1>6. ASSUME NEW T \in SUBSET (1..n), T # {}, iter[T \ {Max(T)}] \in V
      PROVE  iter[T] = step[Max(T)][iter[T \ {Max(T)}]]
  <2>1. Max(T) \in 1..n
    BY <1>0, <1>6, MaxOfPlaces
  <2> HIDE DEF iter
  <2>2. iter[T] = IF [i \in 1..n |-> i][Max(T)] \in places
                    THEN Append(iter[T \ {Max(T)}], s[[i \in 1..n |-> i][Max(T)]])
                    ELSE iter[T \ {Max(T)}]
    BY <1>4, <1>6
  <2>3. [i \in 1..n |-> i][Max(T)] = Max(T)
    BY <2>1
  <2> HIDE DEF V
  <2> QED
    BY <1>6, <2>1, <2>2, <2>3
<1>c. Iterates(iter, base, step, n, V)
  <2> HIDE DEF iter, step, V, base
  <2> QED
    BY <1>5, <1>6 DEF Iterates
<1>7. PICK run \in [0..n -> V] : StepsBy(run, base, step, n, iter[1..n])
  <2> HIDE DEF iter, step, V, base
  <2> QED
    BY <1>0, <1>a, <1>2, <1>c, LeftRuns
<1>8. ASSUME NEW i \in 1..n
      PROVE  run[i] = IF i \in places THEN Append(run[i - 1], s[i]) ELSE run[i - 1]
  <2>1. i - 1 \in 0..n
    BY <1>0
  <2>2. run[i - 1] \in V
    <3> HIDE DEF V
    <3> QED
      BY <1>7, <2>1
  <2> HIDE DEF V
  <2> QED
    BY <1>7, <2>2 DEF StepsBy
<1>9. run[0] = <<>> /\ run[n] = iter[1..n]
  BY <1>7 DEF StepsBy
<1> HIDE DEF iter
<1> QED
  BY <1>1, <1>7, <1>8, <1>9 DEF n, WhereSteps

(* One more element. *)
LEMMA ElementsAppended ==
  ASSUME NEW A, NEW s \in Seq(A), NEW x \in A
  PROVE  /\ Append(s, x) \in Seq(A) /\ Len(Append(s, x)) = Len(s) + 1
         /\ ToSet(Append(s, x)) = ToSet(s) \cup {x}
         /\ IsInjective(s) /\ x \notin ToSet(s) => IsInjective(Append(s, x))
<1> DEFINE t == Append(s, x)
           n == Len(s)
<1>1. t \in Seq(A) /\ Len(t) = n + 1 /\ DOMAIN t = 1..(n + 1) /\ DOMAIN s = 1..n /\ n \in Nat
  OBVIOUS
<1>2. t[n + 1] = x /\ \A i \in 1..n : t[i] = s[i]
  OBVIOUS
<1> HIDE DEF t, n
<1>3. ToSet(t) = ToSet(s) \cup {x}
  <2>1. ASSUME NEW y \in ToSet(t) PROVE y \in ToSet(s) \cup {x}
    <3>1. PICK i \in 1..(n + 1) : y = t[i]
      BY <1>1, <2>1 DEF ToSet
    <3>2. i \in 1..n \/ i = n + 1
      BY <1>1
    <3> QED
      BY <1>1, <1>2, <3>1, <3>2 DEF ToSet
  <2>2. ASSUME NEW y \in ToSet(s) PROVE y \in ToSet(t)
    <3>1. PICK i \in 1..n : y = s[i]
      BY <1>1, <2>2 DEF ToSet
    <3>2. i \in 1..(n + 1)
      BY <1>1
    <3> QED
      BY <1>1, <1>2, <3>1, <3>2 DEF ToSet
  <2>3. x \in ToSet(t)
    <3>1. n + 1 \in 1..(n + 1)
      BY <1>1
    <3> QED
      BY <1>1, <1>2, <3>1 DEF ToSet
  <2> QED
    BY <2>1, <2>2, <2>3
<1>4. ASSUME IsInjective(s), x \notin ToSet(s)
      PROVE  IsInjective(t)
  <2>1. \A i, j \in 1..n : s[i] = s[j] => i = j
    BY <1>1, <1>4 DEF IsInjective
  <2>2. \A i \in 1..n : s[i] # x
    BY <1>1, <1>4 DEF ToSet
  <2>3. ASSUME NEW i \in 1..(n + 1), NEW j \in 1..(n + 1), t[i] = t[j] PROVE i = j
    <3>1. (i \in 1..n \/ i = n + 1) /\ (j \in 1..n \/ j = n + 1)
      BY <1>1
    <3> QED
      BY <1>2, <2>1, <2>2, <2>3, <3>1
  <2> QED
    BY <1>1, <2>3 DEF IsInjective
<1> QED
  BY <1>1, <1>3, <1>4 DEF t, n

(* What is where, each element once if it was there once. *)
LEMMA WhereElements ==
  ASSUME NEW A, NEW s \in Seq(A), NEW places
  PROVE  /\ Where(s, places) \in Seq(A)
         /\ ToSet(Where(s, places)) = {s[i] : i \in places \cap (1..Len(s))}
         /\ IsInjective(s) => IsInjective(Where(s, places))
<1> DEFINE n == Len(s)
           in(i) == {s[j] : j \in places \cap (1..i)}
<1>0. PICK run \in [0..n -> Seq(A)] : WhereSteps(run, s, places)
  BY WhereRuns
<1>1. /\ run \in [0..n -> Seq(A)] /\ run[0] = <<>> /\ run[n] = Where(s, places)
      /\ \A i \in 1..n : run[i] = IF i \in places THEN Append(run[i - 1], s[i]) ELSE run[i - 1]
  BY <1>0 DEF WhereSteps
<1>2. n \in Nat /\ DOMAIN s = 1..n
  OBVIOUS
<1>3. \A i \in 1..n : s[i] \in A
  OBVIOUS
<1> HIDE DEF n
<1>4. \A i \in 1..n : i - 1 \in 0..n /\ i \in 0..n /\ 1..i = (1..(i - 1)) \cup {i}
  BY <1>2
<1>5. ToSet(<<>>) = {} /\ in(0) = {} /\ IsInjective(<<>>)
  BY DEF ToSet, IsInjective
<1> DEFINE Good == {i \in 0..n : ToSet(run[i]) = in(i) /\ (IsInjective(s) => IsInjective(run[i]))}
<1>6. 0 \in Good
  BY <1>1, <1>2, <1>5
<1>7. ASSUME NEW i \in 1..n, i - 1 \in Good
      PROVE  i \in Good
  <2>1. ToSet(run[i - 1]) = in(i - 1) /\ (IsInjective(s) => IsInjective(run[i - 1])) /\ run[i - 1] \in Seq(A)
    BY <1>1, <1>4, <1>7
  <2>2. CASE i \in places
    <3>1. run[i] = Append(run[i - 1], s[i]) /\ s[i] \in A
      BY <1>1, <1>3, <2>2
    <3>2. in(i) = in(i - 1) \cup {s[i]}
      BY <1>4, <2>2
    <3>3. IsInjective(s) => s[i] \notin in(i - 1)
      <4>1. SUFFICES ASSUME IsInjective(s), NEW j \in 1..(i - 1), s[i] = s[j] PROVE FALSE
        OBVIOUS
      <4>2. i \in DOMAIN s /\ j \in DOMAIN s /\ i # j
        BY <1>2
      <4> QED
        BY <4>1, <4>2 DEF IsInjective
    <3> HIDE DEF in
    <3>4. ToSet(run[i]) = ToSet(run[i - 1]) \cup {s[i]}
      BY <2>1, <3>1, ElementsAppended
    <3>5. IsInjective(s) => IsInjective(run[i])
      BY <2>1, <3>1, <3>3, ElementsAppended
    <3> QED
      BY <1>4, <2>1, <3>2, <3>4, <3>5
  <2>3. CASE i \notin places
    <3>1. run[i] = run[i - 1] /\ in(i) = in(i - 1)
      BY <1>1, <1>4, <2>3
    <3> QED
      BY <1>4, <2>1, <3>1
  <2> QED
    BY <2>2, <2>3
<1> HIDE DEF Good
<1>8. \A i \in 0..n : i \in Good
  BY <1>2, <1>6, <1>7, CountUp
<1>9. n \in 0..n
  BY <1>2
<1>10. n \in Good /\ run[n] \in Seq(A)
  BY <1>1, <1>8, <1>9
<1> QED
  BY <1>1, <1>10 DEF Good, n

-----------------------------------------------------------------------------
(* Sorting. *)
SortedBy(s, before) == \A i, j \in DOMAIN s : i < j => <<s[i], s[j]>> \in before

StrictOrderOn(before, A) ==
  /\ \A x, y \in A : <<x, y>> \in before => <<y, x>> \notin before
  /\ \A x, y, z \in A : <<x, y>> \in before /\ <<y, z>> \in before => <<x, z>> \in before

(* There is one way to sort. *)
LEMMA SortedOnce ==
  ASSUME NEW A, NEW before, StrictOrderOn(before, A), NEW s \in Seq(A), NEW t \in Seq(A),
         SortedBy(s, before), SortedBy(t, before), ToSet(s) = ToSet(t)
  PROVE  s = t
<1> DEFINE m == Len(s)
           n == Len(t)
<1>1. m \in Nat /\ n \in Nat /\ DOMAIN s = 1..m /\ DOMAIN t = 1..n
  OBVIOUS
<1>2. (\A i \in 1..m : s[i] \in A) /\ (\A i \in 1..n : t[i] \in A)
  OBVIOUS
<1> HIDE DEF m, n
<1>3. \A x \in A : <<x, x>> \notin before
  BY DEF StrictOrderOn
<1>4. \A i \in 1..m : \E k \in 1..n : t[k] = s[i]
  BY <1>1 DEF ToSet
<1>5. \A i \in 1..n : \E k \in 1..m : s[k] = t[i]
  BY <1>1 DEF ToSet
<1>6. \A i, j \in 1..m : i < j => <<s[i], s[j]>> \in before
  BY <1>1 DEF SortedBy
<1>7. \A i, j \in 1..n : i < j => <<t[i], t[j]>> \in before
  BY <1>1 DEF SortedBy
<1>8. \A x, y \in A : <<x, y>> \in before => <<y, x>> \notin before
  BY DEF StrictOrderOn
<1> DEFINE Good == {i \in 0..m : \A j \in 1..i : j \in 1..n /\ s[j] = t[j]}
<1>9. 0 \in Good
  BY <1>1
<1>10. ASSUME NEW i \in 1..m, i - 1 \in Good
       PROVE  i \in Good
  <2>1. \A j \in 1..(i - 1) : j \in 1..n /\ s[j] = t[j]
    BY <1>10
  <2>2. PICK k \in 1..n : t[k] = s[i]
    BY <1>4
  <2>3. k >= i
    <3>1. SUFFICES ASSUME k < i PROVE FALSE
      BY <1>1
    <3>2. k \in 1..(i - 1) /\ k \in 1..m
      BY <1>1, <3>1
    <3>3. s[k] = s[i] /\ <<s[k], s[i]>> \in before
      BY <1>6, <2>1, <2>2, <3>1, <3>2
    <3> QED
      BY <1>2, <1>3, <3>3
  <2>4. i \in 1..n
    BY <1>1, <2>3
  <2>5. PICK l \in 1..m : s[l] = t[i]
    BY <1>5, <2>4
  <2>6. l >= i
    <3>1. SUFFICES ASSUME l < i PROVE FALSE
      BY <1>1
    <3>2. l \in 1..(i - 1) /\ l \in 1..n
      BY <1>1, <2>1, <3>1
    <3>3. t[l] = t[i] /\ <<t[l], t[i]>> \in before
      BY <1>7, <2>1, <2>4, <2>5, <3>1, <3>2
    <3> QED
      BY <1>2, <1>3, <2>4, <3>3
  <2>7. s[i] = t[i]
    <3>1. SUFFICES ASSUME s[i] # t[i] PROVE FALSE
      OBVIOUS
    <3>2. k > i /\ l > i
      BY <1>1, <2>2, <2>3, <2>5, <2>6, <3>1
    <3>3. <<t[i], s[i]>> \in before /\ <<s[i], t[i]>> \in before
      BY <1>6, <1>7, <2>2, <2>4, <2>5, <3>2
    <3> QED
      BY <1>2, <1>8, <2>4, <3>3
  <2>8. \A j \in 1..i : j \in 1..(i - 1) \/ j = i
    OBVIOUS
  <2>9. i \in 0..m
    BY <1>1
  <2> QED
    BY <2>1, <2>4, <2>7, <2>8, <2>9
<1> HIDE DEF Good
<1>11. \A i \in 0..m : i \in Good
  BY <1>1, <1>9, <1>10, CountUp
<1>12. m \in 0..m
  BY <1>1
<1>13. \A j \in 1..m : j \in 1..n /\ s[j] = t[j]
  BY <1>11, <1>12 DEF Good
<1>14. m = n
  <2>1. m <= n
    <3>1. CASE m = 0
      BY <1>1, <3>1
    <3>2. CASE m # 0
      BY <1>1, <1>13, <3>2
    <3> QED
      BY <3>1, <3>2
  <2>2. SUFFICES ASSUME m < n PROVE FALSE
    BY <1>1, <2>1
  <2>3. n \in 1..n
    BY <1>1, <2>2
  <2>4. PICK k \in 1..m : s[k] = t[n]
    BY <1>5, <2>3
  <2>5. t[k] = t[n] /\ <<t[k], t[n]>> \in before
    BY <1>1, <1>7, <1>13, <2>2, <2>3, <2>4
  <2> QED
    BY <1>2, <1>3, <2>3, <2>5
<1> QED
  BY <1>1, <1>13, <1>14, SeqEqual DEF m, n

(* An element put where it goes. *)
LEMMA PutIn ==
  ASSUME NEW A, NEW s \in Seq(A), NEW x \in A, NEW k \in 0..Len(s)
  PROVE  /\ InsertAt(s, k + 1, x) \in Seq(A) /\ Len(InsertAt(s, k + 1, x)) = Len(s) + 1
         /\ \A i \in 1..(Len(s) + 1) :
              InsertAt(s, k + 1, x)[i] = IF i <= k THEN s[i] ELSE IF i = k + 1 THEN x ELSE s[i - 1]
<1> DEFINE n == Len(s)
           front == SubSeq(s, 1, k)
           back == SubSeq(s, k + 1, n)
           both == front \o <<x>>
           t == both \o back
<1>0. n \in Nat /\ k \in 0..n
  OBVIOUS
<1>1. InsertAt(s, k + 1, x) = t
  <2>1. (k + 1) - 1 = k
    BY <1>0
  <2> QED
    BY <2>1 DEF InsertAt
<1>2. front \in Seq(A) /\ Len(front) = k /\ \A i \in 1..k : front[i] = s[i]
  OBVIOUS
<1>3. back \in Seq(A) /\ Len(back) = n - k /\ \A i \in 1..(n - k) : back[i] = s[i + k]
  OBVIOUS
<1>4. <<x>> \in Seq(A) /\ Len(<<x>>) = 1 /\ <<x>>[1] = x
  OBVIOUS
<1> HIDE DEF n, front, back
<1>5. both \in Seq(A) /\ Len(both) = k + 1
      /\ \A i \in 1..(k + 1) : both[i] = IF i <= k THEN s[i] ELSE x
  <2>1. /\ both \in Seq(A) /\ Len(both) = Len(front) + Len(<<x>>)
        /\ \A i \in 1..(Len(front) + Len(<<x>>)) :
             both[i] = IF i <= Len(front) THEN front[i] ELSE <<x>>[i - Len(front)]
    BY <1>2, <1>4, ConcatProperties
  <2> HIDE DEF both
  <2>2. ASSUME NEW i \in 1..(k + 1) PROVE both[i] = IF i <= k THEN s[i] ELSE x
    <3>1. CASE i <= k
      BY <1>0, <1>2, <1>4, <2>1, <3>1
    <3>2. CASE i = k + 1
      <4>1. i - k = 1
        BY <1>0, <3>2
      <4> QED
        BY <1>0, <1>2, <1>4, <2>1, <3>2, <4>1
    <3> QED
      BY <1>0, <3>1, <3>2
  <2> QED
    BY <1>0, <1>2, <1>4, <2>1, <2>2
<1> HIDE DEF both
<1>6. /\ t \in Seq(A) /\ Len(t) = Len(both) + Len(back)
      /\ \A i \in 1..(Len(both) + Len(back)) : t[i] = IF i <= Len(both) THEN both[i] ELSE back[i - Len(both)]
  BY <1>3, <1>5, ConcatProperties
<1> HIDE DEF t
<1>7. Len(t) = n + 1
  BY <1>0, <1>3, <1>5, <1>6
<1>8. ASSUME NEW i \in 1..(n + 1)
      PROVE  t[i] = IF i <= k THEN s[i] ELSE IF i = k + 1 THEN x ELSE s[i - 1]
  <2>1. CASE i <= k + 1
    <3>1. t[i] = both[i] /\ i \in 1..(k + 1)
      BY <1>0, <1>3, <1>5, <1>6, <1>7, <2>1
    <3> QED
      BY <1>0, <1>5, <2>1, <3>1
  <2>2. CASE i > k + 1
    <3>1. i - (k + 1) \in 1..(n - k) /\ (i - (k + 1)) + k = i - 1
      BY <1>0, <2>2
    <3>2. t[i] = back[i - (k + 1)]
      BY <1>0, <1>3, <1>5, <1>6, <1>7, <2>2
    <3> QED
      BY <1>0, <1>3, <2>2, <3>1, <3>2
  <2> QED
    BY <1>0, <2>1, <2>2
<1> QED
  BY <1>1, <1>6, <1>7, <1>8 DEF n

(* Of any two elements one is before the other. *)
TotalOn(before, A) == \A x, y \in A : x # y => <<x, y>> \in before \/ <<y, x>> \in before

(* What is put behind all it is not before keeps a sorted list sorted. *)
LEMMA InsertedInOrder ==
  ASSUME NEW A, NEW before, StrictOrderOn(before, A), NEW s \in Seq(A), SortedBy(s, before),
         NEW x \in A, x \notin ToSet(s), TotalOn(before, A),
         NEW ahead, ahead = {i \in DOMAIN s : <<x, s[i]>> \notin before}
  PROVE  LET t == InsertBehind(s, x, ahead)
         IN  t \in Seq(A) /\ SortedBy(t, before) /\ ToSet(t) = ToSet(s) \cup {x}
<1> DEFINE n == Len(s)
           k == IF ahead = {} THEN 0 ELSE Max(ahead)
           t == InsertAt(s, k + 1, x)
<1>1. n \in Nat /\ DOMAIN s = 1..n /\ \A i \in 1..n : s[i] \in A
  OBVIOUS
<1>2. InsertBehind(s, x, ahead) = t
  BY DEF InsertBehind
<1> HIDE DEF n
<1>3. k \in 0..n /\ (k # 0 => k \in ahead) /\ \A i \in ahead : i <= k
  <2>1. CASE ahead = {}
    BY <1>1, <2>1
  <2>2. CASE ahead # {}
    <3>1. ahead \in SUBSET (1..n)
      BY <1>1
    <3>2. Max(ahead) \in ahead /\ \A i \in ahead : i <= Max(ahead)
      BY <1>1, <2>2, <3>1, MaxOfPlaces
    <3>3. k = Max(ahead)
      BY <2>2
    <3> HIDE DEF k
    <3>4. k \in 1..n
      BY <3>1, <3>2, <3>3
    <3> QED
      BY <3>2, <3>3, <3>4
  <2> QED
    BY <2>1, <2>2
<1> HIDE DEF k
<1>4. /\ t \in Seq(A) /\ Len(t) = n + 1
      /\ \A i \in 1..(n + 1) : t[i] = IF i <= k THEN s[i] ELSE IF i = k + 1 THEN x ELSE s[i - 1]
  <2>1. k \in 0..Len(s)
    BY <1>3 DEF n
  <2>2. /\ InsertAt(s, k + 1, x) \in Seq(A) /\ Len(InsertAt(s, k + 1, x)) = Len(s) + 1
        /\ \A i \in 1..(Len(s) + 1) :
             InsertAt(s, k + 1, x)[i] = IF i <= k THEN s[i] ELSE IF i = k + 1 THEN x ELSE s[i - 1]
    <3>1. ASSUME NEW l \in 0..Len(s)
          PROVE  /\ InsertAt(s, l + 1, x) \in Seq(A) /\ Len(InsertAt(s, l + 1, x)) = Len(s) + 1
                 /\ \A i \in 1..(Len(s) + 1) :
                      InsertAt(s, l + 1, x)[i] = IF i <= l THEN s[i] ELSE IF i = l + 1 THEN x ELSE s[i - 1]
      BY PutIn
    <3> HIDE DEF t
    <3> QED
      BY <2>1, <3>1
  <2> QED
    BY <2>2 DEF n, t
<1> HIDE DEF t
<1>5. DOMAIN t = 1..(n + 1)
  BY <1>4
<1>6. \A i, j \in 1..n : i < j => <<s[i], s[j]>> \in before
  BY <1>1 DEF SortedBy
<1>7. \A i \in 1..n : s[i] # x
  BY <1>1 DEF ToSet
<1>8. ASSUME NEW i \in 1..n, i <= k PROVE <<s[i], x>> \in before
  <2>1. <<s[k], x>> \in before
    <3>1. k \in ahead /\ k \in 1..n
      BY <1>1, <1>3, <1>8
    <3>2. <<x, s[k]>> \notin before
      BY <3>1
    <3> QED
      BY <1>1, <1>7, <3>1, <3>2 DEF TotalOn
  <2>2. CASE i = k
    BY <2>1, <2>2
  <2>3. CASE i < k
    <3>1. <<s[i], s[k]>> \in before /\ k \in 1..n
      BY <1>1, <1>3, <1>6, <2>3
    <3> QED
      BY <1>1, <2>1, <3>1 DEF StrictOrderOn
  <2> QED
    BY <1>1, <1>3, <1>8, <2>2, <2>3
<1>9. ASSUME NEW i \in 1..n, i > k PROVE <<x, s[i]>> \in before
  <2>1. i \notin ahead
    <3>1. i \in ahead => i <= k
      BY <1>3
    <3>2. ~(i <= k)
      BY <1>1, <1>3, <1>9
    <3> QED
      BY <3>1, <3>2
  <2> QED
    BY <1>1, <2>1
<1>10. SortedBy(t, before)
  <2>1. ASSUME NEW i \in 1..(n + 1), NEW j \in 1..(n + 1), i < j
        PROVE  <<t[i], t[j]>> \in before
    <3>1. CASE j <= k
      <4>1. t[i] = s[i] /\ t[j] = s[j] /\ i \in 1..n /\ j \in 1..n
        BY <1>1, <1>3, <1>4, <2>1, <3>1
      <4> QED
        BY <1>6, <2>1, <4>1
    <3>2. CASE j = k + 1
      <4>1. t[i] = s[i] /\ t[j] = x /\ i \in 1..n /\ i <= k
        BY <1>1, <1>3, <1>4, <2>1, <3>2
      <4> QED
        BY <1>8, <4>1
    <3>3. CASE j > k + 1 /\ i <= k
      <4>1. t[i] = s[i] /\ t[j] = s[j - 1] /\ i \in 1..n /\ j - 1 \in 1..n /\ i < j - 1
        BY <1>1, <1>3, <1>4, <2>1, <3>3
      <4> QED
        BY <1>6, <4>1
    <3>4. CASE j > k + 1 /\ i = k + 1
      <4>1. t[i] = x /\ t[j] = s[j - 1] /\ j - 1 \in 1..n /\ j - 1 > k
        BY <1>1, <1>3, <1>4, <2>1, <3>4
      <4> QED
        BY <1>9, <4>1
    <3>5. CASE i > k + 1
      <4>1. t[i] = s[i - 1] /\ t[j] = s[j - 1] /\ i - 1 \in 1..n /\ j - 1 \in 1..n /\ i - 1 < j - 1
        BY <1>1, <1>3, <1>4, <2>1, <3>5
      <4> QED
        BY <1>6, <4>1
    <3> QED
      BY <1>1, <1>3, <2>1, <3>1, <3>2, <3>3, <3>4, <3>5
  <2> QED
    BY <1>5, <2>1 DEF SortedBy
<1>11. ToSet(t) = ToSet(s) \cup {x}
  <2>1. ASSUME NEW i \in 1..(n + 1) PROVE t[i] \in ToSet(s) \cup {x}
    <3>1. CASE i <= k
      <4>1. i \in 1..n /\ t[i] = s[i]
        BY <1>1, <1>3, <1>4, <3>1
      <4> QED
        BY <1>1, <4>1 DEF ToSet
    <3>2. CASE i = k + 1
      BY <1>1, <1>3, <1>4, <3>2
    <3>3. CASE i > k + 1
      <4>1. i - 1 \in 1..n /\ t[i] = s[i - 1]
        BY <1>1, <1>3, <1>4, <3>3
      <4> QED
        BY <1>1, <4>1 DEF ToSet
    <3> QED
      BY <1>1, <1>3, <3>1, <3>2, <3>3
  <2>2. \E j \in 1..(n + 1) : t[j] = x
    <3>1. k + 1 \in 1..(n + 1) /\ t[k + 1] = x
      BY <1>1, <1>3, <1>4
    <3> QED
      BY <3>1
  <2>3. ASSUME NEW i \in 1..n PROVE \E j \in 1..(n + 1) : t[j] = s[i]
    <3>1. CASE i <= k
      <4>1. i \in 1..(n + 1) /\ t[i] = s[i]
        BY <1>1, <1>3, <1>4, <3>1
      <4> QED
        BY <4>1
    <3>2. CASE i > k
      <4>1. i + 1 \in 1..(n + 1) /\ t[i + 1] = s[i]
        <5>1. i + 1 \in 1..(n + 1) /\ ~(i + 1 <= k) /\ i + 1 # k + 1 /\ (i + 1) - 1 = i
          BY <1>1, <1>3, <3>2
        <5> QED
          BY <1>4, <5>1
      <4> QED
        BY <4>1
    <3> QED
      BY <1>1, <1>3, <3>1, <3>2
  <2>4. ToSet(s) = {s[i] : i \in 1..n} /\ ToSet(t) = {t[i] : i \in 1..(n + 1)}
    BY <1>1, <1>5 DEF ToSet
  <2> QED
    BY <2>1, <2>2, <2>3, <2>4
<1> QED
  BY <1>2, <1>4, <1>10, <1>11

-----------------------------------------------------------------------------
(* Sorting as the code does it. *)

(* InsertBehind returns a sequence of what it was given. *)
LEMMA InsertedIsSequence ==
  ASSUME NEW A, NEW s \in Seq(A), NEW x \in A, NEW ahead, ahead \in SUBSET DOMAIN s
  PROVE  InsertBehind(s, x, ahead) \in Seq(A)
<1> DEFINE k == IF ahead = {} THEN 0 ELSE Max(ahead)
<1>1. k \in 0..Len(s)
  <2>1. CASE ahead = {}
    BY <2>1
  <2>2. CASE ahead # {}
    <3>1. Len(s) \in Nat /\ ahead \in SUBSET (1..Len(s))
      OBVIOUS
    <3>2. Max(ahead) \in ahead
      BY <2>2, <3>1, MaxOfPlaces
    <3> QED
      BY <2>2, <3>1, <3>2
  <2> QED
    BY <2>1, <2>2
<1>2. InsertBehind(s, x, ahead) = InsertAt(s, k + 1, x)
  BY DEF InsertBehind
<1> HIDE DEF k
<1> QED
  BY <1>1, <1>2, PutIn

(* Putting one element after the other where it goes sorts them.           *)
Insertions(run, s, before) ==
  /\ run[0] = <<>>
  /\ \A i \in 1..Len(s) :
       run[i] = InsertBehind(run[i - 1], s[i], {j \in DOMAIN run[i - 1] : <<s[i], run[i - 1][j]>> \notin before})

(* Inserting one after the other sorts, as sort.SliceStable does. *)
LEMMA InsertionsSort ==
  ASSUME NEW A, NEW before, StrictOrderOn(before, A), TotalOn(before, A), NEW s \in Seq(A), IsInjective(s),
         NEW run, run \in [0..Len(s) -> Seq(A)], Insertions(run, s, before)
  PROVE  run[Len(s)] \in Seq(A) /\ SortedBy(run[Len(s)], before) /\ ToSet(run[Len(s)]) = ToSet(s)
<1> DEFINE n == Len(s)
           in(i) == {s[j] : j \in 1..i}
           Good == {i \in 0..n : SortedBy(run[i], before) /\ ToSet(run[i]) = in(i)}
<1>1. n \in Nat /\ DOMAIN s = 1..n /\ \A i \in 1..n : s[i] \in A
  OBVIOUS
<1>2. run \in [0..n -> Seq(A)] /\ run[0] = <<>>
  BY DEF Insertions
<1>3. \A i \in 1..n :
        run[i] = InsertBehind(run[i - 1], s[i], {j \in DOMAIN run[i - 1] : <<s[i], run[i - 1][j]>> \notin before})
  BY DEF Insertions
<1> HIDE DEF n
<1>4. 0 \in Good
  <2>1. SortedBy(<<>>, before) /\ ToSet(<<>>) = {} /\ in(0) = {}
    BY DEF SortedBy, ToSet
  <2> QED
    BY <1>1, <1>2, <2>1
<1>5. ASSUME NEW i \in 1..n, i - 1 \in Good
      PROVE  i \in Good
  <2>1. i - 1 \in 0..n /\ i \in 0..n /\ 1..i = (1..(i - 1)) \cup {i}
    BY <1>1
  <2>2. SortedBy(run[i - 1], before) /\ ToSet(run[i - 1]) = in(i - 1) /\ run[i - 1] \in Seq(A)
    BY <1>2, <1>5, <2>1
  <2>3. s[i] \notin in(i - 1)
    <3>1. SUFFICES ASSUME NEW j \in 1..(i - 1), s[i] = s[j] PROVE FALSE
      OBVIOUS
    <3>2. i \in DOMAIN s /\ j \in DOMAIN s /\ i # j
      BY <1>1
    <3> QED
      BY <3>1, <3>2 DEF IsInjective
  <2>4. in(i) = in(i - 1) \cup {s[i]}
    BY <2>1
  <2> DEFINE ahead == {j \in DOMAIN run[i - 1] : <<s[i], run[i - 1][j]>> \notin before}
  <2> HIDE DEF in
  <2>5. run[i] = InsertBehind(run[i - 1], s[i], ahead)
    BY <1>3
  <2>6. LET t == InsertBehind(run[i - 1], s[i], ahead)
        IN  t \in Seq(A) /\ SortedBy(t, before) /\ ToSet(t) = ToSet(run[i - 1]) \cup {s[i]}
    BY <1>1, <2>2, <2>3, InsertedInOrder
  <2> QED
    BY <2>1, <2>2, <2>4, <2>5, <2>6
<1> HIDE DEF Good
<1>6. \A i \in 0..n : i \in Good
  BY <1>1, <1>4, <1>5, CountUp
<1>7. n \in 0..n
  BY <1>1
<1>8. ToSet(s) = in(n)
  BY <1>1 DEF ToSet
<1>9. n \in Good /\ run[n] \in Seq(A)
  BY <1>2, <1>6, <1>7
<1> QED
  BY <1>8, <1>9 DEF Good, n

-----------------------------------------------------------------------------
(* Lists that are put together, and parts of them. *)

(* Elements of a sequence are finitely many. *)
LEMMA ElementsAreFinite ==
  ASSUME NEW A, NEW s \in Seq(A)
  PROVE  IsFiniteSet(ToSet(s)) /\ ToSet(s) \subseteq A
<1>1. Len(s) \in Nat /\ DOMAIN s = 1..Len(s) /\ \A i \in DOMAIN s : s[i] \in A
  OBVIOUS
<1>2. IsFiniteSet(DOMAIN s)
  BY <1>1, FS_Interval
<1>3. s \in Surjection(DOMAIN s, ToSet(s))
  BY <1>1 DEF Surjection, ToSet
<1> QED
  BY <1>1, <1>2, <1>3, FS_Surjection DEF ToSet

(* A finite set has a listing. *)
LEMMA SetsHaveListings ==
  ASSUME NEW S, IsFiniteSet(S)
  PROVE  /\ SetToSeq(S) \in Seq(S) /\ Len(SetToSeq(S)) = Cardinality(S)
         /\ IsInjective(SetToSeq(S)) /\ ToSet(SetToSeq(S)) = S
<1> DEFINE n == Cardinality(S)
           Good(f) == f \in [1..n -> S] /\ IsInjective(f)
           t == SetToSeq(S)
<1>1. n \in Nat /\ ExistsBijection(1..n, S)
  BY FS_CardinalityType
<1>2. PICK g \in Bijection(1..n, S) : TRUE
  BY <1>1 DEF ExistsBijection
<1>3. Good(g)
  BY <1>2 DEF Bijection, Injection, IsInjective
<1>4. t \in [1..n -> S] /\ IsInjective(t)
  BY <1>3 DEF SetToSeq
<1> HIDE DEF t, n
<1>5. t \in Seq(S) /\ Len(t) = n
  BY <1>1, <1>4
<1>6. ToSet(t) = S
  <2>1. IsFiniteSet(1..n) /\ Cardinality(1..n) = n
    BY <1>1, FS_Interval
  <2>2. t \in Injection(1..n, S)
    BY <1>4 DEF Injection, IsInjective
  <2>3. t \in Surjection(1..n, S)
    BY <2>1, <2>2, FS_Injection DEF n
  <2> QED
    BY <1>4, <2>3 DEF Surjection, ToSet
<1> QED
  BY <1>4, <1>5, <1>6 DEF t, n

(* A list of two. *)
LEMMA PairIs ==
  ASSUME NEW x, NEW y
  PROVE  Append(<<x>>, y) = <<x, y>>
<1> DEFINE a == Append(<<x>>, y)
           b == <<x, y>>
<1>0. <<x>> \in Seq({x, y}) /\ Len(<<x>>) = 1
  OBVIOUS
<1>1. a \in Seq({x, y}) /\ Len(a) = 2 /\ a[1] = x /\ a[2] = y
  BY <1>0
<1>2. b \in Seq({x, y}) /\ Len(b) = 2 /\ b[1] = x /\ b[2] = y
  OBVIOUS
<1> HIDE DEF a, b
<1>3. \A i \in 1..2 : a[i] = b[i]
  BY <1>1, <1>2
<1>4. a = b
  BY <1>1, <1>2, <1>3, SeqEqual
<1> QED
  BY <1>4 DEF a, b

(* In a strict order nothing comes twice. *)
LEMMA SortedIsInjective ==
  ASSUME NEW A, NEW before, StrictOrderOn(before, A), NEW s, s \in Seq(A), SortedBy(s, before)
  PROVE  IsInjective(s)
<1>1. DOMAIN s = 1..Len(s) /\ Len(s) \in Nat /\ \A i \in 1..Len(s) : s[i] \in A
  OBVIOUS
<1>2. ASSUME NEW i \in DOMAIN s, NEW j \in DOMAIN s, s[i] = s[j] PROVE i = j
  <2>1. ~(<<s[i], s[j]>> \in before) /\ ~(<<s[j], s[i]>> \in before)
    BY <1>1, <1>2 DEF StrictOrderOn
  <2>2. ~(i < j) /\ ~(j < i)
    BY <2>1 DEF SortedBy
  <2> QED
    BY <1>1, <2>2
<1> QED
  BY <1>2 DEF IsInjective

(* One element more at the end of what is sorted. *)
LEMMA AppendedInOrder ==
  ASSUME NEW A, NEW before, NEW s \in Seq(A), SortedBy(s, before), NEW x \in A,
         \A y \in ToSet(s) : <<y, x>> \in before
  PROVE  SortedBy(Append(s, x), before)
<1> DEFINE t == Append(s, x)
           n == Len(s)
<1>1. n \in Nat /\ DOMAIN s = 1..n /\ DOMAIN t = 1..(n + 1) /\ t[n + 1] = x /\ \A i \in 1..n : t[i] = s[i]
  OBVIOUS
<1> HIDE DEF n, t
<1>2. SUFFICES ASSUME NEW i \in 1..(n + 1), NEW j \in 1..(n + 1), i < j
               PROVE  <<t[i], t[j]>> \in before
  BY <1>1 DEF SortedBy, t
<1>3. i \in 1..n /\ (j \in 1..n \/ j = n + 1)
  BY <1>1, <1>2
<1>4. CASE j \in 1..n
  BY <1>1, <1>2, <1>3, <1>4 DEF SortedBy
<1>5. CASE j = n + 1
  <2>1. s[i] \in ToSet(s)
    BY <1>1, <1>3 DEF ToSet
  <2> QED
    BY <1>1, <1>3, <1>5, <2>1
<1> QED
  BY <1>3, <1>4, <1>5

(* One stretch behind another. *)
LEMMA JoinedInOrder ==
  ASSUME NEW A, NEW before, NEW s \in Seq(A), SortedBy(s, before), NEW t \in Seq(A), SortedBy(t, before),
         \A x \in ToSet(s), y \in ToSet(t) : <<x, y>> \in before
  PROVE  SortedBy(s \o t, before) /\ ToSet(s \o t) = ToSet(s) \cup ToSet(t)
<1> DEFINE u == s \o t
           m == Len(s)
           n == Len(t)
<1>1. m \in Nat /\ n \in Nat /\ DOMAIN s = 1..m /\ DOMAIN t = 1..n
  OBVIOUS
<1>2. u \in Seq(A) /\ Len(u) = m + n /\ \A i \in 1..(m + n) : u[i] = IF i <= m THEN s[i] ELSE t[i - m]
  BY ConcatProperties
<1> HIDE DEF m, n, u
<1>3. DOMAIN u = 1..(m + n)
  BY <1>2
<1>4. \A i \in 1..(m + n) : \/ i \in 1..m /\ u[i] = s[i]
                            \/ i - m \in 1..n /\ i > m /\ u[i] = t[i - m]
  BY <1>1, <1>2
<1>5. (\A i \in 1..m : s[i] \in ToSet(s)) /\ (\A i \in 1..n : t[i] \in ToSet(t))
  BY <1>1 DEF ToSet
<1>6. SortedBy(u, before)
  <2>1. SUFFICES ASSUME NEW i \in 1..(m + n), NEW j \in 1..(m + n), i < j
                 PROVE  <<u[i], u[j]>> \in before
    BY <1>3 DEF SortedBy
  <2>2. CASE i \in 1..m /\ j \in 1..m
    <3>1. u[i] = s[i] /\ u[j] = s[j]
      BY <1>1, <1>4, <2>1, <2>2
    <3> QED
      BY <1>1, <2>1, <2>2, <3>1 DEF SortedBy
  <2>3. CASE i \in 1..m /\ j > m
    <3>1. u[i] = s[i]
      BY <1>1, <1>4, <2>1, <2>3
    <3>2. u[j] = t[j - m] /\ j - m \in 1..n
      BY <1>1, <1>4, <2>1, <2>3
    <3> QED
      BY <1>5, <2>3, <3>1, <3>2
  <2>4. CASE i > m
    <3>1. i - m \in 1..n /\ j - m \in 1..n /\ i - m < j - m /\ u[i] = t[i - m] /\ u[j] = t[j - m]
      BY <1>1, <1>4, <2>1, <2>4
    <3> QED
      BY <1>1, <3>1 DEF SortedBy
  <2> QED
    BY <1>1, <2>1, <2>2, <2>3, <2>4
<1>7. ToSet(u) = ToSet(s) \cup ToSet(t)
  <2>1. ASSUME NEW x \in ToSet(u) PROVE x \in ToSet(s) \cup ToSet(t)
    <3>1. PICK i \in 1..(m + n) : x = u[i]
      BY <1>3 DEF ToSet
    <3> QED
      BY <1>4, <1>5, <3>1
  <2>2. ASSUME NEW x \in ToSet(s) PROVE x \in ToSet(u)
    <3>1. PICK i \in 1..m : x = s[i]
      BY <1>1 DEF ToSet
    <3>2. i \in 1..(m + n) /\ u[i] = s[i]
      BY <1>1, <1>2
    <3> QED
      BY <1>3, <3>1, <3>2 DEF ToSet
  <2>3. ASSUME NEW x \in ToSet(t) PROVE x \in ToSet(u)
    <3>1. PICK i \in 1..n : x = t[i]
      BY <1>1 DEF ToSet
    <3>2. i + m \in 1..(m + n) /\ u[i + m] = t[(i + m) - m] /\ (i + m) - m = i
      BY <1>1, <1>2
    <3> QED
      BY <1>3, <3>1, <3>2 DEF ToSet
  <2> QED
    BY <2>1, <2>2, <2>3
<1> QED
  BY <1>6, <1>7 DEF u

(* One element more is looked at after the others. *)
LEMMA WhereAppended ==
  ASSUME NEW A, NEW s, s \in Seq(A), NEW x, x \in A, NEW P, NEW Q, \A i \in 1..Len(s) : i \in P <=> i \in Q
  PROVE  Where(Append(s, x), Q) = IF Len(s) + 1 \in Q THEN Append(Where(s, P), x) ELSE Where(s, P)
<1> DEFINE n == Len(s)
           t == Append(s, x)
<1>1. n \in Nat /\ t \in Seq(A) /\ Len(t) = n + 1 /\ t[n + 1] = x /\ \A i \in 1..n : t[i] = s[i]
  OBVIOUS
<1>2. PICK a \in [0..Len(s) -> Seq(A)] : WhereSteps(a, s, P)
  BY WhereRuns
<1> HIDE DEF t
<1>3. PICK b \in [0..Len(t) -> Seq(A)] : WhereSteps(b, t, Q)
  BY <1>1, WhereRuns
<1>4. /\ a[0] = <<>> /\ a[n] = Where(s, P)
      /\ \A i \in 1..n : a[i] = IF i \in P THEN Append(a[i - 1], s[i]) ELSE a[i - 1]
  BY <1>2 DEF WhereSteps
<1>5. /\ b[0] = <<>> /\ b[n + 1] = Where(t, Q)
      /\ \A i \in 1..(n + 1) : b[i] = IF i \in Q THEN Append(b[i - 1], t[i]) ELSE b[i - 1]
  BY <1>1, <1>3 DEF WhereSteps
<1> DEFINE Good == {i \in 0..n : a[i] = b[i]}
<1>6. \A i \in 1..n : i \in P <=> i \in Q
  OBVIOUS
<1> HIDE DEF n
<1>7. 0 \in Good
  BY <1>1, <1>4, <1>5
<1>8. ASSUME NEW i \in 1..n, i - 1 \in Good PROVE i \in Good
  <2>1. i \in 0..n /\ i \in 1..(n + 1) /\ a[i - 1] = b[i - 1] /\ t[i] = s[i]
    BY <1>1, <1>8
  <2>2. a[i] = b[i]
    BY <1>4, <1>5, <1>6, <2>1
  <2> QED
    BY <2>1, <2>2
<1> HIDE DEF Good
<1>9. \A i \in 0..n : i \in Good
  BY <1>1, <1>7, <1>8, CountUp
<1>10. b[n] = Where(s, P)
  <2>1. n \in 0..n
    BY <1>1
  <2>2. a[n] = b[n]
    BY <1>9, <2>1 DEF Good
  <2> QED
    BY <1>4, <2>2
<1>11. b[n + 1] = IF n + 1 \in Q THEN Append(b[n], x) ELSE b[n]
  <2>1. n + 1 \in 1..(n + 1) /\ (n + 1) - 1 = n
    BY <1>1
  <2> QED
    BY <1>1, <1>5, <2>1
<1> QED
  BY <1>5, <1>10, <1>11 DEF n, t

InOrderAt(s, places, before) == \A i, j \in places \cap DOMAIN s : i < j => <<s[i], s[j]>> \in before

(* What is wanted of a list keeps its order. *)
LEMMA WhereInOrder ==
  ASSUME NEW A, NEW s \in Seq(A), NEW places, NEW before, InOrderAt(s, places, before)
  PROVE  SortedBy(Where(s, places), before)
<1> DEFINE n == Len(s)
           in(i) == {s[j] : j \in places \cap (1..i)}
<1>0. PICK run \in [0..n -> Seq(A)] : WhereSteps(run, s, places)
  BY WhereRuns
<1>1. /\ run \in [0..n -> Seq(A)] /\ run[0] = <<>> /\ run[n] = Where(s, places)
      /\ \A i \in 1..n : run[i] = IF i \in places THEN Append(run[i - 1], s[i]) ELSE run[i - 1]
  BY <1>0 DEF WhereSteps
<1>2. n \in Nat /\ DOMAIN s = 1..n /\ \A i \in 1..n : s[i] \in A
  OBVIOUS
<1> HIDE DEF n
<1> DEFINE Good == {i \in 0..n : ToSet(run[i]) = in(i) /\ SortedBy(run[i], before)}
<1>3. 0 \in Good
  <2>1. ToSet(<<>>) = {} /\ in(0) = {} /\ SortedBy(<<>>, before)
    BY DEF ToSet, SortedBy
  <2> QED
    BY <1>1, <1>2, <2>1
<1>4. ASSUME NEW i \in 1..n, i - 1 \in Good
      PROVE  i \in Good
  <2>1. i - 1 \in 0..n /\ i \in 0..n /\ 1..i = (1..(i - 1)) \cup {i} /\ i \in DOMAIN s
    BY <1>2
  <2>2. ToSet(run[i - 1]) = in(i - 1) /\ SortedBy(run[i - 1], before) /\ run[i - 1] \in Seq(A) /\ s[i] \in A
    BY <1>1, <1>2, <1>4, <2>1
  <2>3. CASE i \in places
    <3>1. run[i] = Append(run[i - 1], s[i]) /\ in(i) = in(i - 1) \cup {s[i]}
      BY <1>1, <2>1, <2>3
    <3>2. \A y \in in(i - 1) : <<y, s[i]>> \in before
      <4> SUFFICES ASSUME NEW j \in places \cap (1..(i - 1)) PROVE <<s[j], s[i]>> \in before
        OBVIOUS
      <4>1. j \in DOMAIN s /\ j < i
        BY <1>2
      <4> QED
        BY <2>1, <2>3, <4>1 DEF InOrderAt
    <3> HIDE DEF in
    <3>3. ToSet(run[i]) = ToSet(run[i - 1]) \cup {s[i]}
      BY <2>2, <3>1, ElementsAppended
    <3>4. SortedBy(run[i], before)
      BY <2>2, <3>1, <3>2, AppendedInOrder
    <3> QED
      BY <2>1, <2>2, <3>1, <3>3, <3>4
  <2>4. CASE i \notin places
    <3>1. run[i] = run[i - 1] /\ in(i) = in(i - 1)
      BY <1>1, <2>1, <2>4
    <3> QED
      BY <2>1, <2>2, <3>1
  <2> QED
    BY <2>3, <2>4
<1> HIDE DEF Good
<1>5. \A i \in 0..n : i \in Good
  BY <1>2, <1>3, <1>4, CountUp
<1>6. n \in Good
  BY <1>2, <1>5
<1> QED
  BY <1>1, <1>6 DEF Good

(* Runs with one more. *)
LEMMA AppendedRuns ==
  ASSUME NEW s, s \in Seq(ToSet(s)), NEW x
  PROVE  Append(s, x) \in Seq(ToSet(Append(s, x))) /\ ToSet(Append(s, x)) = ToSet(s) \cup {x}
<1> DEFINE A == ToSet(s) \cup {x}
<1>1. s \in Seq(A) /\ x \in A
  <2>1. \A i \in 1..Len(s) : s[i] \in ToSet(s)
    OBVIOUS
  <2>2. Len(s) \in Nat /\ s = [i \in 1..Len(s) |-> s[i]]
    OBVIOUS
  <2> QED
    BY <2>1, <2>2
<1> HIDE DEF A
<1>2. Append(s, x) \in Seq(A) /\ ToSet(Append(s, x)) = ToSet(s) \cup {x}
  BY <1>1, ElementsAppended
<1> QED
  BY <1>2 DEF A

(* What is put in one after the other, wherever it goes. *)
PutsIn(run, s) ==
  /\ run[0] = <<>>
  /\ \A i \in 1..Len(s) : \E ahead \in SUBSET DOMAIN run[i - 1] : run[i] = InsertBehind(run[i - 1], s[i], ahead)

(* One element more, wherever it goes. *)
LEMMA InsertedOnce ==
  ASSUME NEW A, NEW s \in Seq(A), NEW x \in A, NEW ahead, ahead \in SUBSET DOMAIN s
  PROVE  LET t == InsertBehind(s, x, ahead)
         IN  /\ t \in Seq(A) /\ ToSet(t) = ToSet(s) \cup {x}
             /\ IsInjective(s) /\ x \notin ToSet(s) => IsInjective(t)
<1> DEFINE n == Len(s)
           k == IF ahead = {} THEN 0 ELSE Max(ahead)
           t == InsertAt(s, k + 1, x)
<1>1. n \in Nat /\ DOMAIN s = 1..n /\ \A i \in 1..n : s[i] \in A
  OBVIOUS
<1>2. InsertBehind(s, x, ahead) = t
  BY DEF InsertBehind
<1> HIDE DEF n
<1>3. k \in 0..n
  <2>1. CASE ahead = {}
    BY <1>1, <2>1
  <2>2. CASE ahead # {}
    <3>1. Max(ahead) \in 1..n
      BY <1>1, <2>2, MaxOfPlaces
    <3> QED
      BY <1>1, <2>2, <3>1
  <2> QED
    BY <2>1, <2>2
<1> HIDE DEF k
<1>4. /\ t \in Seq(A) /\ Len(t) = n + 1
      /\ \A i \in 1..(n + 1) : t[i] = IF i <= k THEN s[i] ELSE IF i = k + 1 THEN x ELSE s[i - 1]
  BY <1>3, PutIn DEF n
<1> HIDE DEF t
<1>5. DOMAIN t = 1..(n + 1)
  BY <1>4
<1>6. ToSet(t) = ToSet(s) \cup {x}
  <2>1. ASSUME NEW y \in ToSet(t) PROVE y \in ToSet(s) \cup {x}
    <3>1. PICK i \in 1..(n + 1) : y = t[i]
      BY <1>5, <2>1 DEF ToSet
    <3>2. (i = k + 1 /\ t[i] = x) \/ (i \in 1..n /\ t[i] = s[i]) \/ (i - 1 \in 1..n /\ t[i] = s[i - 1])
      BY <1>1, <1>3, <1>4
    <3> QED
      BY <1>1, <1>3, <1>4, <3>1, <3>2 DEF ToSet
  <2>2. x \in ToSet(t)
    <3>1. k + 1 \in 1..(n + 1) /\ t[k + 1] = x
      BY <1>1, <1>3, <1>4
    <3> QED
      BY <1>5, <3>1 DEF ToSet
  <2>3. ASSUME NEW y \in ToSet(s) PROVE y \in ToSet(t)
    <3>1. PICK i \in 1..n : y = s[i]
      BY <1>1, <2>3 DEF ToSet
    <3>2. CASE i <= k
      <4>1. i \in 1..(n + 1) /\ t[i] = s[i]
        BY <1>1, <1>3, <1>4, <3>2
      <4>2. i \in DOMAIN t /\ y = t[i]
        BY <1>5, <3>1, <4>1
      <4> QED
        BY <4>2 DEF ToSet
    <3>3. CASE i > k
      <4>1. i + 1 \in 1..(n + 1) /\ t[i + 1] = s[i]
        BY <1>1, <1>3, <1>4, <3>3
      <4>2. i + 1 \in DOMAIN t /\ y = t[i + 1]
        BY <1>5, <3>1, <4>1
      <4> QED
        BY <4>2 DEF ToSet
    <3> QED
      BY <1>1, <1>3, <3>2, <3>3
  <2> QED
    BY <2>1, <2>2, <2>3
<1>7. ASSUME IsInjective(s), x \notin ToSet(s) PROVE IsInjective(t)
  <2>1. \A i, j \in 1..n : s[i] = s[j] => i = j
    BY <1>1, <1>7 DEF IsInjective
  <2>2. \A i \in 1..n : s[i] # x
    BY <1>1, <1>7 DEF ToSet
  <2>3. ASSUME NEW i \in 1..(n + 1), NEW j \in 1..(n + 1), t[i] = t[j] PROVE i = j
    <3>1. (i <= k /\ i \in 1..n /\ t[i] = s[i]) \/ (i = k + 1 /\ t[i] = x) \/ (i > k + 1 /\ i - 1 \in 1..n /\ t[i] = s[i - 1])
      BY <1>1, <1>3, <1>4
    <3>2. (j <= k /\ j \in 1..n /\ t[j] = s[j]) \/ (j = k + 1 /\ t[j] = x) \/ (j > k + 1 /\ j - 1 \in 1..n /\ t[j] = s[j - 1])
      BY <1>1, <1>3, <1>4
    <3> QED
      BY <1>1, <1>3, <2>1, <2>2, <2>3, <3>1, <3>2
  <2> QED
    BY <1>5, <2>3 DEF IsInjective
<1> QED
  BY <1>2, <1>4, <1>6, <1>7

-----------------------------------------------------------------------------
(* Parts of a set by number, and what each of them sums up to. *)
PartOf(part, b) == {x \in DOMAIN part : part[x] = b}
SumsByPart(h, f, part, N) ==
  \A b \in 1..N : h[b] = SumFunctionOnSet([x \in PartOf(part, b) |-> f[x]], PartOf(part, b))

InParts(S, f, N, part, h) ==
  /\ IsFiniteSet(S) /\ f \in [S -> Int] /\ N \in Nat /\ part \in [S -> 1..N]
  /\ h \in [1..N -> Int] /\ SumsByPart(h, f, part, N)

(* The sum over a set is that of what its parts sum up to. *)
LEMMA SumOfBuckets ==
  ASSUME NEW S, NEW f, NEW N, NEW part, NEW h, InParts(S, f, N, part, h)
  PROVE  SumFunctionOnSet(h, 1..N) = SumFunctionOnSet(f, S)
<1>a. /\ IsFiniteSet(S) /\ f \in [S -> Int] /\ N \in Nat /\ part \in [S -> 1..N]
      /\ h \in [1..N -> Int] /\ SumsByPart(h, f, part, N)
  BY DEF InParts
<1> DEFINE K == 1..N
           Upto(k) == {x \in S : part[x] <= k}
<1>0. IsFiniteSet(K)
  BY <1>a, FS_Interval
<1>1. PICK g \in [SUBSET S -> Int] : SumsParts(g, f, S) /\ AddsUp(g, S)
  BY <1>a, PartSumsAdd
<1>2. PICK e \in [SUBSET K -> Int] : SumsParts(e, h, K)
  BY <1>0, <1>a, PartSums
<1>q. \A V \in SUBSET K : \A y \in V : e[V] = h[y] + e[V \ {y}]
  BY <1>2 DEF SumsParts, TotalsAnyhow
<1> DEFINE Good == {k \in 0..N : e[1..k] = g[Upto(k)]}
<1>3. 0 \in Good
  <2>1. 1..0 = {} /\ Upto(0) = {} /\ 0 \in 0..N
    BY <1>a
  <2> QED
    BY <1>1, <1>2, <2>1 DEF SumsParts
<1>4. ASSUME NEW k \in 1..N, k - 1 \in Good PROVE k \in Good
  <2>1. PartOf(part, k) \in SUBSET S /\ Upto(k - 1) \in SUBSET S /\ Upto(k - 1) \cap PartOf(part, k) = {}
        /\ Upto(k) = Upto(k - 1) \cup PartOf(part, k)
    BY <1>a DEF PartOf
  <2>2. g[Upto(k)] = g[Upto(k - 1)] + g[PartOf(part, k)]
    <3> HIDE DEF Upto
    <3> QED
      BY <1>1, <2>1 DEF AddsUp
  <2>3. h[k] = g[PartOf(part, k)]
    BY <1>1, <1>a, <2>1 DEF SumsParts, SumsByPart
  <2>4. (1..k) \in SUBSET K /\ k \in 1..k /\ (1..k) \ {k} = 1..k - 1
    BY <1>a
  <2>5. e[1..k] = h[k] + e[1..k - 1]
    <3> HIDE DEF K
    <3>1. e[1..k] = h[k] + e[(1..k) \ {k}]
      BY <1>q, <2>4
    <3> QED
      BY <2>4, <3>1
  <2>6. e[1..k - 1] = g[Upto(k - 1)]
    BY <1>4
  <2>7. g[Upto(k - 1)] \in Int /\ g[PartOf(part, k)] \in Int
    BY <1>1, <2>1
  <2>8. k \in 0..N
    BY <1>a
  <2> HIDE DEF Upto
  <2> QED
    BY <2>2, <2>3, <2>5, <2>6, <2>7, <2>8
<1> HIDE DEF Good
<1>5. N \in Good
  <2>1. \A k \in 0..N : k \in Good
    BY <1>3, <1>4, <1>a, CountUp
  <2> QED
    BY <1>a, <2>1
<1>6. Upto(N) = S
  BY <1>a
<1>7. e[K] = g[S]
  BY <1>5, <1>6 DEF Good
<1>8. SumFunctionOnSet(f, S) = g[S] /\ SumFunctionOnSet(h, K) = e[K]
  <2>1. f = [x \in S |-> f[x]] /\ S \in SUBSET S
    BY <1>a
  <2>2. h = [x \in K |-> h[x]] /\ K \in SUBSET K
    BY <1>a
  <2> QED
    BY <1>1, <1>2, <2>1, <2>2 DEF SumsParts
<1> QED
  BY <1>7, <1>8

-----------------------------------------------------------------------------
(* Fractions. *)

(* Quotients compare as they do anywhere. *)
LEMMA QuotientsCompare ==
  ASSUME NEW a \in Int, NEW b \in Int, NEW c \in Int,
         NEW p \in Nat, NEW q \in Nat, NEW r \in Nat, p > 0, q > 0, r > 0,
         a * q >= b * p, b * r >= c * q
  PROVE  /\ a * r >= c * p
         /\ a * q > b * p \/ b * r > c * q => a * r > c * p
<1>1. (a * q) * r >= (b * p) * r /\ (a * q > b * p => (a * q) * r > (b * p) * r)
  OBVIOUS
<1>2. (b * r) * p >= (c * q) * p /\ (b * r > c * q => (b * r) * p > (c * q) * p)
  OBVIOUS
<1>3. (b * p) * r = (b * r) * p /\ (a * q) * r = q * (a * r) /\ (c * q) * p = q * (c * p)
  OBVIOUS
<1>4. q * (a * r) >= q * (c * p) /\ (a * q > b * p \/ b * r > c * q => q * (a * r) > q * (c * p))
  <2> DEFINE x == q * (a * r)
             y == (b * p) * r
             z == q * (c * p)
  <2>1. x \in Int /\ y \in Int /\ z \in Int
    OBVIOUS
  <2>2. x >= y /\ y >= z /\ (a * q > b * p => x > y) /\ (b * r > c * q => y > z)
    BY <1>1, <1>2, <1>3
  <2> HIDE DEF x, y, z
  <2>3. x >= z /\ (a * q > b * p \/ b * r > c * q => x > z)
    BY <2>1, <2>2
  <2> QED
    BY <2>3 DEF x, z
<1>5. ASSUME NEW x \in Int, NEW y \in Int PROVE (q * x >= q * y => x >= y) /\ (q * x > q * y => x > y)
  OBVIOUS
<1>6. a * r \in Int /\ c * p \in Int
  OBVIOUS
<1> QED
  BY <1>4, <1>5, <1>6

=============================================================================
