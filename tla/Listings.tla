------------------------------ MODULE Listings ------------------------------
(***************************************************************************)
(* What loops and queries make of a list: the elements that are wanted, in *)
(* the order they have, and all of them in the order asked for.            *)
(***************************************************************************)
EXTENDS Integers, SequencesExt

(* The elements of s at some of its places. *)
Where(s, places) ==
  FoldLeftDomain(LAMBDA kept, i : IF i \in places THEN Append(kept, s[i]) ELSE kept, <<>>, s)

(* sort.SliceStable: an element goes behind all it is not before. *)
InsertBehind(sorted, x, ahead) == InsertAt(sorted, IF ahead = {} THEN 1 ELSE Max(ahead) + 1, x)

StableSort(s, Before(_, _)) ==
  FoldLeft(LAMBDA sorted, x : InsertBehind(sorted, x, {i \in DOMAIN sorted : ~Before(x, sorted[i])}), <<>>, s)

(* ORDER BY: the rows of a set, each before those it is to stand before. *)
Arranged(S, Before(_, _)) == StableSort(SetToSeq(S), Before)

=============================================================================
