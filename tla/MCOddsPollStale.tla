--------------------------- MODULE MCOddsPollStale ---------------------------
(***************************************************************************)
(* A small instance of OddsPoll for TLC: two sports, lines that move.      *)
(***************************************************************************)
EXTENDS OddsPoll

CONSTANTS p1, g1, g2

O(point, over, under) == [point |-> point, over |-> over, under |-> under]

MCOffers == {O(11, -110, -110), O(11, 100, -120), O(13, 120, -140)}
TwoSports == <<g1, g2>>

=============================================================================
