---------------------------- MODULE MCLineMoves ------------------------------
(***************************************************************************)
(* Two sources with an event of one selection each, of which only the first*)
(* moves its prices over the whole range: 100 and 104 are near, 104 and 108*)
(* too, 100 and 108 are not.                                               *)
(***************************************************************************)
EXTENDS LineMoves, TLC

CONSTANTS bkA, bkB, a1, b1, x1, y1, m1, m2, p1, p2

MCSources       == {bkA, bkB}
MCSportEventIds == {a1, b1}
MCSelectionIds  == {x1, y1}
MCSourceOf      == a1 :> bkA @@ b1 :> bkB
MCEventOf       == x1 :> a1 @@ y1 :> b1
MCMarketOf      == x1 :> m1 @@ y1 :> m2
MCUnreadable    == {}

Symmetry == Permutations(Addresses)
=============================================================================
