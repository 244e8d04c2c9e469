------------------------------- MODULE MCFeed --------------------------------
(***************************************************************************)
(* Two sources.  The first has two events, one of them with prices.  The   *)
(* event of the second is of a kind this SDK cannot read, so that a        *)
(* snapshot may stop before it or after it, and a frame of its own fails.  *)
(* Three places for two stores: a new gateway may reuse one.  Prices and   *)
(* places are interchangeable.                                             *)
(***************************************************************************)
EXTENDS Feed, TLC

CONSTANTS a1, a2, b1, bkA, bkB, x1, m1

MCSources       == {bkA, bkB}
MCSportEventIds == {a1, a2, b1}
MCSelectionIds  == {x1}
MCSourceOf      == a1 :> bkA @@ a2 :> bkA @@ b1 :> bkB
MCEventOf       == x1 :> a1
MCMarketOf      == x1 :> m1
MCUnreadable    == {e \in SportEvents : e.id = b1}

Symmetry == Permutations(Prices) \cup Permutations(Addresses)
=============================================================================
