------------------------------- MODULE MCStore --------------------------------
(***************************************************************************)
(* Two events of two kinds.  Two listeners: one may be registered twice,   *)
(* and remove itself or the other while it is called.                      *)
(***************************************************************************)
EXTENDS OddsStore, FiniteSets, TLC

MCEvents == StoreEvents

Symmetry == Permutations(Listeners) \cup Permutations(Kinds)
              \cup Permutations(Marks) \cup Permutations(SportEventIds)
=============================================================================
