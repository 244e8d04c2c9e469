------------------------------ MODULE BookView ------------------------------
(***************************************************************************)
(* What an OddsBook promises its readers: a map from sport event id to the *)
(* current version of the event.  No index, no partial state.              *)
(***************************************************************************)
CONSTANTS SportEventIds, SportEvents, Bookmakers, BookmakerOf, None

VARIABLE view

Events == {e \in SportEvents : BookmakerOf[e.id] # None}

OnePerId(S) == \A e, f \in S : e.id = f.id => e = f

With(v, S) == [s \in SportEventIds |->
  IF \E e \in S : e.id = s THEN CHOOSE e \in S : e.id = s ELSE v[s]]

Without(v, k) == [s \in SportEventIds |-> IF BookmakerOf[s] = k THEN None ELSE v[s]]

Init == view = [s \in SportEventIds |-> None]

Put      == \E e \in Events : view' = With(view, {e})
Delete   == \E s \in SportEventIds : view' = [view EXCEPT ![s] = None]
DropAll  == \E k \in Bookmakers : view' = Without(view, k)
Replace  == \E k \in Bookmakers, S \in SUBSET Events :
              OnePerId(S) /\ view' = With(Without(view, k), S)
Empty    == view' = [s \in SportEventIds |-> None]

Next == Put \/ Delete \/ DropAll \/ Replace \/ Empty

Spec == Init /\ [][Next]_view
=============================================================================
