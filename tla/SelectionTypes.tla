--------------------------- MODULE SelectionTypes ---------------------------
(* What a selection can be (_types.py): its kind, and the results of a kind. *)

Kinds   == {"over/under", "home/draw/away", "home/away", "competitor1/competitor2"}
Results == {"over", "under", "home", "draw", "away", "competitor1", "competitor2"}

SelectionResults(kind) ==
  CASE kind = "over/under"              -> {"over", "under"}
    [] kind = "home/draw/away"          -> {"home", "draw", "away"}
    [] kind = "home/away"               -> {"home", "away"}
    [] kind = "competitor1/competitor2" -> {"competitor1", "competitor2"}
=============================================================================
