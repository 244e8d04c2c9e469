------------------------------ MODULE EntityIds ------------------------------
(***************************************************************************)
(* The id grammar of id_helper.py and the way SportEvent finds a market by *)
(* the id of one of its selections.  An id is the sequence of the segments *)
(* between its colons: `split`, `join` and the f-strings of the code become*)
(* operations on sequences.  An external id is a sequence too, of one      *)
(* segment unless a legacy producer embedded a colon in it.                *)
(*                                                                         *)
(* Raising ValueError is answered with None.                               *)
(***************************************************************************)
EXTENDS Naturals, Sequences

CONSTANT None

MakeSportEventId(bookmaker, externalId)  == <<"vmid", bookmaker>> \o externalId
MakeMarketId(sportEventId, externalId)   == sportEventId \o externalId
MakeSelectionId(marketId, externalId)    == marketId \o externalId

GetBookmaker(id) == IF Len(id) < 3 \/ id[1] # "vmid" THEN None ELSE id[2]

GetSportEventId(id) == IF Len(id) < 3 THEN None ELSE SubSeq(id, 1, 3)

\* All before the last colon.
Stripped(id) == SubSeq(id, 1, Len(id) - 1)

GetMarketIdMutant(id) ==                 \* a market id always has four segments
  IF Len(id) < 4 THEN None ELSE SubSeq(id, 1, 4)

\* Five segments or more are taken for the id of a selection.
GetMarketId(id) == IF Len(id) < 4 THEN None ELSE IF Len(id) < 5 THEN id ELSE Stripped(id)

(* SportEvent.get_market among the market ids M: the id itself, or else the
   id without its last segment. *)
MarketAmong(M, id) ==
  IF id \in M THEN id
  ELSE IF Len(id) > 1 /\ Stripped(id) \in M THEN Stripped(id)
  ELSE None
=============================================================================
