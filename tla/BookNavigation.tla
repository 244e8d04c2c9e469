--------------------------- MODULE BookNavigation ---------------------------
(***************************************************************************)
(* The two ways an application finds its way from an id to an event or a   *)
(* market: through the indexes of the book, and by taking the id apart     *)
(* (IdHelper, SportEvent.get_market).  Ids are those of EntityIds here.    *)
(***************************************************************************)
EXTENDS OddsBook, Naturals, Sequences

CONSTANT Segments      \* what may stand between two colons of an id

Ids == INSTANCE EntityIds

(* The wire's ids are made by id_helper: a well-formed event has three
   segments, the id of a market adds one or more to that of its event and the
   id of a selection one to that of its market.  No market has the id of a
   selection, which the grammar alone would let a legacy market id with a
   colon do, and which SportEvent.get_market relies on. *)
ASSUME IdsAreMade ==
  /\ SportEventIds \cup MarketIds \cup SelectionIds \subseteq Seq(Segments)
  /\ MarketIds \cap SelectionIds = {}
  /\ \A s \in SportEventIds : BookmakerOf[s] = Ids!GetBookmaker(s)
  /\ \A e \in SportEvents : WellFormed(e.id) =>
       /\ Len(e.id) = 3
       /\ \A m \in DOMAIN e.markets :
            /\ Len(m) > 3 /\ m = Ids!MakeMarketId(e.id, SubSeq(m, 4, Len(m)))
            /\ \A x \in e.markets[m] : \E r \in Segments : x = Ids!MakeSelectionId(m, <<r>>)

(* IdHelper, SportEvent.get_market and the indexes of the book agree: the
   event and the market an application derives from an id of a selection in
   the book are those find_context answers, a legacy market id with a colon
   included, and no selection resolves to a market of another event. *)
NavigationAgrees ==
  \A s \in SportEventIds : Indexed(book, s) =>
    LET e == book.events[s]
    IN \A m \in DOMAIN e.markets :
      /\ Ids!GetSportEventId(m) = book.marketParent[m]
      /\ \A x \in e.markets[m] :
           /\ Ids!GetSportEventId(x) = FindContext(book, x).sportEvent.id
           /\ Ids!GetMarketId(x) = book.selectionParent[x]
           /\ Ids!MarketAmong(DOMAIN e.markets, x) = book.selectionParent[x]
           /\ Ids!GetBookmaker(x) = BookmakerOf[s]
           /\ \A t \in SportEventIds \ {s} :
                book.events[t] # None => Ids!MarketAmong(DOMAIN book.events[t].markets, x) = None
=============================================================================
