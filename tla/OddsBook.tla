------------------------------ MODULE OddsBook ------------------------------
(***************************************************************************)
(* OddsBookImpl (src/realtimeodds/_book.py): the live mirror of the odds,  *)
(* a dictionary of sport events and three secondary indexes kept beside    *)
(* it, so that a market, a selection or the events of a bookmaker are      *)
(* found without a scan.                                                   *)
(*                                                                         *)
(* The book is one record, and every method of the class is an operator    *)
(* from book to book, so that a module that composes the book with its     *)
(* writers can apply the same operators.  A Python dictionary is a total   *)
(* function into values and None, which is what `.get` answers; an absent  *)
(* key of _by_bookmaker is the empty set, since the code treats both alike.*)
(*                                                                         *)
(* A sport event is [id, markets]: `markets` is a function from its market *)
(* ids to the sets of their selection ids.  Prices and descriptions are    *)
(* never read by the book.                                                 *)
(*                                                                         *)
(* A definition whose name ends in Mutant is a slip the code could well    *)
(* have had, kept next to the definition it distorts; nothing refers to it.*)
(* README.md says which property each of them breaks.                      *)
(***************************************************************************)
CONSTANTS
  SportEventIds, MarketIds, SelectionIds, Bookmakers,
  SportEvents,     \* every version of every sport event the wire may carry
  BookmakerOf,     \* sport event id -> bookmaker, or None for a malformed id
  None

IsSportEvent(e) ==
  /\ e = [id |-> e.id, markets |-> e.markets]
  /\ e.id \in SportEventIds
  /\ DOMAIN e.markets \subseteq MarketIds
  /\ e.markets \in [DOMAIN e.markets -> SUBSET SelectionIds]

ASSUME Typing ==
  /\ BookmakerOf \in [SportEventIds -> Bookmakers \cup {None}]
  /\ \A e \in SportEvents : IsSportEvent(e)
  /\ None \notin SportEventIds \cup MarketIds \cup SelectionIds \cup Bookmakers \cup SportEvents

(* The id grammar of id_helper.py: a market id is prefixed by the id of its
   event and a selection id by the id of its market.  Of that the book needs
   only that different events have no market in common and different markets
   no selection. *)
ASSUME IdGrammar ==
  \A e, f \in SportEvents :
    /\ e.id # f.id => DOMAIN e.markets \cap DOMAIN f.markets = {}
    /\ \A m \in DOMAIN e.markets, n \in DOMAIN f.markets :
         m # n => e.markets[m] \cap f.markets[n] = {}

VARIABLE book
-----------------------------------------------------------------------------
(* get_bookmaker raises ValueError on an id without the vmid:<bookmaker>:
   prefix; the wire's ids reach the book unchecked. *)
WellFormed(s) == BookmakerOf[s] # None

Books == [events          : [SportEventIds -> SportEvents \cup {None}],
          marketParent    : [MarketIds -> SportEventIds \cup {None}],
          selectionParent : [SelectionIds -> MarketIds \cup {None}],
          byBookmaker     : [Bookmakers -> SUBSET SportEventIds]]

EmptyBook == [events          |-> [s \in SportEventIds |-> None],
              marketParent    |-> [m \in MarketIds |-> None],
              selectionParent |-> [x \in SelectionIds |-> None],
              byBookmaker     |-> [k \in Bookmakers |-> {}]]

SelectionsOf(e) == UNION {e.markets[m] : m \in DOMAIN e.markets}

IdsFor(S, k) == {e.id : e \in {f \in S : BookmakerOf[f.id] = k}}
-----------------------------------------------------------------------------
(* The private index helpers, for a set S of events with well-formed ids and
   no two with the same id: their ids, markets and selections are disjoint,
   so the code's loop over them gives this result in any order. *)
DropIndexes(b, S) ==
  [events          |-> b.events,
   marketParent    |-> [m \in MarketIds |->
     IF \E e \in S : m \in DOMAIN e.markets THEN None ELSE b.marketParent[m]],
   selectionParent |-> [x \in SelectionIds |->
     IF \E e \in S : x \in SelectionsOf(e) THEN None ELSE b.selectionParent[x]],
   byBookmaker     |-> [k \in Bookmakers |-> b.byBookmaker[k] \ IdsFor(S, k)]]

EventHolding(S, m) == CHOOSE e \in S : m \in DOMAIN e.markets

MarketHoldingMutant(S, x) ==         \* the event instead of the market
  (CHOOSE e \in S : x \in SelectionsOf(e)).id

MarketHolding(S, x) ==
  CHOOSE m \in MarketIds : \E e \in S : m \in DOMAIN e.markets /\ x \in e.markets[m]

AddIndexes(b, S) ==
  [events          |-> b.events,
   marketParent    |-> [m \in MarketIds |->
     IF \E e \in S : m \in DOMAIN e.markets
       THEN EventHolding(S, m).id ELSE b.marketParent[m]],
   selectionParent |-> [x \in SelectionIds |->
     IF \E e \in S : x \in SelectionsOf(e)
       THEN MarketHolding(S, x) ELSE b.selectionParent[x]],
   byBookmaker     |-> [k \in Bookmakers |-> b.byBookmaker[k] \cup IdsFor(S, k)]]

OverlayMutant(events, S) ==                  \* old markets survive a new version
  LET Merged(old, e) == [id |-> e.id, markets |->
        [m \in DOMAIN old.markets \cup DOMAIN e.markets |->
           IF m \in DOMAIN e.markets THEN e.markets[m] ELSE old.markets[m]]]
      Version(s, e) == IF events[s] = None THEN e ELSE Merged(events[s], e)
  IN  [s \in SportEventIds |->
         IF \E e \in S : e.id = s THEN Version(s, CHOOSE e \in S : e.id = s) ELSE events[s]]

Overlay(events, S) ==
  [s \in SportEventIds |->
     IF \E e \in S : e.id = s THEN CHOOSE e \in S : e.id = s ELSE events[s]]

SetEvents(b, S) == [b EXCEPT !.events = Overlay(b.events, S)]

ForgetEvents(b, ids) ==
  [b EXCEPT !.events = [s \in SportEventIds |-> IF s \in ids THEN None ELSE b.events[s]]]

Held(b, ids) == {b.events[s] : s \in ids} \ {None}

PutMutant(b, S) == AddIndexes(SetEvents(b, S), S)      \* no index dropped

PutLateDropMutant(b, S) ==                              \* dropped after the add
  DropIndexes(AddIndexes(SetEvents(b, S), S), Held(b, {e.id : e \in S}))

\* `upsert` of each event of S, all of them well-formed.
Put(b, S) ==
  AddIndexes(SetEvents(DropIndexes(b, Held(b, {e.id : e \in S})), S), S)

(* With a malformed id the helpers raise before they touch an index: a first
   upsert has stored the event by then, a later one has changed nothing.  The
   emitter that called the book swallows the exception. *)
Upsert(b, e) ==
  IF WellFormed(e.id)         THEN Put(b, {e})
  ELSE IF b.events[e.id] = None THEN SetEvents(b, {e})
  ELSE b

Remove(b, s) ==
  IF WellFormed(s) THEN DropIndexes(ForgetEvents(b, {s}), Held(b, {s}))
  ELSE ForgetEvents(b, {s})

ClearBookmaker(b, k) ==
  LET ids     == b.byBookmaker[k]
      cleared == DropIndexes(ForgetEvents(b, ids), Held(b, ids))
  IN  IF ids = {} THEN b ELSE [cleared EXCEPT !.byBookmaker[k] = {}]

(* The upserts stop at the first malformed id: whatever well-formed events
   came before it are in, the rest never are.  The result is the set of books
   the possible orders of S lead to. *)
ReplaceBookmaker(b, k, S) ==
  LET cleared == ClearBookmaker(b, k)
      good    == {e \in S : WellFormed(e.id)}
  IN  IF good = S THEN {Put(cleared, S)}
      ELSE {Upsert(Put(cleared, P), e) : P \in SUBSET good, e \in S \ good}

(* The lookups.  A market is answered as [id, selections], a context as
   [sportEvent, market, selection]. *)
GetMarket(b, m) ==
  LET s == b.marketParent[m]
  IN  IF s = None THEN None
      ELSE IF b.events[s] = None THEN None
      ELSE IF m \notin DOMAIN b.events[s].markets THEN None
      ELSE [id |-> m, selections |-> b.events[s].markets[m]]

FindContext(b, x) ==
  LET m == b.selectionParent[x]
      s == b.marketParent[m]
  IN  IF m = None THEN None
      ELSE IF s = None THEN None
      ELSE IF b.events[s] = None THEN None
      ELSE IF m \notin DOMAIN b.events[s].markets THEN None
      ELSE IF x \notin b.events[s].markets[m] THEN None
      ELSE [sportEvent |-> b.events[s],
            market     |-> [id |-> m, selections |-> b.events[s].markets[m]],
            selection  |-> x]
-----------------------------------------------------------------------------
(* What a store holds: no two events with one id. *)
Batches == {S \in SUBSET SportEvents : \A e, f \in S : e.id = f.id => e = f}

Init == book = EmptyBook

UpsertEvent    == \E e \in SportEvents : book' = Upsert(book, e)
RemoveEvent    == \E s \in SportEventIds : book' = Remove(book, s)
ClearSource    == \E k \in Bookmakers : book' = ClearBookmaker(book, k)
ReplaceSource  == \E k \in Bookmakers, S \in Batches : book' \in ReplaceBookmaker(book, k, S)
ClearAll       == book' = EmptyBook

Next == UpsertEvent \/ RemoveEvent \/ ClearSource \/ ReplaceSource \/ ClearAll

Spec == Init /\ [][Next]_book
-----------------------------------------------------------------------------
(* The book is a well-typed record: no index ever points outside the ids the
   wire uses. *)
TypeOK == book \in Books

Indexed(b, s) == WellFormed(s) /\ b.events[s] # None

MarketsExact(b) ==
  \A m \in MarketIds, s \in SportEventIds :
    b.marketParent[m] = s <=> Indexed(b, s) /\ m \in DOMAIN b.events[s].markets

SelectionsExact(b) ==
  \A x \in SelectionIds, m \in MarketIds :
    b.selectionParent[x] = m <=>
      \E s \in SportEventIds : /\ Indexed(b, s)
                               /\ m \in DOMAIN b.events[s].markets
                               /\ x \in b.events[s].markets[m]

BookmakersExact(b) ==
  \A k \in Bookmakers, s \in SportEventIds :
    s \in b.byBookmaker[k] <=> b.events[s] # None /\ BookmakerOf[s] = k

(* After any sequence of upserts, removals, source clears and resyncs the
   three indexes describe exactly the well-formed events of the book: no entry
   of a replaced version of an event survives, none of the current version is
   missing, whatever markets and selections came and went between the two. *)
IndexesExact == MarketsExact(book) /\ SelectionsExact(book) /\ BookmakersExact(book)

(* find_context and get_market answer for a selection or a market exactly when
   the book holds it, and then with the current version of its event. *)
LookupsExact ==
  \A s \in SportEventIds : Indexed(book, s) =>
    LET e == book.events[s]
    IN \A m \in DOMAIN e.markets :
      /\ GetMarket(book, m) = [id |-> m, selections |-> e.markets[m]]
      /\ \A x \in e.markets[m] :
           FindContext(book, x) =
             [sportEvent |-> e, market |-> GetMarket(book, m), selection |-> x]

Visible(b) == [s \in SportEventIds |-> IF WellFormed(s) THEN b.events[s] ELSE None]

(* The book with its indexes implements a plain map from event id to the last
   version put: in particular clear_bookmaker and replace_bookmaker, which
   walk the index and not the events, remove every event of the bookmaker and
   no other. *)
View == INSTANCE BookView WITH view <- Visible(book)
ViewSpec == View!Spec
=============================================================================
