--------------------------- MODULE OddsBookProofs ---------------------------
(***************************************************************************)
(* Proofs about OddsBook, for every set of events, markets, selections and *)
(* bookmakers that satisfies the id grammar.                               *)
(*                                                                         *)
(* The inductive invariant is Good: the book is typed, stores every event  *)
(* under its own id (Keyed) and its three indexes are exact.  Each method  *)
(* is a composition of two moves, each of which keeps Good: forget a set   *)
(* of events together with their index entries, and add a set of events    *)
(* the book does not hold together with theirs.                            *)
(***************************************************************************)
EXTENDS BookNavigation, SequenceTheorems, TLAPS

Grammar == INSTANCE EntityIdProofs

Keyed(b) == \A s \in SportEventIds : b.events[s] # None => b.events[s].id = s

Exact(b) == MarketsExact(b) /\ SelectionsExact(b) /\ BookmakersExact(b)

Good(b) == b \in Books /\ Keyed(b) /\ Exact(b)

Forget(b, ids) == DropIndexes(ForgetEvents(b, ids), Held(b, ids))

Add(b, S) == AddIndexes(SetEvents(b, S), S)
-----------------------------------------------------------------------------
(* An event of the wire in terms of its fields. *)
LEMMA EventTyping ==
  ASSUME NEW e \in SportEvents
  PROVE  /\ e.id \in SportEventIds
         /\ e # None
         /\ DOMAIN e.markets \subseteq MarketIds
         /\ \A m \in DOMAIN e.markets : e.markets[m] \subseteq SelectionIds
  BY Typing DEF IsSportEvent

LEMMA SelectionsOfDef ==
  ASSUME NEW e, NEW x
  PROVE  x \in SelectionsOf(e) <=> \E m \in DOMAIN e.markets : x \in e.markets[m]
  BY DEF SelectionsOf

(* The fields of the book after the events of `ids` were forgotten. *)
LEMMA ForgetFields ==
  ASSUME NEW b \in Books, NEW ids \in SUBSET SportEventIds
  PROVE  /\ \A s \in SportEventIds :
              Forget(b, ids).events[s] = IF s \in ids THEN None ELSE b.events[s]
         /\ \A m \in MarketIds :
              Forget(b, ids).marketParent[m] =
                IF \E e \in Held(b, ids) : m \in DOMAIN e.markets
                  THEN None ELSE b.marketParent[m]
         /\ \A x \in SelectionIds :
              Forget(b, ids).selectionParent[x] =
                IF \E e \in Held(b, ids) : x \in SelectionsOf(e)
                  THEN None ELSE b.selectionParent[x]
         /\ \A k \in Bookmakers :
              Forget(b, ids).byBookmaker[k] = b.byBookmaker[k] \ IdsFor(Held(b, ids), k)
  BY DEF Forget, DropIndexes, ForgetEvents, Books

LEMMA ForgetTyped ==
  ASSUME NEW b \in Books, NEW ids \in SUBSET SportEventIds
  PROVE  Forget(b, ids) \in Books
  BY DEF Forget, DropIndexes, ForgetEvents, Books

(* Forgetting well-formed events with their index entries keeps the book good. *)
LEMMA ForgetGood ==
  ASSUME NEW b, Good(b), NEW ids \in SUBSET SportEventIds,
         \A s \in ids : WellFormed(s)
  PROVE  Good(Forget(b, ids))
  <1> DEFINE c == Forget(b, ids)
             H == Held(b, ids)
  <1>1. b \in Books /\ Keyed(b) /\ Exact(b)
    BY DEF Good
  <1>2. c \in Books
    BY <1>1, ForgetTyped
  <1>3. \A s \in SportEventIds : c.events[s] = IF s \in ids THEN None ELSE b.events[s]
    BY <1>1, ForgetFields
  <1>4. Keyed(c)
    BY <1>1, <1>3 DEF Keyed
  <1>5. \A e : e \in H <=> \E s \in ids : b.events[s] # None /\ e = b.events[s]
    BY DEF Held
  <1>6. \A e \in H : e \in SportEvents /\ e.id \in ids
    BY <1>1, <1>5 DEF Keyed, Books
  <1>7. MarketsExact(c)
    <2> SUFFICES ASSUME NEW m \in MarketIds, NEW s \in SportEventIds
                 PROVE  c.marketParent[m] = s <=>
                          Indexed(c, s) /\ m \in DOMAIN c.events[s].markets
      BY DEF MarketsExact
    <2>1. c.marketParent[m] =
            IF \E e \in H : m \in DOMAIN e.markets THEN None ELSE b.marketParent[m]
      BY <1>1, ForgetFields
    <2>2. b.marketParent[m] = s <=> Indexed(b, s) /\ m \in DOMAIN b.events[s].markets
      BY <1>1 DEF Exact, MarketsExact
    <2>3. CASE \E e \in H : m \in DOMAIN e.markets
      <3>1. PICK e \in H : m \in DOMAIN e.markets
        BY <2>3
      <3>2. c.marketParent[m] # s
        BY <2>1, <2>3, Typing
      <3>3. ASSUME Indexed(c, s), m \in DOMAIN c.events[s].markets
            PROVE  FALSE
        <4>1. s \notin ids /\ b.events[s] # None /\ m \in DOMAIN b.events[s].markets
          BY <3>3, <1>3 DEF Indexed
        <4>2. b.events[s] \in SportEvents /\ b.events[s].id = s
          BY <4>1, <1>1 DEF Books, Keyed
        <4>3. e \in SportEvents /\ e.id # s
          BY <3>1, <1>6, <4>1
        <4> QED BY <3>1, <4>1, <4>2, <4>3, IdGrammar
      <3> QED BY <3>2, <3>3
    <2>4. CASE ~ \E e \in H : m \in DOMAIN e.markets
      <3>1. c.marketParent[m] = b.marketParent[m]
        BY <2>1, <2>4
      <3>2. CASE s \in ids
        <4>1. ~ (Indexed(b, s) /\ m \in DOMAIN b.events[s].markets)
          BY <3>2, <2>4, <1>5 DEF Indexed
        <4> QED BY <3>1, <4>1, <2>2, <1>3, <3>2 DEF Indexed
      <3>3. CASE s \notin ids
        BY <3>1, <3>3, <2>2, <1>3 DEF Indexed
      <3> QED BY <3>2, <3>3
    <2> QED BY <2>3, <2>4
  <1>8. SelectionsExact(c)
    <2> SUFFICES ASSUME NEW x \in SelectionIds, NEW m \in MarketIds
                 PROVE  c.selectionParent[x] = m <=>
                          \E s \in SportEventIds :
                            /\ Indexed(c, s)
                            /\ m \in DOMAIN c.events[s].markets
                            /\ x \in c.events[s].markets[m]
      BY DEF SelectionsExact
    <2>1. c.selectionParent[x] =
            IF \E e \in H : x \in SelectionsOf(e) THEN None ELSE b.selectionParent[x]
      BY <1>1, ForgetFields
    <2>2. b.selectionParent[x] = m <=>
            \E s \in SportEventIds : /\ Indexed(b, s)
                                     /\ m \in DOMAIN b.events[s].markets
                                     /\ x \in b.events[s].markets[m]
      BY <1>1 DEF Exact, SelectionsExact
    <2>3. CASE \E e \in H : x \in SelectionsOf(e)
      <3>1. PICK e \in H : x \in SelectionsOf(e)
        BY <2>3
      <3>2. PICK n \in DOMAIN e.markets : x \in e.markets[n]
        BY <3>1, SelectionsOfDef
      <3>3. c.selectionParent[x] # m
        BY <2>1, <2>3, Typing
      <3>4. ASSUME NEW s \in SportEventIds, Indexed(c, s),
                   m \in DOMAIN c.events[s].markets, x \in c.events[s].markets[m]
            PROVE  FALSE
        <4>1. /\ s \notin ids /\ b.events[s] # None
              /\ m \in DOMAIN b.events[s].markets /\ x \in b.events[s].markets[m]
          BY <3>4, <1>3 DEF Indexed
        <4>2. b.events[s] \in SportEvents /\ b.events[s].id = s
          BY <4>1, <1>1 DEF Books, Keyed
        <4>3. e \in SportEvents /\ e.id # s
          BY <3>1, <1>6, <4>1
        <4>4. n # m
          BY <4>1, <4>2, <4>3, <3>2, IdGrammar
        <4> QED BY <3>2, <4>1, <4>2, <4>3, <4>4, IdGrammar
      <3> QED BY <3>3, <3>4
    <2>4. CASE ~ \E e \in H : x \in SelectionsOf(e)
      <3>1. c.selectionParent[x] = b.selectionParent[x]
        BY <2>1, <2>4
      <3>2. ASSUME NEW s \in SportEventIds
            PROVE  (/\ Indexed(c, s)
                    /\ m \in DOMAIN c.events[s].markets
                    /\ x \in c.events[s].markets[m])
                   <=> (/\ Indexed(b, s)
                        /\ m \in DOMAIN b.events[s].markets
                        /\ x \in b.events[s].markets[m])
        <4>1. CASE s \in ids
          <5>1. ~ (/\ Indexed(b, s)
                   /\ m \in DOMAIN b.events[s].markets
                   /\ x \in b.events[s].markets[m])
            BY <4>1, <2>4, <1>5, SelectionsOfDef DEF Indexed
          <5> QED BY <5>1, <1>3, <4>1 DEF Indexed
        <4>2. CASE s \notin ids
          BY <4>2, <1>3 DEF Indexed
        <4> QED BY <4>1, <4>2
      <3> QED BY <3>1, <3>2, <2>2
    <2> QED BY <2>3, <2>4
  <1>9. BookmakersExact(c)
    <2> SUFFICES ASSUME NEW k \in Bookmakers, NEW s \in SportEventIds
                 PROVE  s \in c.byBookmaker[k] <=>
                          c.events[s] # None /\ BookmakerOf[s] = k
      BY DEF BookmakersExact
    <2>1. c.byBookmaker[k] = b.byBookmaker[k] \ IdsFor(H, k)
      BY <1>1, ForgetFields
    <2>2. s \in b.byBookmaker[k] <=> b.events[s] # None /\ BookmakerOf[s] = k
      BY <1>1 DEF Exact, BookmakersExact
    <2>3. s \in IdsFor(H, k) <=> s \in ids /\ b.events[s] # None /\ BookmakerOf[s] = k
      BY <1>5, <1>6, <1>1 DEF IdsFor, Keyed
    <2> QED BY <2>1, <2>2, <2>3, <1>3
  <1> QED BY <1>2, <1>4, <1>7, <1>8, <1>9 DEF Good, Exact
-----------------------------------------------------------------------------
(* Adding events the book does not hold keeps it good. *)

Addable(b, S) ==
  /\ S \in SUBSET SportEvents
  /\ \A e, f \in S : e.id = f.id => e = f
  /\ \A e \in S : WellFormed(e.id) /\ b.events[e.id] = None

LEMMA AddFields ==
  ASSUME NEW b \in Books, NEW S
  PROVE  /\ \A s \in SportEventIds :
              Add(b, S).events[s] =
                IF \E e \in S : e.id = s THEN CHOOSE e \in S : e.id = s ELSE b.events[s]
         /\ \A m \in MarketIds :
              Add(b, S).marketParent[m] =
                IF \E e \in S : m \in DOMAIN e.markets
                  THEN EventHolding(S, m).id ELSE b.marketParent[m]
         /\ \A x \in SelectionIds :
              Add(b, S).selectionParent[x] =
                IF \E e \in S : x \in SelectionsOf(e)
                  THEN MarketHolding(S, x) ELSE b.selectionParent[x]
         /\ \A k \in Bookmakers :
              Add(b, S).byBookmaker[k] = b.byBookmaker[k] \cup IdsFor(S, k)
  BY DEF Add, AddIndexes, SetEvents, Overlay, Books

(* The event of S an index entry is made from is the one that holds the market. *)
LEMMA EventHoldingIs ==
  ASSUME NEW S \in SUBSET SportEvents, \A e, f \in S : e.id = f.id => e = f,
         NEW e \in S, NEW m \in DOMAIN e.markets
  PROVE  EventHolding(S, m) = e
  <1>1. EventHolding(S, m) \in S /\ m \in DOMAIN EventHolding(S, m).markets
    BY DEF EventHolding
  <1>2. EventHolding(S, m).id = e.id
    BY <1>1, IdGrammar
  <1> QED BY <1>1, <1>2

LEMMA MarketHoldingIs ==
  ASSUME NEW S \in SUBSET SportEvents,
         NEW e \in S, NEW m \in DOMAIN e.markets, NEW x \in e.markets[m]
  PROVE  MarketHolding(S, x) = m
  <1>1. m \in MarketIds
    BY EventTyping
  <1>2. PICK f \in S : /\ MarketHolding(S, x) \in DOMAIN f.markets
                       /\ x \in f.markets[MarketHolding(S, x)]
    BY <1>1 DEF MarketHolding
  <1> QED BY <1>2, IdGrammar

LEMMA ChosenEvent ==
  ASSUME NEW S, \A e, f \in S : e.id = f.id => e = f, NEW e \in S
  PROVE  (CHOOSE f \in S : f.id = e.id) = e
  OBVIOUS

LEMMA AddTyped ==
  ASSUME NEW b \in Books, NEW S \in SUBSET SportEvents,
         \A e, f \in S : e.id = f.id => e = f
  PROVE  Add(b, S) \in Books
  <1>1. \A e \in S : e.id \in SportEventIds
    BY EventTyping
  <1>2. \A m \in MarketIds :
          (\E e \in S : m \in DOMAIN e.markets) => EventHolding(S, m).id \in SportEventIds
    BY <1>1, EventHoldingIs
  <1>3. \A x \in SelectionIds :
          (\E e \in S : x \in SelectionsOf(e)) => MarketHolding(S, x) \in MarketIds
    <2> SUFFICES ASSUME NEW x \in SelectionIds, NEW e \in S, x \in SelectionsOf(e)
                 PROVE  MarketHolding(S, x) \in MarketIds
      OBVIOUS
    <2>1. PICK m \in DOMAIN e.markets : x \in e.markets[m]
      BY SelectionsOfDef
    <2> QED BY <2>1, MarketHoldingIs, EventTyping
  <1>4. \A k \in Bookmakers : IdsFor(S, k) \subseteq SportEventIds
    BY <1>1 DEF IdsFor
  <1>5. \A s \in SportEventIds :
          (\E e \in S : e.id = s) => (CHOOSE e \in S : e.id = s) \in SportEvents
    OBVIOUS
  <1> QED BY <1>2, <1>3, <1>4, <1>5 DEF Add, AddIndexes, SetEvents, Overlay, Books

LEMMA AddGood ==
  ASSUME NEW b, Good(b), NEW S, Addable(b, S)
  PROVE  Good(Add(b, S))
  <1> DEFINE c == Add(b, S)
  <1>1. b \in Books /\ Keyed(b) /\ Exact(b)
    BY DEF Good
  <1>2. /\ S \in SUBSET SportEvents
        /\ \A e, f \in S : e.id = f.id => e = f
        /\ \A e \in S : WellFormed(e.id) /\ b.events[e.id] = None
    BY DEF Addable
  <1>3. c \in Books
    BY <1>1, <1>2, AddTyped
  <1>4. \A s \in SportEventIds :
          c.events[s] = IF \E e \in S : e.id = s
                          THEN CHOOSE e \in S : e.id = s ELSE b.events[s]
    BY <1>1, AddFields
  <1>5. \A e \in S : c.events[e.id] = e /\ e.id \in SportEventIds /\ e # None
    BY <1>2, <1>4, ChosenEvent, EventTyping
  <1>6. \A s \in SportEventIds : (\A e \in S : e.id # s) => c.events[s] = b.events[s]
    BY <1>4
  <1>7. Keyed(c)
    BY <1>1, <1>5, <1>6 DEF Keyed
  <1>8. MarketsExact(c)
    <2> SUFFICES ASSUME NEW m \in MarketIds, NEW s \in SportEventIds
                 PROVE  c.marketParent[m] = s <=>
                          Indexed(c, s) /\ m \in DOMAIN c.events[s].markets
      BY DEF MarketsExact
    <2>1. c.marketParent[m] = IF \E e \in S : m \in DOMAIN e.markets
                                THEN EventHolding(S, m).id ELSE b.marketParent[m]
      BY <1>1, AddFields
    <2>2. b.marketParent[m] = s <=> Indexed(b, s) /\ m \in DOMAIN b.events[s].markets
      BY <1>1 DEF Exact, MarketsExact
    <2>3. CASE \E e \in S : m \in DOMAIN e.markets
      <3>1. PICK e \in S : m \in DOMAIN e.markets
        BY <2>3
      <3>2. c.marketParent[m] = e.id
        BY <2>1, <3>1, <1>2, EventHoldingIs
      <3>3. CASE s = e.id
        BY <3>1, <3>2, <3>3, <1>2, <1>5 DEF Indexed
      <3>4. ASSUME s # e.id, Indexed(c, s), m \in DOMAIN c.events[s].markets
            PROVE  FALSE
        <4>1. c.events[s] \in SportEvents /\ c.events[s].id = s
          BY <3>4, <1>3, <1>7 DEF Indexed, Books, Keyed
        <4> QED BY <4>1, <3>1, <3>4, <1>2, IdGrammar
      <3> QED BY <3>2, <3>3, <3>4
    <2>4. CASE ~ \E e \in S : m \in DOMAIN e.markets
      <3>1. c.marketParent[m] = b.marketParent[m]
        BY <2>1, <2>4
      <3>2. CASE \E e \in S : e.id = s
        <4>1. ~ Indexed(b, s)
          BY <3>2, <1>2 DEF Indexed
        <4>2. m \notin DOMAIN c.events[s].markets
          BY <3>2, <2>4, <1>5
        <4> QED BY <3>1, <2>2, <4>1, <4>2
      <3>3. CASE \A e \in S : e.id # s
        BY <3>1, <2>2, <3>3, <1>6 DEF Indexed
      <3> QED BY <3>2, <3>3
    <2> QED BY <2>3, <2>4
  <1>9. SelectionsExact(c)
    <2> DEFINE Holds(d, s, m, x) == /\ Indexed(d, s)
                                    /\ m \in DOMAIN d.events[s].markets
                                    /\ x \in d.events[s].markets[m]
    <2> SUFFICES ASSUME NEW x \in SelectionIds, NEW m \in MarketIds
                 PROVE  c.selectionParent[x] = m <=>
                          \E s \in SportEventIds : Holds(c, s, m, x)
      BY DEF SelectionsExact
    <2>1. c.selectionParent[x] = IF \E e \in S : x \in SelectionsOf(e)
                                   THEN MarketHolding(S, x) ELSE b.selectionParent[x]
      BY <1>1, AddFields
    <2>2. b.selectionParent[x] = m <=> \E s \in SportEventIds : Holds(b, s, m, x)
      BY <1>1 DEF Exact, SelectionsExact
    <2>3. CASE \E e \in S : x \in SelectionsOf(e)
      <3>1. PICK e \in S : x \in SelectionsOf(e)
        BY <2>3
      <3>2. PICK n \in DOMAIN e.markets : x \in e.markets[n]
        BY <3>1, SelectionsOfDef
      <3>3. c.selectionParent[x] = n
        BY <2>1, <2>3, <3>2, <1>2, MarketHoldingIs
      <3>4. Holds(c, e.id, n, x)
        BY <3>2, <1>2, <1>5 DEF Indexed
      <3>5. ASSUME NEW s \in SportEventIds, Holds(c, s, m, x)
            PROVE  m = n
        <4>1. c.events[s] \in SportEvents
          BY <3>5, <1>3 DEF Indexed, Books
        <4>2. e \in SportEvents
          BY <1>2
        <4> QED BY <4>1, <4>2, <3>2, <3>5, IdGrammar
      <3> QED BY <3>3, <3>4, <3>5, <1>5
    <2>4. CASE ~ \E e \in S : x \in SelectionsOf(e)
      <3>1. c.selectionParent[x] = b.selectionParent[x]
        BY <2>1, <2>4
      <3>2. ASSUME NEW s \in SportEventIds
            PROVE  Holds(c, s, m, x) <=> Holds(b, s, m, x)
        <4>1. CASE \E e \in S : e.id = s
          <5>1. ~ Holds(b, s, m, x)
            BY <4>1, <1>2 DEF Indexed
          <5>2. ~ Holds(c, s, m, x)
            BY <4>1, <2>4, <1>5, SelectionsOfDef
          <5> QED BY <5>1, <5>2
        <4>2. CASE \A e \in S : e.id # s
          BY <4>2, <1>6 DEF Indexed
        <4> QED BY <4>1, <4>2
      <3> QED BY <3>1, <3>2, <2>2
    <2> QED BY <2>3, <2>4
  <1>10. BookmakersExact(c)
    <2> SUFFICES ASSUME NEW k \in Bookmakers, NEW s \in SportEventIds
                 PROVE  s \in c.byBookmaker[k] <=>
                          c.events[s] # None /\ BookmakerOf[s] = k
      BY DEF BookmakersExact
    <2>1. c.byBookmaker[k] = b.byBookmaker[k] \cup IdsFor(S, k)
      BY <1>1, AddFields
    <2>2. s \in b.byBookmaker[k] <=> b.events[s] # None /\ BookmakerOf[s] = k
      BY <1>1 DEF Exact, BookmakersExact
    <2>3. s \in IdsFor(S, k) <=> (\E e \in S : e.id = s) /\ BookmakerOf[s] = k
      BY DEF IdsFor
    <2>4. CASE \E e \in S : e.id = s
      BY <2>1, <2>2, <2>3, <2>4, <1>2, <1>5
    <2>5. CASE \A e \in S : e.id # s
      BY <2>1, <2>2, <2>3, <2>5, <1>6
    <2> QED BY <2>4, <2>5
  <1> QED BY <1>3, <1>7, <1>8, <1>9, <1>10 DEF Good, Exact
-----------------------------------------------------------------------------
(* The methods, as compositions of the two moves. *)

LEMMA PutIs ==
  ASSUME NEW b \in Books, NEW S \in SUBSET SportEvents
  PROVE  Put(b, S) = Add(Forget(b, {e.id : e \in S}), S)
  <1> DEFINE ids == {e.id : e \in S}
             H   == Held(b, ids)
  <1>1. \A s \in SportEventIds : ~ (\E e \in S : e.id = s) => s \notin ids
    OBVIOUS
  <1>2. SetEvents(DropIndexes(b, H), S) = SetEvents(DropIndexes(ForgetEvents(b, ids), H), S)
    <2> DEFINE f == ForgetEvents(b, ids)
    <2>1. /\ f.marketParent = b.marketParent
          /\ f.selectionParent = b.selectionParent
          /\ f.byBookmaker = b.byBookmaker
          /\ \A s \in SportEventIds : s \notin ids => f.events[s] = b.events[s]
      BY DEF ForgetEvents, Books
    <2>2. Overlay(f.events, S) = Overlay(b.events, S)
      BY <1>1, <2>1 DEF Overlay
    <2> HIDE DEF f, H
    <2>3. ASSUME NEW d
          PROVE  SetEvents(DropIndexes(d, H), S) =
                   [events          |-> Overlay(d.events, S),
                    marketParent    |-> DropIndexes(d, H).marketParent,
                    selectionParent |-> DropIndexes(d, H).selectionParent,
                    byBookmaker     |-> DropIndexes(d, H).byBookmaker]
      <3>1. DropIndexes(d, H) = [events          |-> d.events,
                                 marketParent    |-> DropIndexes(d, H).marketParent,
                                 selectionParent |-> DropIndexes(d, H).selectionParent,
                                 byBookmaker     |-> DropIndexes(d, H).byBookmaker]
        BY DEF DropIndexes
      <3> QED BY <3>1 DEF SetEvents
    <2>4. /\ DropIndexes(f, H).marketParent = DropIndexes(b, H).marketParent
          /\ DropIndexes(f, H).selectionParent = DropIndexes(b, H).selectionParent
          /\ DropIndexes(f, H).byBookmaker = DropIndexes(b, H).byBookmaker
      BY <2>1 DEF DropIndexes
    <2>5. SetEvents(DropIndexes(b, H), S) = SetEvents(DropIndexes(f, H), S)
      BY <2>2, <2>3, <2>4
    <2> QED BY <2>5 DEF f
  <1> QED BY <1>2 DEF Put, Add, Forget

LEMMA PutGood ==
  ASSUME NEW b, Good(b), NEW S \in SUBSET SportEvents,
         \A e, f \in S : e.id = f.id => e = f,
         \A e \in S : WellFormed(e.id)
  PROVE  Good(Put(b, S))
  <1> DEFINE ids == {e.id : e \in S}
             c   == Forget(b, ids)
  <1>1. ids \in SUBSET SportEventIds
    BY EventTyping
  <1>2. b \in Books
    BY DEF Good
  <1>3. Good(c)
    BY <1>1, ForgetGood
  <1>4. \A s \in SportEventIds : c.events[s] = IF s \in ids THEN None ELSE b.events[s]
    BY <1>1, <1>2, ForgetFields
  <1>5. Addable(c, S)
    BY <1>1, <1>4 DEF Addable
  <1>6. Good(Add(c, S))
    BY <1>3, <1>5, AddGood
  <1> QED BY <1>2, <1>6, PutIs

(* Storing or forgetting an event with a malformed id touches no index. *)
LEMMA MalformedGood ==
  ASSUME NEW b, Good(b), NEW d \in Books, Keyed(d),
         d.marketParent = b.marketParent, d.selectionParent = b.selectionParent,
         d.byBookmaker = b.byBookmaker,
         \A s \in SportEventIds : WellFormed(s) => d.events[s] = b.events[s]
  PROVE  Good(d)
  <1>1. \A s \in SportEventIds :
          /\ Indexed(d, s) <=> Indexed(b, s)
          /\ Indexed(d, s) => d.events[s] = b.events[s]
    BY DEF Indexed
  <1>2. MarketsExact(d)
    <2> SUFFICES ASSUME NEW m \in MarketIds, NEW s \in SportEventIds
                 PROVE  d.marketParent[m] = s <=>
                          Indexed(d, s) /\ m \in DOMAIN d.events[s].markets
      BY DEF MarketsExact
    <2>1. b.marketParent[m] = s <=> Indexed(b, s) /\ m \in DOMAIN b.events[s].markets
      BY DEF Good, Exact, MarketsExact
    <2> QED BY <1>1, <2>1
  <1>3. SelectionsExact(d)
    <2> SUFFICES ASSUME NEW x \in SelectionIds, NEW m \in MarketIds
                 PROVE  d.selectionParent[x] = m <=>
                          \E s \in SportEventIds : /\ Indexed(d, s)
                                                   /\ m \in DOMAIN d.events[s].markets
                                                   /\ x \in d.events[s].markets[m]
      BY DEF SelectionsExact
    <2>1. b.selectionParent[x] = m <=>
            \E s \in SportEventIds : /\ Indexed(b, s)
                                     /\ m \in DOMAIN b.events[s].markets
                                     /\ x \in b.events[s].markets[m]
      BY DEF Good, Exact, SelectionsExact
    <2> QED BY <1>1, <2>1
  <1>4. BookmakersExact(d)
    <2>1. \A k \in Bookmakers, s \in SportEventIds : BookmakerOf[s] = k => WellFormed(s)
      BY Typing DEF WellFormed
    <2>2. \A k \in Bookmakers, s \in SportEventIds :
            s \in b.byBookmaker[k] <=> b.events[s] # None /\ BookmakerOf[s] = k
      BY DEF Good, Exact, BookmakersExact
    <2> QED BY <2>1, <2>2 DEF BookmakersExact
  <1> QED BY <1>2, <1>3, <1>4 DEF Good, Exact

LEMMA UpsertGood ==
  ASSUME NEW b, Good(b), NEW e \in SportEvents
  PROVE  Good(Upsert(b, e))
  <1>1. CASE WellFormed(e.id)
    BY <1>1, PutGood DEF Upsert
  <1>2. CASE ~ WellFormed(e.id) /\ b.events[e.id] = None
    <2> DEFINE d == SetEvents(b, {e})
    <2>1. b \in Books /\ Keyed(b)
      BY DEF Good
    <2>2. /\ d \in Books
          /\ d.marketParent = b.marketParent /\ d.selectionParent = b.selectionParent
          /\ d.byBookmaker = b.byBookmaker
          /\ \A s \in SportEventIds : d.events[s] = IF e.id = s THEN e ELSE b.events[s]
      BY <2>1 DEF SetEvents, Overlay, Books
    <2>3. Keyed(d)
      BY <2>1, <2>2 DEF Keyed
    <2>4. Good(d)
      BY <1>2, <2>2, <2>3, MalformedGood
    <2> QED BY <1>2, <2>4 DEF Upsert
  <1>3. CASE ~ WellFormed(e.id) /\ b.events[e.id] # None
    BY <1>3 DEF Upsert
  <1> QED BY <1>1, <1>2, <1>3

LEMMA RemoveGood ==
  ASSUME NEW b, Good(b), NEW s \in SportEventIds
  PROVE  Good(Remove(b, s))
  <1>1. CASE WellFormed(s)
    <2>1. Good(Forget(b, {s}))
      BY <1>1, ForgetGood
    <2> QED BY <1>1, <2>1 DEF Remove, Forget
  <1>2. CASE ~ WellFormed(s)
    <2> DEFINE d == ForgetEvents(b, {s})
    <2>1. b \in Books /\ Keyed(b)
      BY DEF Good
    <2>2. /\ d \in Books
          /\ d.marketParent = b.marketParent /\ d.selectionParent = b.selectionParent
          /\ d.byBookmaker = b.byBookmaker
          /\ \A t \in SportEventIds : d.events[t] = IF t = s THEN None ELSE b.events[t]
      BY <2>1 DEF ForgetEvents, Books
    <2>3. Keyed(d)
      BY <2>1, <2>2 DEF Keyed
    <2>4. Good(d)
      BY <1>2, <2>2, <2>3, MalformedGood
    <2> QED BY <1>2, <2>4 DEF Remove
  <1> QED BY <1>1, <1>2

(* clear_bookmaker drops exactly the events its index names, and the safety
   net at its end never has anything left to remove. *)
LEMMA ClearBookmakerIs ==
  ASSUME NEW b, Good(b), NEW k \in Bookmakers
  PROVE  /\ b.byBookmaker[k] \in SUBSET SportEventIds
         /\ \A s \in b.byBookmaker[k] : WellFormed(s)
         /\ ClearBookmaker(b, k) = Forget(b, b.byBookmaker[k])
  <1> DEFINE ids == b.byBookmaker[k]
             c   == Forget(b, ids)
  <1>1. b \in Books
    BY DEF Good
  <1>2. ids \in SUBSET SportEventIds
    BY <1>1 DEF Books
  <1>3. \A s \in ids : WellFormed(s) /\ BookmakerOf[s] = k /\ b.events[s] # None
    BY <1>2, Typing DEF Good, Exact, BookmakersExact, WellFormed
  <1>4. c \in Books /\ Good(c)
    BY <1>1, <1>2, <1>3, ForgetTyped, ForgetGood
  <1>5. c.byBookmaker[k] = {}
    <2>1. \A s \in SportEventIds : c.events[s] = IF s \in ids THEN None ELSE b.events[s]
      BY <1>1, <1>2, ForgetFields
    <2>2. \A s \in SportEventIds :
            /\ s \in c.byBookmaker[k] <=> c.events[s] # None /\ BookmakerOf[s] = k
            /\ s \in ids <=> b.events[s] # None /\ BookmakerOf[s] = k
      <3> HIDE DEF c
      <3> QED BY <1>4 DEF Good, Exact, BookmakersExact
    <2>3. \A s \in SportEventIds : s \notin c.byBookmaker[k]
      <3> HIDE DEF c, ids
      <3> QED BY <2>1, <2>2
    <2> QED BY <1>4, <2>3 DEF Books
  <1>6. CASE ids = {}
    <2>1. ClearBookmaker(b, k) = b
      BY <1>6 DEF ClearBookmaker
    <2>2. Held(b, ids) = {}
      BY <1>6 DEF Held
    <2>3. /\ c.events = b.events
          /\ c.marketParent = b.marketParent
          /\ c.selectionParent = b.selectionParent
          /\ c.byBookmaker = b.byBookmaker
      BY <1>1, <1>6, <2>2 DEF Forget, DropIndexes, ForgetEvents, IdsFor, Books
    <2>4. c = b
      BY <2>3, <1>1, <1>4 DEF Books
    <2> QED BY <1>2, <1>3, <2>1, <2>4
  <1>7. CASE ids # {}
    <2>1. ClearBookmaker(b, k) = [c EXCEPT !.byBookmaker[k] = {}]
      BY <1>7 DEF ClearBookmaker, Forget
    <2>2. [c EXCEPT !.byBookmaker[k] = {}] = c
      BY <1>4, <1>5 DEF Books
    <2> QED BY <1>2, <1>3, <2>1, <2>2
  <1> QED BY <1>6, <1>7

LEMMA ClearBookmakerGood ==
  ASSUME NEW b, Good(b), NEW k \in Bookmakers
  PROVE  Good(ClearBookmaker(b, k))
  BY ClearBookmakerIs, ForgetGood

LEMMA ReplaceBookmakerGood ==
  ASSUME NEW b, Good(b), NEW k \in Bookmakers, NEW S \in Batches,
         NEW d \in ReplaceBookmaker(b, k, S)
  PROVE  Good(d)
  <1> DEFINE cleared == ClearBookmaker(b, k)
             good == {e \in S : WellFormed(e.id)}
  <1>1. Good(cleared)
    BY ClearBookmakerGood
  <1>2. S \in SUBSET SportEvents /\ \A e, f \in S : e.id = f.id => e = f
    BY DEF Batches
  <1>3. CASE good = S
    <2>1. d = Put(cleared, S) /\ \A e \in S : WellFormed(e.id)
      BY <1>3 DEF ReplaceBookmaker
    <2> QED BY <1>1, <1>2, <2>1, PutGood
  <1>4. CASE good # S
    <2>1. PICK P \in SUBSET good, e \in S \ good : d = Upsert(Put(cleared, P), e)
      BY <1>4 DEF ReplaceBookmaker
    <2>2. Good(Put(cleared, P))
      BY <1>1, <1>2, PutGood
    <2> QED BY <1>2, <2>1, <2>2, UpsertGood
  <1> QED BY <1>3, <1>4

LEMMA EmptyGood == Good(EmptyBook)
  <1>1. EmptyBook \in Books
    BY DEF EmptyBook, Books
  <1>2. Exact(EmptyBook)
    BY Typing DEF Exact, MarketsExact, SelectionsExact, BookmakersExact, EmptyBook, Indexed
  <1> QED BY <1>1, <1>2 DEF Good, Keyed, EmptyBook
-----------------------------------------------------------------------------
(* The inductive invariant: every reachable book is good. *)
THEOREM BookStaysGood == Spec => []Good(book)
  <1>1. Init => Good(book)
    BY EmptyGood DEF Init
  <1>2. Good(book) /\ [Next]_book => Good(book')
    <2> SUFFICES ASSUME Good(book), [Next]_book PROVE Good(book')
      OBVIOUS
    <2>1. CASE UpsertEvent
      BY <2>1, UpsertGood DEF UpsertEvent
    <2>2. CASE RemoveEvent
      BY <2>2, RemoveGood DEF RemoveEvent
    <2>3. CASE ClearSource
      BY <2>3, ClearBookmakerGood DEF ClearSource
    <2>4. CASE ReplaceSource
      BY <2>4, ReplaceBookmakerGood DEF ReplaceSource
    <2>5. CASE ClearAll
      BY <2>5, EmptyGood DEF ClearAll
    <2>6. CASE UNCHANGED book
      BY <2>6
    <2> QED BY <2>1, <2>2, <2>3, <2>4, <2>5, <2>6 DEF Next
  <1>3. Good(book)' <=> Good(book')
    BY DEF Good, Books, Keyed, Exact, MarketsExact, SelectionsExact, BookmakersExact, Indexed
  <1> QED BY <1>1, <1>2, <1>3, PTL DEF Spec

(* The book is always well typed: its dictionaries hold ids and events of the
   wire only. *)
THEOREM BookTyped == Spec => []TypeOK
  <1>1. Good(book) => TypeOK
    BY DEF Good, TypeOK
  <1> QED BY <1>1, BookStaysGood, PTL

(* The three indexes of the book describe exactly its well-formed events,
   whatever upserts, removals, clears and resyncs led there. *)
THEOREM IndexesAlwaysExact == Spec => []IndexesExact
  <1>1. Good(book) => IndexesExact
    BY DEF Good, Exact, IndexesExact
  <1> QED BY <1>1, BookStaysGood, PTL

(* get_market and find_context find every market and selection the book
   holds, with the current version of its event. *)
THEOREM LookupsAlwaysExact == Spec => []LookupsExact
  <1>1. Good(book) => LookupsExact
    <2> SUFFICES ASSUME Good(book), NEW s \in SportEventIds, Indexed(book, s),
                        NEW m \in DOMAIN book.events[s].markets
                 PROVE  LET e == book.events[s]
                        IN /\ GetMarket(book, m) = [id |-> m, selections |-> e.markets[m]]
                           /\ \A x \in e.markets[m] :
                                FindContext(book, x) =
                                  [sportEvent |-> e, market |-> GetMarket(book, m),
                                   selection |-> x]
      BY DEF LookupsExact
    <2> DEFINE e == book.events[s]
    <2>1. e \in SportEvents /\ e # None
      BY DEF Good, Books, Indexed
    <2>2. m \in MarketIds /\ e.markets[m] \subseteq SelectionIds
      BY <2>1, EventTyping
    <2>3. book.marketParent[m] = s
      BY <2>2 DEF Good, Exact, MarketsExact
    <2>4. s # None /\ m # None
      BY <2>2, Typing
    <2>5. GetMarket(book, m) = [id |-> m, selections |-> e.markets[m]]
      BY <2>1, <2>3, <2>4 DEF GetMarket
    <2>6. ASSUME NEW x \in e.markets[m]
          PROVE  FindContext(book, x) =
                   [sportEvent |-> e, market |-> GetMarket(book, m), selection |-> x]
      <3>1. book.selectionParent[x] = m
        BY <2>2 DEF Good, Exact, SelectionsExact
      <3> QED BY <3>1, <2>1, <2>3, <2>4, <2>5 DEF FindContext
    <2> QED BY <2>5, <2>6
  <1> QED BY <1>1, BookStaysGood, PTL
-----------------------------------------------------------------------------
(* The id grammar and the indexes. *)

LEMMA MarketIdTaken ==
  ASSUME NEW e \in SportEvents, WellFormed(e.id), NEW m \in DOMAIN e.markets
  PROVE  /\ m \in MarketIds /\ m \in Seq(Segments) /\ Len(m) > 3
         /\ Ids!GetSportEventId(m) = e.id
         /\ m[1] = e.id[1] /\ m[2] = e.id[2]
  <1> DEFINE a == SubSeq(m, 4, Len(m))
  <1>1. m \in MarketIds /\ m \in Seq(Segments) /\ e.id \in Seq(Segments)
    BY EventTyping, IdsAreMade
  <1>2. Len(e.id) = 3 /\ Len(m) > 3 /\ m = e.id \o a
    BY IdsAreMade DEF Ids!MakeMarketId
  <1>3. a \in Seq(Segments)
    <2>1. Len(m) > 3
      BY <1>2
    <2> QED BY <1>1, <2>1, SubSeqProperties
  <1> HIDE DEF a
  <1>4. /\ Grammar!GetSportEventId(m) = e.id
        /\ m[1] = e.id[1] /\ m[2] = e.id[2]
    BY <1>1, <1>2, <1>3, Grammar!PrefixKept
  <1> QED BY <1>1, <1>2, <1>4 DEF Ids!GetSportEventId, Grammar!GetSportEventId

LEMMA SelectionIdTaken ==
  ASSUME NEW e \in SportEvents, WellFormed(e.id), NEW m \in DOMAIN e.markets,
         NEW x \in e.markets[m]
  PROVE  /\ x \in SelectionIds
         /\ Ids!GetSportEventId(x) = e.id
         /\ Ids!GetMarketId(x) = m
         /\ Len(x) > 1 /\ Ids!Stripped(x) = m
         /\ Ids!GetBookmaker(x) = BookmakerOf[e.id]
  <1>1. PICK r \in Segments : x = Ids!MakeSelectionId(m, <<r>>)
    BY IdsAreMade
  <1>2. /\ m \in Seq(Segments) /\ Len(m) > 3 /\ Ids!GetSportEventId(m) = e.id
        /\ m[1] = e.id[1] /\ m[2] = e.id[2]
    BY MarketIdTaken
  <1>3. x = Grammar!MakeSelectionId(m, <<r>>)
    BY <1>1 DEF Ids!MakeSelectionId, Grammar!MakeSelectionId
  <1>4. x \in Seq(Segments) /\ Len(x) = Len(m) + 1 /\ Grammar!Stripped(x) = m
    BY <1>2, <1>3, Grammar!AppendedThenStripped
  <1>5. Ids!Stripped(x) = m
    BY <1>4 DEF Ids!Stripped, Grammar!Stripped
  <1>6. \A i \in 1 .. Len(m) : x[i] = m[i]
    BY <1>1, <1>2 DEF Ids!MakeSelectionId
  <1>7. SubSeq(x, 1, 3) = SubSeq(m, 1, 3)
    BY <1>2, <1>4, <1>6
  <1>8. Ids!GetSportEventId(x) = e.id
    <2>1. Len(m) \in Nat /\ Len(x) \in Nat /\ ~ (Len(m) < 3) /\ ~ (Len(x) < 3)
      BY <1>2, <1>4
    <2>2. Ids!GetSportEventId(m) = SubSeq(m, 1, 3) /\ Ids!GetSportEventId(x) = SubSeq(x, 1, 3)
      BY <2>1 DEF Ids!GetSportEventId
    <2> QED BY <1>2, <1>7, <2>2
  <1>9. Ids!GetMarketId(x) = m
    BY <1>2, <1>4, <1>5 DEF Ids!GetMarketId
  <1>10. Ids!GetBookmaker(x) = BookmakerOf[e.id]
    <2>1. x[1] = e.id[1] /\ x[2] = e.id[2]
      BY <1>2, <1>6
    <2>2. BookmakerOf[e.id] = Ids!GetBookmaker(e.id) /\ Len(e.id) = 3
      BY EventTyping, IdsAreMade
    <2> QED BY <1>2, <1>4, <2>1, <2>2 DEF Ids!GetBookmaker
  <1> QED BY <1>2, <1>4, <1>5, <1>8, <1>9, <1>10, EventTyping

(* Taking an id apart and asking the indexes of the book lead to the same
   event and the same market, for every selection the book holds and for ids
   of any length. *)
THEOREM NavigationAlwaysAgrees == Spec => []NavigationAgrees
  <1>1. Good(book) /\ LookupsExact => NavigationAgrees
    <2> SUFFICES ASSUME Good(book), LookupsExact, NEW s \in SportEventIds, Indexed(book, s),
                        NEW e, e = book.events[s], NEW m \in DOMAIN e.markets
                 PROVE  /\ Ids!GetSportEventId(m) = book.marketParent[m]
                        /\ \A x \in e.markets[m] :
                             /\ Ids!GetSportEventId(x) = FindContext(book, x).sportEvent.id
                             /\ Ids!GetMarketId(x) = book.selectionParent[x]
                             /\ Ids!MarketAmong(DOMAIN e.markets, x) = book.selectionParent[x]
                             /\ Ids!GetBookmaker(x) = BookmakerOf[s]
                             /\ \A t \in SportEventIds \ {s} :
                                  book.events[t] # None =>
                                    Ids!MarketAmong(DOMAIN book.events[t].markets, x) = None
      BY DEF NavigationAgrees
    <2>1. e \in SportEvents /\ e.id = s /\ WellFormed(e.id)
      BY DEF Good, Books, Keyed, Indexed
    <2>2. Ids!GetSportEventId(m) = s /\ m \in MarketIds
      BY <2>1, MarketIdTaken
    <2>3. book.marketParent[m] = s
      BY <2>2 DEF Good, Exact, MarketsExact
    <2>4. ASSUME NEW x \in e.markets[m]
          PROVE  /\ Ids!GetSportEventId(x) = FindContext(book, x).sportEvent.id
                 /\ Ids!GetMarketId(x) = book.selectionParent[x]
                 /\ Ids!MarketAmong(DOMAIN e.markets, x) = book.selectionParent[x]
                 /\ Ids!GetBookmaker(x) = BookmakerOf[s]
                 /\ \A t \in SportEventIds \ {s} :
                      book.events[t] # None =>
                        Ids!MarketAmong(DOMAIN book.events[t].markets, x) = None
      <3>1. /\ x \in SelectionIds /\ Ids!GetSportEventId(x) = s /\ Ids!GetMarketId(x) = m
            /\ Len(x) > 1 /\ Ids!Stripped(x) = m
            /\ Ids!GetBookmaker(x) = BookmakerOf[s]
        BY <2>1, SelectionIdTaken
      <3>2. book.selectionParent[x] = m
        BY <2>2, <3>1 DEF Good, Exact, SelectionsExact
      <3>3. FindContext(book, x).sportEvent = e
        BY DEF LookupsExact
      <3>4. \A f \in SportEvents : x \notin DOMAIN f.markets
        BY <3>1, EventTyping, IdsAreMade
      <3>5. Ids!MarketAmong(DOMAIN e.markets, x) = m
        BY <2>1, <3>1, <3>4 DEF Ids!MarketAmong
      <3>6. ASSUME NEW t \in SportEventIds \ {s}, book.events[t] # None
            PROVE  Ids!MarketAmong(DOMAIN book.events[t].markets, x) = None
        <4>1. book.events[t] \in SportEvents /\ book.events[t].id = t
          BY <3>6 DEF Good, Books, Keyed
        <4>2. m \notin DOMAIN book.events[t].markets
          BY <2>1, <4>1, IdGrammar
        <4> QED BY <3>1, <3>4, <4>1, <4>2 DEF Ids!MarketAmong
      <3> QED BY <2>1, <3>1, <3>2, <3>3, <3>5, <3>6
    <2> QED BY <2>2, <2>3, <2>4
  <1> QED BY <1>1, BookStaysGood, LookupsAlwaysExact, PTL
-----------------------------------------------------------------------------
(* The refinement: what each method does to the events a reader sees. *)

LEMMA ForgetVisible ==
  ASSUME NEW b \in Books, NEW ids \in SUBSET SportEventIds
  PROVE  Visible(Forget(b, ids)) =
           [s \in SportEventIds |-> IF s \in ids THEN None ELSE Visible(b)[s]]
  BY ForgetFields DEF Visible

LEMMA PutVisible ==
  ASSUME NEW b, Good(b), NEW S \in SUBSET SportEvents,
         \A e, f \in S : e.id = f.id => e = f,
         \A e \in S : WellFormed(e.id)
  PROVE  Visible(Put(b, S)) = View!With(Visible(b), S)
  <1> DEFINE ids == {e.id : e \in S}
             c   == Forget(b, ids)
  <1>1. b \in Books /\ ids \in SUBSET SportEventIds
    BY EventTyping DEF Good
  <1>2. c \in Books
    BY <1>1, ForgetTyped
  <1>3. Put(b, S) = Add(c, S)
    BY <1>1, PutIs
  <1>4. \A s \in SportEventIds : c.events[s] = IF s \in ids THEN None ELSE b.events[s]
    BY <1>1, ForgetFields
  <1> HIDE DEF c
  <1>5. \A s \in SportEventIds :
          Add(c, S).events[s] =
            IF \E e \in S : e.id = s THEN CHOOSE e \in S : e.id = s ELSE c.events[s]
    BY <1>2, AddFields
  <1>6. \A s \in SportEventIds : s \in ids <=> \E e \in S : e.id = s
    OBVIOUS
  <1> HIDE DEF ids
  <1>7. ASSUME NEW s \in SportEventIds
        PROVE  Visible(Put(b, S))[s] = View!With(Visible(b), S)[s]
    <2>1. CASE \E e \in S : e.id = s
      BY <1>3, <1>5, <2>1 DEF Visible, View!With
    <2>2. CASE ~ \E e \in S : e.id = s
      <3>1. Add(c, S).events[s] = b.events[s]
        BY <1>4, <1>5, <1>6, <2>2
      <3>2. View!With(Visible(b), S)[s] = Visible(b)[s]
        BY <2>2 DEF View!With
      <3> QED BY <3>1, <3>2, <1>3 DEF Visible
    <2> QED BY <2>1, <2>2
  <1> QED BY <1>7 DEF Visible, View!With

LEMMA ClearVisible ==
  ASSUME NEW b, Good(b), NEW k \in Bookmakers
  PROVE  Visible(ClearBookmaker(b, k)) = View!Without(Visible(b), k)
  <1> DEFINE ids == b.byBookmaker[k]
  <1>1. b \in Books
    BY DEF Good
  <1>2. ids \in SUBSET SportEventIds /\ ClearBookmaker(b, k) = Forget(b, ids)
    BY ClearBookmakerIs
  <1>3. \A s \in SportEventIds : s \in ids <=> b.events[s] # None /\ BookmakerOf[s] = k
    BY DEF Good, Exact, BookmakersExact
  <1>4. Visible(Forget(b, ids)) =
          [s \in SportEventIds |-> IF s \in ids THEN None ELSE Visible(b)[s]]
    BY <1>1, <1>2, ForgetVisible
  <1>5. \A s \in SportEventIds : Visible(b)[s] = IF WellFormed(s) THEN b.events[s] ELSE None
    BY DEF Visible
  <1> HIDE DEF ids
  <1>6. \A s \in SportEventIds :
          (IF s \in ids THEN None ELSE Visible(b)[s]) =
          (IF BookmakerOf[s] = k THEN None ELSE Visible(b)[s])
    BY <1>3, <1>5
  <1> QED BY <1>2, <1>4, <1>6 DEF View!Without

LEMMA MalformedInvisible ==
  ASSUME NEW b, Good(b), NEW e \in SportEvents, ~ WellFormed(e.id)
  PROVE  Visible(Upsert(b, e)) = Visible(b)
  <1>1. CASE b.events[e.id] = None
    <2>1. Upsert(b, e) = SetEvents(b, {e}) /\ b \in Books
      BY <1>1 DEF Upsert, Good
    <2>2. \A s \in SportEventIds : WellFormed(s) => SetEvents(b, {e}).events[s] = b.events[s]
      BY <2>1 DEF SetEvents, Overlay, Books
    <2> QED BY <2>1, <2>2 DEF Visible
  <1>2. CASE b.events[e.id] # None
    BY <1>2 DEF Upsert
  <1> QED BY <1>1, <1>2

LEMMA ReplaceVisible ==
  ASSUME NEW b, Good(b), NEW k \in Bookmakers, NEW S \in Batches,
         NEW d \in ReplaceBookmaker(b, k, S)
  PROVE  \E P \in SUBSET View!Events :
           View!OnePerId(P) /\ Visible(d) = View!With(View!Without(Visible(b), k), P)
  <1> DEFINE cleared == ClearBookmaker(b, k)
             good == {e \in S : WellFormed(e.id)}
  <1>1. Good(cleared) /\ Visible(cleared) = View!Without(Visible(b), k)
    BY ClearBookmakerGood, ClearVisible
  <1>2. S \in SUBSET SportEvents /\ \A e, f \in S : e.id = f.id => e = f
    BY DEF Batches
  <1>3. good \in SUBSET View!Events
    BY <1>2 DEF View!Events, WellFormed
  <1> HIDE DEF cleared
  <1>4. ASSUME NEW P \in SUBSET good
        PROVE  /\ P \in SUBSET View!Events /\ View!OnePerId(P)
               /\ Good(Put(cleared, P))
               /\ Visible(Put(cleared, P)) = View!With(View!Without(Visible(b), k), P)
    <2>1. /\ P \in SUBSET SportEvents
          /\ \A e, f \in P : e.id = f.id => e = f
          /\ \A e \in P : WellFormed(e.id)
      BY <1>2
    <2>2. Good(Put(cleared, P)) /\ Visible(Put(cleared, P)) = View!With(Visible(cleared), P)
      BY <1>1, <2>1, PutGood, PutVisible
    <2> QED BY <1>1, <1>3, <2>1, <2>2 DEF View!OnePerId
  <1>5. CASE good = S
    <2>1. d = Put(cleared, S)
      BY <1>5 DEF ReplaceBookmaker, cleared
    <2> QED BY <1>4, <1>5, <2>1
  <1>6. CASE good # S
    <2>1. PICK P \in SUBSET good, e \in S \ good : d = Upsert(Put(cleared, P), e)
      BY <1>6 DEF ReplaceBookmaker, cleared
    <2>2. Visible(d) = Visible(Put(cleared, P))
      BY <1>2, <1>4, <2>1, MalformedInvisible
    <2> QED BY <1>4, <2>1, <2>2
  <1> QED BY <1>5, <1>6

(* The indexed book implements the plain map of BookView: readers of the
   well-formed events cannot tell the two apart. *)
THEOREM BookImplementsView == Spec => ViewSpec
  <1>1. Init => View!Init
    BY DEF Init, EmptyBook, View!Init, Visible
  <1>2. Good(book) /\ [Next]_book => [View!Next]_(Visible(book))
    <2> SUFFICES ASSUME Good(book), [Next]_book
                 PROVE  View!Next \/ Visible(book') = Visible(book)
      BY DEF Visible
    <2>1. CASE UpsertEvent
      <3>1. PICK e \in SportEvents : book' = Upsert(book, e)
        BY <2>1 DEF UpsertEvent
      <3>2. CASE WellFormed(e.id)
        <4>1. Visible(book') = View!With(Visible(book), {e}) /\ e \in View!Events
          BY <3>1, <3>2, PutVisible DEF Upsert, View!Events, WellFormed
        <4> QED BY <4>1 DEF View!Next, View!Put, Visible
      <3>3. CASE ~ WellFormed(e.id)
        BY <3>1, <3>3, MalformedInvisible
      <3> QED BY <3>2, <3>3
    <2>2. CASE RemoveEvent
      <3>1. PICK s \in SportEventIds : book' = Remove(book, s)
        BY <2>2 DEF RemoveEvent
      <3>2. Visible(book') = [Visible(book) EXCEPT ![s] = None]
        <4>1. book \in Books
          BY DEF Good
        <4>2. CASE WellFormed(s)
          <5>1. book' = Forget(book, {s})
            BY <3>1, <4>2 DEF Remove, Forget
          <5>2. Visible(Forget(book, {s})) =
                  [t \in SportEventIds |-> IF t \in {s} THEN None ELSE Visible(book)[t]]
            BY <4>1, ForgetVisible
          <5>3. [t \in SportEventIds |-> IF t \in {s} THEN None ELSE Visible(book)[t]]
                  = [Visible(book) EXCEPT ![s] = None]
            BY DEF Visible
          <5> QED BY <5>1, <5>2, <5>3
        <4>3. CASE ~ WellFormed(s)
          BY <3>1, <4>1, <4>3 DEF Remove, ForgetEvents, Visible, Books
        <4> QED BY <4>2, <4>3
      <3> QED BY <3>2 DEF View!Next, View!Delete, Visible
    <2>3. CASE ClearSource
      <3>1. PICK k \in Bookmakers : book' = ClearBookmaker(book, k)
        BY <2>3 DEF ClearSource
      <3>2. Visible(book') = View!Without(Visible(book), k)
        BY <3>1, ClearVisible
      <3> QED BY <3>2 DEF View!Next, View!DropAll, Visible
    <2>4. CASE ReplaceSource
      <3>1. PICK k \in Bookmakers, S \in Batches : book' \in ReplaceBookmaker(book, k, S)
        BY <2>4 DEF ReplaceSource
      <3>2. \E P \in SUBSET View!Events :
              /\ View!OnePerId(P)
              /\ Visible(book') = View!With(View!Without(Visible(book), k), P)
        BY <3>1, ReplaceVisible
      <3> QED BY <3>2 DEF View!Next, View!Replace, Visible
    <2>5. CASE ClearAll
      <3>1. Visible(book') = [s \in SportEventIds |-> None]
        BY <2>5 DEF ClearAll, EmptyBook, Visible
      <3> QED BY <3>1 DEF View!Next, View!Empty, Visible
    <2>6. CASE UNCHANGED book
      BY <2>6
    <2> QED BY <2>1, <2>2, <2>3, <2>4, <2>5, <2>6 DEF Next
  <1> QED BY <1>1, <1>2, BookStaysGood, PTL DEF Spec, ViewSpec, View!Spec
=============================================================================
