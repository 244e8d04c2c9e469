----------------------------- MODULE FeedProofs ------------------------------
(***************************************************************************)
(* Proofs about Feed and about the tracker of LineMoves that listens to it,*)
(* for every set of sources, events, selections and prices, and for any    *)
(* number of frames in flight.                                             *)
(*                                                                         *)
(* MirrorsServer compares the book with what the server had before the next*)
(* frame.  It is inductive only together with WireOK, which says that each *)
(* frame leads from what was held before it to what is held before the next*)
(* one, and with BookWithinStores: a frame of prices is computed on the    *)
(* store's version of the event and a removal is passed on only if the     *)
(* store had it, so the book is right only as far as it agrees with the    *)
(* stores.  BookWithinStores needs none of the others.                     *)
(***************************************************************************)
EXTENDS LineMoves, SequenceTheorems, TLAPS

\* Every version of an event is filed under its own id.
Keyed(v) == v \in Maps /\ \A s \in SportEventIds : v[s] # None => v[s].id = s

(* What the server sends together with a frame. *)
FrameOK(m) ==
  /\ Keyed(m.before)
  /\ m.type \in {"snapshot", "update_event"} =>
       View!OnePerId(m.data) /\ \A e \in m.data : SourceOf[e.id] \in m.scope
  /\ m.type = "prices_updated" => Fits(m.before[m.id], m.data)
  /\ m.type = "resync" =>
       View!OnePerId(m.data) /\ \A e \in m.data : SourceOf[e.id] = m.source

(* What the receiver of a frame should hold once it has handled it. *)
After(m) ==
  CASE m.type \in {"snapshot", "update_event"} -> View!With(m.before, m.data)
    [] m.type = "prices_updated" -> [m.before EXCEPT ![m.id] = Repriced(@, m.data)]
    [] m.type = "remove_event"   -> [m.before EXCEPT ![m.id] = None]
    [] m.type = "store_cleared"  -> View!Without(m.before, m.source)
    [] m.type = "resync"         -> View!With(View!Without(m.before, m.source), m.data)

\* What should be held when the i-th frame of the wire is about to be handled.
HeldBefore(i) == IF i <= Len(wire) THEN wire[i].before ELSE truth

WireOK ==
  /\ wire \in Seq(Frames)
  /\ \A i \in 1 .. Len(wire) : FrameOK(wire[i]) /\ After(wire[i]) = HeldBefore(i + 1)
  /\ ~up => wire = << >>

MapsOK == Keyed(truth) /\ Keyed(book) /\ (~up => book = Nothing)

StoresOK ==
  /\ stores \in [Sources -> Stores \cup {None}]
  /\ \A k \in Sources : stores[k] # None => Keyed(stores[k].held)
  /\ wired \in SUBSET Addresses /\ garbled \in SUBSET Sources /\ up \in BOOLEAN

\* MirrorsServer, event by event.
Mirrored ==
  \A s \in SportEventIds :
    SourceOf[s] \notin garbled /\ ~Deaf(SourceOf[s]) => book[s] = Expected[s]

FInv == WireOK /\ MapsOK /\ StoresOK /\ Mirrored /\ BookWithinStores
-----------------------------------------------------------------------------
(* Versions of events, and what repricing makes of one. *)

LEMMA QuotesTyped ==
  ASSUME NEW s, NEW q
  PROVE  q \in QuotesOf(s) <=>
           /\ q \in [DOMAIN q -> Prices]
           /\ \A x \in DOMAIN q : x \in SelectionIds /\ EventOf[x] = s
<1>1. q \in QuotesOf(s) <=> \E X \in SUBSET {x \in SelectionIds : EventOf[x] = s} : q \in [X -> Prices]
  BY DEF QuotesOf
<1>2. ASSUME NEW X, q \in [X -> Prices] PROVE DOMAIN q = X
  BY <1>2
<1> QED BY <1>1, <1>2

LEMMA EventTyped ==
  ASSUME NEW e \in SportEvents
  PROVE  /\ e.id \in SportEventIds /\ SourceOf[e.id] \in Sources
         /\ e.quotes \in QuotesOf(e.id)
         /\ e = [id |-> e.id, quotes |-> e.quotes]
         /\ e # None
<1>1. PICK s \in SportEventIds : \E q \in QuotesOf(s) : e = [id |-> s, quotes |-> q]
  BY DEF SportEvents
<1>2. PICK q \in QuotesOf(s) : e = [id |-> s, quotes |-> q]
  BY <1>1
<1> QED BY <1>2, FeedTyping, NoneIsNothing

LEMMA EventMade ==
  ASSUME NEW s \in SportEventIds, NEW q \in QuotesOf(s)
  PROVE  [id |-> s, quotes |-> q] \in SportEvents
BY DEF SportEvents

\* A repriced event is a version of the same event with the same selections.
LEMMA RepricedTyped ==
  ASSUME NEW e \in SportEvents, NEW s, NEW p \in QuotesOf(s)
  PROVE  /\ Repriced(e, p) \in SportEvents
         /\ Repriced(e, p).id = e.id
         /\ DOMAIN Repriced(e, p).quotes = DOMAIN e.quotes
         /\ \A x \in DOMAIN e.quotes :
              Repriced(e, p).quotes[x] = IF x \in DOMAIN p THEN p[x] ELSE e.quotes[x]
<1> DEFINE q == [x \in DOMAIN e.quotes |-> IF x \in DOMAIN p THEN p[x] ELSE e.quotes[x]]
<1>1. e = [id |-> e.id, quotes |-> e.quotes] /\ e.id \in SportEventIds
  BY EventTyped
<1>2. /\ e.quotes \in [DOMAIN e.quotes -> Prices]
      /\ \A x \in DOMAIN e.quotes : x \in SelectionIds /\ EventOf[x] = e.id
  BY EventTyped, QuotesTyped
<1>3. p \in [DOMAIN p -> Prices]
  BY QuotesTyped
<1>4. Repriced(e, p) = [e EXCEPT !.quotes = q]
  BY DEF Repriced
<1>5. DOMAIN q = DOMAIN e.quotes /\ q \in [DOMAIN e.quotes -> Prices]
  BY <1>2, <1>3
<1>6. \A x \in DOMAIN e.quotes : q[x] = IF x \in DOMAIN p THEN p[x] ELSE e.quotes[x]
  OBVIOUS
<1> HIDE DEF q
<1>7. [e EXCEPT !.quotes = q] = [id |-> e.id, quotes |-> q]
  BY <1>1
<1>8. q \in QuotesOf(e.id)
  BY <1>2, <1>5, QuotesTyped
<1> QED BY <1>1, <1>4, <1>5, <1>6, <1>7, <1>8, EventMade
-----------------------------------------------------------------------------
(* Maps from event id to version. *)

LEMMA WithAt ==
  ASSUME NEW v, NEW S, View!OnePerId(S), NEW s \in SportEventIds
  PROVE  /\ \A e \in S : e.id = s => View!With(v, S)[s] = e
         /\ (\A e \in S : e.id # s) => View!With(v, S)[s] = v[s]
<1>1. View!With(v, S)[s] = IF \E e \in S : e.id = s THEN CHOOSE e \in S : e.id = s ELSE v[s]
  BY DEF View!With
<1>2. ASSUME NEW e \in S, e.id = s PROVE View!With(v, S)[s] = e
  <2>1. (CHOOSE d \in S : d.id = s) \in S /\ (CHOOSE d \in S : d.id = s).id = s
    BY <1>2
  <2> QED BY <1>1, <1>2, <2>1 DEF View!OnePerId
<1> QED BY <1>1, <1>2

LEMMA WithKeyed ==
  ASSUME NEW v, Keyed(v), NEW S \in SUBSET SportEvents, View!OnePerId(S)
  PROVE  Keyed(View!With(v, S))
<1>1. ASSUME NEW s \in SportEventIds
      PROVE  /\ View!With(v, S)[s] \in SportEvents \cup {None}
             /\ View!With(v, S)[s] # None => View!With(v, S)[s].id = s
  <2>1. CASE \E e \in S : e.id = s
    BY <2>1, WithAt
  <2>2. CASE \A e \in S : e.id # s
    BY <2>2, WithAt DEF Keyed, Maps
  <2> QED BY <2>1, <2>2
<1>2. View!With(v, S) = [s \in SportEventIds |-> View!With(v, S)[s]]
  BY DEF View!With
<1> QED BY <1>1, <1>2 DEF Keyed, Maps

LEMMA WithoutAt ==
  ASSUME NEW v, NEW k, NEW s \in SportEventIds
  PROVE  View!Without(v, k)[s] = IF SourceOf[s] = k THEN None ELSE v[s]
BY DEF View!Without

LEMMA WithoutKeyed ==
  ASSUME NEW v, Keyed(v), NEW k
  PROVE  Keyed(View!Without(v, k))
BY DEF View!Without, Keyed, Maps

LEMMA PutKeyed ==
  ASSUME NEW v, Keyed(v), NEW s \in SportEventIds,
         NEW w \in SportEvents \cup {None}, w # None => w.id = s
  PROVE  Keyed([v EXCEPT ![s] = w])
BY DEF Keyed, Maps

LEMMA NothingKeyed == Keyed(Nothing)
BY DEF Keyed, Maps, Nothing

LEMMA AllVersions ==
  ASSUME NEW v, Keyed(v)
  PROVE  /\ All(v) \in SUBSET SportEvents /\ View!OnePerId(All(v))
         /\ View!With(Nothing, All(v)) = v
<1>1. All(v) \in SUBSET SportEvents
  BY DEF All, Keyed, Maps
<1>2. \A e \in All(v) : e.id \in SportEventIds /\ v[e.id] = e
  BY DEF All, Keyed
<1>3. View!OnePerId(All(v))
  BY <1>2 DEF View!OnePerId
<1>4. ASSUME NEW s \in SportEventIds PROVE View!With(Nothing, All(v))[s] = v[s]
  <2>1. CASE v[s] = None
    <3>1. \A e \in All(v) : e.id # s
      BY <1>2, <2>1 DEF All
    <3> QED BY <1>3, <2>1, <3>1, WithAt DEF Nothing
  <2>2. CASE v[s] # None
    <3>1. v[s] \in All(v) /\ v[s].id = s
      BY <2>2 DEF All, Keyed
    <3> QED BY <1>3, <3>1, WithAt
  <2> QED BY <2>1, <2>2
<1>5. View!With(Nothing, All(v)) = [s \in SportEventIds |-> View!With(Nothing, All(v))[s]]
  BY DEF View!With
<1>6. v = [s \in SportEventIds |-> v[s]]
  BY DEF Keyed, Maps
<1> QED BY <1>1, <1>3, <1>4, <1>5, <1>6
-----------------------------------------------------------------------------
(* Frames. *)

LEMMA FrameKinds ==
  ASSUME NEW m \in Frames
  PROVE  /\ m.before \in Maps
         /\ m.type \in {"snapshot", "update_event"} =>
              /\ m.data \in SUBSET SportEvents /\ m.scope \in SUBSET Sources
              /\ After(m) = View!With(m.before, m.data)
         /\ m.type = "prices_updated" =>
              /\ m.id \in SportEventIds
              /\ m.data \in UNION {QuotesOf(s) : s \in SportEventIds}
              /\ After(m) = [m.before EXCEPT ![m.id] = Repriced(@, m.data)]
         /\ m.type = "remove_event" =>
              m.id \in SportEventIds /\ After(m) = [m.before EXCEPT ![m.id] = None]
         /\ m.type = "store_cleared" =>
              m.source \in Sources /\ After(m) = View!Without(m.before, m.source)
         /\ m.type = "resync" =>
              /\ m.source \in Sources /\ m.data \in SUBSET SportEvents
              /\ After(m) = View!With(View!Without(m.before, m.source), m.data)
<1>1. CASE m \in EntryFrames
  BY <1>1 DEF EntryFrames, After
<1>2. CASE m \in PriceFrames
  BY <1>2 DEF PriceFrames, After
<1>3. CASE m \in RemoveFrames
  BY <1>3 DEF RemoveFrames, After
<1>4. CASE m \in ClearFrames
  BY <1>4 DEF ClearFrames, After
<1>5. CASE m \in ResyncFrames
  BY <1>5 DEF ResyncFrames, After
<1> QED BY <1>1, <1>2, <1>3, <1>4, <1>5 DEF Frames
-----------------------------------------------------------------------------
(* Stores, old and new.  A new store is empty, and until it exists the book has
   nothing of its source that is listened to. *)

Opens(o, K) ==
  /\ o \in [Sources -> Stores \cup {None}]
  /\ \A k \in Sources : o[k] # None => Keyed(o[k].held)
  /\ \A k \in K : o[k] # None
  /\ \A k \in Sources : stores[k] # None => o[k] = stores[k]
  /\ \A k \in Sources : stores[k] = None /\ o[k] # None => o[k].held = Nothing

LEMMA OpenedStores ==
  ASSUME StoresOK, NEW K \in SUBSET Sources, NEW f \in Placements(K), Wire(f),
         NEW o, o = Opened(f)
  PROVE  Opens(o, K) /\ wired' \in SUBSET Addresses
<1>1. f \in [New(K) -> Addresses] /\ DOMAIN f = {k \in K : stores[k] = None}
  BY DEF Placements, New
<1>2. ASSUME NEW k \in Sources, k \in DOMAIN f
      PROVE  /\ stores[k] = None /\ o[k] = [address |-> f[k], heard |-> f[k] \notin wired, held |-> Nothing]
             /\ o[k] \in Stores /\ o[k].held = Nothing /\ o[k] # None
  <2>1. f[k] \in Addresses
    BY <1>1, <1>2
  <2>2. o[k] = [address |-> f[k], heard |-> f[k] \notin wired, held |-> Nothing]
    BY <1>2 DEF Opened
  <2>3. Nothing \in Maps /\ (f[k] \notin wired) \in BOOLEAN
    BY NothingKeyed DEF Keyed
  <2>4. o[k] \in Stores
    BY <2>1, <2>2, <2>3 DEF Stores
  <2> QED BY <1>1, <1>2, <2>2, <2>4, NoneIsNothing
<1>3. ASSUME NEW k \in Sources, k \notin DOMAIN f
      PROVE  o[k] = stores[k] /\ (stores[k] = None => k \notin K)
  BY <1>1, <1>3 DEF Opened
<1>4. o = [k \in Sources |-> o[k]]
  BY DEF Opened
<1>5. wired' \in SUBSET Addresses
  <2>1. \A k \in DOMAIN f : f[k] \in Addresses
    BY <1>1
  <2> QED BY <2>1 DEF Wire, StoresOK
<1>6. \A k \in Sources : o[k] \in Stores \cup {None}
  BY <1>2, <1>3 DEF StoresOK
<1>7. \A k \in Sources : o[k] # None => Keyed(o[k].held)
  BY <1>2, <1>3, NothingKeyed DEF StoresOK
<1>8. \A k \in Sources : k \in K => o[k] # None
  BY <1>2, <1>3
<1>9. \A k \in Sources : stores[k] # None => o[k] = stores[k]
  BY <1>2, <1>3
<1>10. \A k \in Sources : stores[k] = None /\ o[k] # None => o[k].held = Nothing
  BY <1>2, <1>3
<1> QED BY <1>4, <1>5, <1>6, <1>7, <1>8, <1>9, <1>10 DEF Opens

\* A store that holds something else is the same store.
LEMMA HoldsOther ==
  ASSUME NEW t \in Stores, NEW v, Keyed(v)
  PROVE  /\ [t EXCEPT !.held = v] \in Stores
         /\ [t EXCEPT !.held = v].heard = t.heard
         /\ [t EXCEPT !.held = v].held = v
         /\ [t EXCEPT !.held = v] # None
<1>1. [t EXCEPT !.held = v] \in Stores
  BY DEF Stores, Keyed
<1> QED BY <1>1, NoneIsNothing DEF Stores

(* What one frame does to the stores o it opened: the store of one source, or
   of several, holds something else. *)
Refilled(o, v) ==
  /\ stores' \in [Sources -> Stores \cup {None}]
  /\ \A k \in Sources :
       /\ o[k] = None => stores'[k] = None
       /\ o[k] # None => /\ stores'[k] # None /\ stores'[k].heard = o[k].heard
                         /\ stores'[k].held = v[k] /\ Keyed(v[k])

LEMMA HoldAllRefills ==
  ASSUME NEW o \in [Sources -> Stores \cup {None}], \A k \in Sources : o[k] # None => Keyed(o[k].held),
         NEW P \in SUBSET SportEvents, View!OnePerId(P), stores' = HoldAll(o, P)
  PROVE  Refilled(o, [k \in Sources |-> View!With(o[k].held, {e \in P : SourceOf[e.id] = k})])
<1>1. ASSUME NEW k \in Sources
      PROVE  /\ stores'[k] \in Stores \cup {None}
             /\ o[k] = None => stores'[k] = None
             /\ o[k] # None =>
                  LET v == View!With(o[k].held, {e \in P : SourceOf[e.id] = k})
                  IN  /\ stores'[k] # None /\ stores'[k].heard = o[k].heard
                      /\ stores'[k].held = v /\ Keyed(v)
  <2> DEFINE S == {e \in P : SourceOf[e.id] = k}
             v == View!With(o[k].held, S)
  <2>1. stores'[k] = IF o[k] = None THEN None ELSE [o[k] EXCEPT !.held = v]
    BY DEF HoldAll
  <2>2. S \in SUBSET SportEvents /\ View!OnePerId(S)
    BY DEF View!OnePerId
  <2> HIDE DEF S
  <2>3. o[k] # None => Keyed(v)
    BY <2>2, WithKeyed
  <2> HIDE DEF v
  <2>4. o[k] # None => o[k] \in Stores
    OBVIOUS
  <2>5. o[k] # None => /\ [o[k] EXCEPT !.held = v] \in Stores
                       /\ [o[k] EXCEPT !.held = v].heard = o[k].heard
                       /\ [o[k] EXCEPT !.held = v].held = v
                       /\ [o[k] EXCEPT !.held = v] # None
    BY <2>3, <2>4, HoldsOther
  <2> QED BY <2>1, <2>3, <2>5 DEF v, S
<1>2. stores' = [k \in Sources |-> stores'[k]]
  BY DEF HoldAll
<1> QED BY <1>1, <1>2 DEF Refilled

LEMMA HoldOneRefills ==
  ASSUME NEW K, NEW o, Opens(o, K), NEW k \in Sources, o[k] # None, NEW v, Keyed(v),
         NEW t, t = [o[k] EXCEPT !.held = v], stores' = [o EXCEPT ![k] = t]
  PROVE  Refilled(o, [j \in Sources |-> IF j = k THEN v ELSE o[j].held])
<1>1. o \in [Sources -> Stores \cup {None}] /\ o[k] \in Stores
  BY DEF Opens
<1>2. t \in Stores /\ t.heard = o[k].heard /\ t.held = v /\ t # None
  BY <1>1, HoldsOther
<1>3. stores' \in [Sources -> Stores \cup {None}]
      /\ \A j \in Sources : stores'[j] = IF j = k THEN t ELSE o[j]
  BY <1>1, <1>2
<1>4. ASSUME NEW j \in Sources
      PROVE  /\ o[j] = None => stores'[j] = None
             /\ o[j] # None => /\ stores'[j] # None /\ stores'[j].heard = o[j].heard
                               /\ stores'[j].held = IF j = k THEN v ELSE o[j].held
                               /\ Keyed(IF j = k THEN v ELSE o[j].held)
  <2>1. CASE j = k
    BY <1>2, <1>3, <2>1
  <2>2. CASE j # k
    BY <1>3, <2>2 DEF Opens
  <2> QED BY <2>1, <2>2
<1> QED BY <1>3, <1>4 DEF Refilled

\* Handlers stay where they are: a store that is listened to was before.
LEMMA HeardBefore ==
  ASSUME NEW K, NEW o, Opens(o, K), NEW v, Refilled(o, v), NEW k \in Sources, ~Deaf(k)'
  PROVE  ~Deaf(k) /\ (o[k] # None => o[k].heard)
BY DEF Opens, Refilled, Deaf

(* The book agrees with the stores if whatever is put into a store that is
   listened to is put into the book. *)
LEMMA WithinKept ==
  ASSUME BookWithinStores, NEW K, NEW o, Opens(o, K), NEW v, Refilled(o, v),
         \A s \in SportEventIds :
           LET k == SourceOf[s]
           IN  /\ o[k] = None => book'[s] \in {book[s], None}
               /\ o[k] # None /\ o[k].heard =>
                    \/ book'[s] \in {v[k][s], None}
                    \/ book'[s] = book[s] /\ v[k][s] = o[k].held[s]
  PROVE  BookWithinStores'
<1> SUFFICES ASSUME NEW s \in SportEventIds, NEW k \in Sources, k = SourceOf[s],
                    book'[s] # None, ~Deaf(k)'
             PROVE  stores'[k] # None /\ stores'[k].held[s] = book'[s]
  BY FeedTyping DEF BookWithinStores
<1>1. ~Deaf(k) /\ (o[k] # None => o[k].heard)
  BY HeardBefore
<1>2. book[s] # None => stores[k] # None /\ stores[k].held[s] = book[s]
  BY <1>1 DEF BookWithinStores
<1>3. CASE o[k] = None
  BY <1>2, <1>3, NoneIsNothing DEF Opens
<1>4. CASE o[k] # None
  <2>1. stores'[k] # None /\ stores'[k].held = v[k]
    BY <1>4 DEF Refilled
  <2>2. stores[k] # None => o[k] = stores[k]
    BY DEF Opens
  <2> QED BY <1>1, <1>2, <1>4, <2>1, <2>2
<1> QED BY <1>3, <1>4
-----------------------------------------------------------------------------
(* The handlers.  Ready is what a frame finds, Done what it leaves. *)
Mirrors(v) ==
  \A s \in SportEventIds :
    SourceOf[s] \notin garbled /\ ~Deaf(SourceOf[s]) => book[s] = v[s]

Ready(m) == StoresOK /\ Keyed(book) /\ BookWithinStores /\ Mirrors(m.before)

Done(m) == StoresOK' /\ Keyed(book)' /\ BookWithinStores' /\ Mirrors(After(m))'

\* One batch of the entries of a frame: all of them, or those before a bad one.
LEMMA EntriesTaken ==
  ASSUME NEW m \in Frames, FrameOK(m), m.type \in {"snapshot", "update_event"}, HandleEntries(m)
  PROVE  \E P \in SUBSET m.data, K \in SUBSET Sources : \E f \in Placements(K) :
           /\ Wire(f) /\ UpsertAll(Opened(f), P)
           /\ \A e \in P : SourceOf[e.id] \in K
           /\ (P = m.data /\ garbled' = garbled) \/ garbled' = garbled \cup m.scope
<1>1. m.data \in SUBSET SportEvents
  BY FrameKinds
<1>2. \A e \in m.data : SourceOf[e.id] \in Sources
  BY <1>1, EventTyped
<1>3. CASE \E f \in Placements({SourceOf[e.id] : e \in m.data}) :
              UpsertAll(Opened(f), m.data) /\ Wire(f) /\ garbled' = garbled
  <2> DEFINE K == {SourceOf[e.id] : e \in m.data}
  <2>1. K \in SUBSET Sources /\ m.data \in SUBSET m.data /\ \A e \in m.data : SourceOf[e.id] \in K
    BY <1>2
  <2> QED BY <1>3, <2>1
<1>4. ASSUME NEW P \in SUBSET (m.data \ (m.data \cap Unreadable)), NEW e \in m.data \cap Unreadable,
             \E f \in Placements({SourceOf[d.id] : d \in P \cup {e}}) : UpsertAll(Opened(f), P) /\ Wire(f),
             garbled' = garbled \cup m.scope
      PROVE  \E Q \in SUBSET m.data, K \in SUBSET Sources : \E f \in Placements(K) :
               /\ Wire(f) /\ UpsertAll(Opened(f), Q)
               /\ \A d \in Q : SourceOf[d.id] \in K
               /\ garbled' = garbled \cup m.scope
  <2> DEFINE K == {SourceOf[d.id] : d \in P \cup {e}}
  <2>1. K \in SUBSET Sources /\ P \in SUBSET m.data /\ \A d \in P : SourceOf[d.id] \in K
    BY <1>2
  <2> QED BY <1>4, <2>1
<1> QED BY <1>3, <1>4 DEF HandleEntries

LEMMA EntriesDone ==
  ASSUME NEW m \in Frames, FrameOK(m), Ready(m), m.type \in {"snapshot", "update_event"},
         HandleEntries(m), up' = up
  PROVE  Done(m)
<1>0. StoresOK /\ Keyed(book) /\ BookWithinStores /\ Mirrors(m.before)
  BY DEF Ready
<1>a. PICK P \in SUBSET m.data, K \in SUBSET Sources : \E f \in Placements(K) :
        /\ Wire(f) /\ UpsertAll(Opened(f), P)
        /\ \A e \in P : SourceOf[e.id] \in K
        /\ (P = m.data /\ garbled' = garbled) \/ garbled' = garbled \cup m.scope
  BY EntriesTaken
<1>1. PICK f \in Placements(K) :
        /\ Wire(f) /\ UpsertAll(Opened(f), P)
        /\ \A e \in P : SourceOf[e.id] \in K
        /\ (P = m.data /\ garbled' = garbled) \/ garbled' = garbled \cup m.scope
  BY <1>a
<1>2. /\ m.data \in SUBSET SportEvents /\ m.scope \in SUBSET Sources /\ View!OnePerId(m.data)
      /\ \A e \in m.data : SourceOf[e.id] \in m.scope
      /\ After(m) = View!With(m.before, m.data)
  BY FrameKinds DEF FrameOK
<1>3. PICK o : o = Opened(f)
  OBVIOUS
<1>4. Opens(o, K) /\ wired' \in SUBSET Addresses
  BY <1>0, <1>1, <1>3, OpenedStores
<1> DEFINE heard == {e \in P : o[SourceOf[e.id]].heard}
           v == [k \in Sources |-> View!With(o[k].held, {e \in P : SourceOf[e.id] = k})]
<1>5. stores' = HoldAll(o, P) /\ book' = View!With(book, heard)
  BY <1>1, <1>3 DEF UpsertAll
<1>6. P \in SUBSET SportEvents /\ View!OnePerId(P) /\ heard \in SUBSET SportEvents /\ View!OnePerId(heard)
  BY <1>2 DEF View!OnePerId
<1>7. Refilled(o, v)
  BY <1>4, <1>5, <1>6, HoldAllRefills DEF Opens
<1>8. ASSUME NEW s \in SportEventIds, NEW e \in P, e.id = s
      PROVE  LET k == SourceOf[s]
             IN  /\ o[k] # None /\ v[k][s] = e
                 /\ book'[s] = IF o[k].heard THEN e ELSE book[s]
  <2> DEFINE k == SourceOf[s]
             S == {d \in P : SourceOf[d.id] = k}
  <2>1. k \in Sources /\ k \in K /\ o[k] # None
    BY <1>1, <1>4, <1>8 DEF Opens
  <2>2. View!OnePerId(S) /\ e \in S
    BY <1>6, <1>8 DEF View!OnePerId
  <2>3. v[k][s] = e
    <3> HIDE DEF S
    <3>1. View!With(o[k].held, S)[s] = e
      BY <1>8, <2>2, WithAt
    <3> QED BY <2>1, <3>1 DEF S
  <2>4. CASE o[k].heard
    <3>1. e \in heard
      BY <1>8, <2>4
    <3> HIDE DEF heard
    <3> QED BY <1>5, <1>6, <1>8, <2>1, <2>3, <2>4, <3>1, WithAt
  <2>5. CASE ~o[k].heard
    <3>1. \A d \in heard : d.id # s
      BY <1>8, <2>5
    <3> HIDE DEF heard
    <3> QED BY <1>5, <1>6, <2>1, <2>3, <2>5, <3>1, WithAt
  <2> QED BY <2>4, <2>5
<1>9. ASSUME NEW s \in SportEventIds, \A e \in P : e.id # s
      PROVE  /\ book'[s] = book[s]
             /\ v[SourceOf[s]][s] = o[SourceOf[s]].held[s]
  <2> DEFINE k == SourceOf[s]
             S == {d \in P : SourceOf[d.id] = k}
  <2>1. k \in Sources
    BY FeedTyping
  <2>2. View!OnePerId(S) /\ \A e \in S : e.id # s
    BY <1>6, <1>9 DEF View!OnePerId
  <2>3. \A e \in heard : e.id # s
    BY <1>9
  <2> HIDE DEF heard
  <2>4. book'[s] = book[s]
    BY <1>5, <1>6, <2>3, WithAt
  <2>5. v[k][s] = o[k].held[s]
    <3> HIDE DEF S
    <3>1. View!With(o[k].held, S)[s] = o[k].held[s]
      BY <2>2, WithAt
    <3> QED BY <2>1, <3>1 DEF S
  <2> QED BY <2>4, <2>5
<1>10. Keyed(book)'
  <2> HIDE DEF heard
  <2> QED BY <1>0, <1>5, <1>6, WithKeyed DEF Keyed
<1> HIDE DEF heard, v
<1>11. BookWithinStores'
  <2>1. ASSUME NEW s \in SportEventIds
        PROVE  LET k == SourceOf[s]
               IN  /\ o[k] = None => book'[s] \in {book[s], None}
                   /\ o[k] # None /\ o[k].heard =>
                        \/ book'[s] \in {v[k][s], None}
                        \/ book'[s] = book[s] /\ v[k][s] = o[k].held[s]
    BY <1>8, <1>9
  <2> QED BY <1>0, <1>4, <1>7, <2>1, WithinKept
<1>12. Mirrors(After(m))'
  <2> SUFFICES ASSUME NEW s \in SportEventIds, SourceOf[s] \notin garbled', ~Deaf(SourceOf[s])'
               PROVE  book'[s] = After(m)[s]
    BY DEF Mirrors
  <2> DEFINE k == SourceOf[s]
  <2>0. k \in Sources
    BY FeedTyping
  <2>1. ~Deaf(k) /\ (o[k] # None => o[k].heard)
    BY <1>4, <1>7, <2>0, HeardBefore
  <2>2. book[s] = m.before[s]
    BY <1>0, <1>1, <2>1 DEF Mirrors
  <2>3. CASE \E e \in m.data : e.id = s
    <3>1. PICK e \in m.data : e.id = s
      BY <2>3
    <3>2. P = m.data
      BY <1>1, <1>2, <3>1
    <3>3. book'[s] = e
      BY <1>8, <2>1, <3>1, <3>2
    <3> QED BY <1>2, <3>1, <3>3, WithAt
  <2>4. CASE \A e \in m.data : e.id # s
    <3>1. book'[s] = book[s]
      BY <1>9, <2>4
    <3> QED BY <1>2, <2>2, <2>4, <3>1, WithAt
  <2> QED BY <2>3, <2>4
<1>13. StoresOK'
  BY <1>0, <1>1, <1>2, <1>4, <1>7 DEF StoresOK, Refilled, Opens
<1> QED BY <1>10, <1>11, <1>12, <1>13 DEF Done

LEMMA KeptRefills ==
  ASSUME NEW K, NEW o, Opens(o, K), stores' = o
  PROVE  Refilled(o, [k \in Sources |-> o[k].held])
BY DEF Opens, Refilled

LEMMA StoresOpen ==
  ASSUME StoresOK, NEW K, \A k \in K : stores[k] # None
  PROVE  Opens(stores, K)
BY DEF StoresOK, Opens

\* A frame about one event the book and the server agree on finds the server's
\* version of it in the store.
LEMMA StoreHasIt ==
  ASSUME NEW m, Ready(m), NEW s \in SportEventIds, NEW k \in Sources, k = SourceOf[s],
         NEW K, NEW o, Opens(o, K), k \notin garbled, ~Deaf(k), m.before[s] # None
  PROVE  /\ book[s] = m.before[s]
         /\ o[k] # None /\ o[k].held[s] = m.before[s]
<1>1. book[s] = m.before[s]
  BY DEF Ready, Mirrors
<1>2. stores[k] # None /\ stores[k].held[s] = book[s]
  BY <1>1 DEF Ready, BookWithinStores
<1> QED BY <1>1, <1>2 DEF Opens

LEMMA HoldRefills ==
  ASSUME NEW K, NEW o, Opens(o, K), NEW k \in Sources, o[k] # None, NEW e,
         NEW v, v = [o[k].held EXCEPT ![e.id] = e], Keyed(v), stores' = Hold(o, k, e)
  PROVE  Refilled(o, [j \in Sources |-> IF j = k THEN v ELSE o[j].held])
<1>1. PICK t : t = [o[k] EXCEPT !.held = v]
  OBVIOUS
<1>2. stores' = [o EXCEPT ![k] = [o[k] EXCEPT !.held = v]]
  BY Zenon DEF Hold
<1>3. stores' = [o EXCEPT ![k] = t]
  BY <1>1, <1>2, Zenon
<1> QED BY <1>1, <1>3, HoldOneRefills, Zenon

LEMMA HoldNotRefills ==
  ASSUME NEW K, NEW o, Opens(o, K), NEW k \in Sources, o[k] # None, NEW s,
         NEW v, v = [o[k].held EXCEPT ![s] = None], Keyed(v), stores' = HoldNot(o, k, s)
  PROVE  Refilled(o, [j \in Sources |-> IF j = k THEN v ELSE o[j].held])
<1>1. PICK t : t = [o[k] EXCEPT !.held = v]
  OBVIOUS
<1>2. stores' = [o EXCEPT ![k] = [o[k] EXCEPT !.held = v]]
  BY Zenon DEF HoldNot
<1>3. stores' = [o EXCEPT ![k] = t]
  BY <1>1, <1>2, Zenon
<1> QED BY <1>1, <1>3, HoldOneRefills, Zenon

LEMMA HoldNoneRefills ==
  ASSUME NEW K, NEW o, Opens(o, K), NEW k \in Sources, o[k] # None, 
         NEW v, v = Nothing, Keyed(v), stores' = HoldNone(o, k)
  PROVE  Refilled(o, [j \in Sources |-> IF j = k THEN v ELSE o[j].held])
<1>1. PICK t : t = [o[k] EXCEPT !.held = v]
  OBVIOUS
<1>2. stores' = [o EXCEPT ![k] = [o[k] EXCEPT !.held = v]]
  BY Zenon DEF HoldNone
<1>3. stores' = [o EXCEPT ![k] = t]
  BY <1>1, <1>2, Zenon
<1> QED BY <1>1, <1>3, HoldOneRefills, Zenon

LEMMA HoldOnlyRefills ==
  ASSUME NEW K, NEW o, Opens(o, K), NEW k \in Sources, o[k] # None, NEW S,
         NEW v, v = View!With(Nothing, S), Keyed(v), stores' = HoldOnly(o, k, S)
  PROVE  Refilled(o, [j \in Sources |-> IF j = k THEN v ELSE o[j].held])
<1>1. PICK t : t = [o[k] EXCEPT !.held = v]
  OBVIOUS
<1>2. stores' = [o EXCEPT ![k] = [o[k] EXCEPT !.held = v]]
  BY Zenon DEF HoldOnly
<1>3. stores' = [o EXCEPT ![k] = t]
  BY <1>1, <1>2, Zenon
<1> QED BY <1>1, <1>3, HoldOneRefills, Zenon

LEMMA PricesDone ==
  ASSUME NEW m \in Frames, FrameOK(m), Ready(m), m.type = "prices_updated",
         HandlePrices(m), up' = up
  PROVE  Done(m)
<1> DEFINE s == m.id
           k == SourceOf[m.id]
<1>0. StoresOK /\ Keyed(book) /\ BookWithinStores
  BY DEF Ready
<1>1. /\ s \in SportEventIds /\ k \in Sources /\ Fits(m.before[s], m.data) /\ Keyed(m.before)
      /\ After(m) = [m.before EXCEPT ![s] = Repriced(@, m.data)]
  BY FrameKinds, FeedTyping DEF FrameOK
<1>2. PICK t \in SportEventIds : m.data \in QuotesOf(t)
  BY FrameKinds
<1>3. PICK f \in Placements({k}) :
        LET o    == Opened(f)
            old  == o[k].held[s]
            new  == Repriced(old, m.data)
            fits == Fits(old, m.data)
        IN  /\ Wire(f)
            /\ stores' = IF fits THEN Hold(o, k, new) ELSE o
            /\ IF fits /\ o[k].heard THEN book' = View!With(book, {new}) ELSE UNCHANGED book
  BY DEF HandlePrices, ToBook
<1>4. PICK o : o = Opened(f)
  OBVIOUS
<1>5. Opens(o, {k}) /\ wired' \in SUBSET Addresses /\ garbled' = garbled
  BY <1>0, <1>1, <1>3, <1>4, OpenedStores DEF HandlePrices
<1> DEFINE old == o[k].held[s]
           new == Repriced(old, m.data)
           fits == Fits(old, m.data)
           held == [o[k].held EXCEPT ![s] = new]
<1>6. o[k] # None /\ Keyed(o[k].held)
  BY <1>1, <1>5 DEF Opens
<1>7. fits => /\ new \in SportEvents /\ new.id = s /\ Keyed(held)
  <2> SUFFICES ASSUME fits PROVE new \in SportEvents /\ new.id = s /\ Keyed(held)
    OBVIOUS
  <2>1. old \in SportEvents /\ old.id = s
    BY <1>1, <1>6 DEF Fits, Keyed, Maps
  <2>2. new \in SportEvents /\ new.id = s
    BY <1>2, <2>1, RepricedTyped
  <2> HIDE DEF new
  <2> QED BY <1>1, <1>6, <2>2, PutKeyed
<1> DEFINE v == IF fits THEN [j \in Sources |-> IF j = k THEN held ELSE o[j].held]
                ELSE [j \in Sources |-> o[j].held]
<1>8. Refilled(o, v)
  <2>1. CASE fits
    <3>1. stores' = Hold(o, k, new)
      BY <1>3, <1>4, <2>1
    <3> HIDE DEF fits
    <3>2. new.id = s /\ Keyed(held)
      BY <1>7, <2>1
    <3> HIDE DEF new
    <3>3. held = [o[k].held EXCEPT ![new.id] = new]
      BY <3>2
    <3> HIDE DEF held
    <3> QED BY <1>1, <1>5, <1>6, <2>1, <3>1, <3>2, <3>3, HoldRefills
  <2>2. CASE ~fits
    BY <1>3, <1>4, <1>5, <2>2, KeptRefills
  <2> QED BY <2>1, <2>2
<1>9. ASSUME NEW r \in SportEventIds
      PROVE  /\ r # s => book'[r] = book[r] /\ v[SourceOf[r]][r] = o[SourceOf[r]].held[r]
             /\ r = s => /\ v[k][r] = IF fits THEN new ELSE old
                         /\ book'[r] = IF fits /\ o[k].heard THEN new ELSE book[r]
  <2>1. SourceOf[r] \in Sources
    BY FeedTyping
  <2>2. book'[r] = IF r = s /\ fits /\ o[k].heard THEN new ELSE book[r]
    <3>1. CASE fits /\ o[k].heard
      <4>1. book' = View!With(book, {new}) /\ new.id = s
        BY <1>3, <1>4, <1>7, <3>1
      <4> HIDE DEF new
      <4>2. View!OnePerId({new}) /\ \A e \in {new} : e = new
        BY DEF View!OnePerId
      <4> QED BY <3>1, <4>1, <4>2, WithAt
    <3>2. CASE ~(fits /\ o[k].heard)
      BY <1>3, <1>4, <3>2
    <3> QED BY <3>1, <3>2
  <2> HIDE DEF new, fits
  <2>3. v[SourceOf[r]][r] = IF r = s THEN (IF fits THEN new ELSE old) ELSE o[SourceOf[r]].held[r]
    BY <1>1, <1>6, <2>1 DEF Keyed, Maps
  <2> HIDE DEF v
  <2> QED BY <1>1, <2>2, <2>3
<1>10. Keyed(book)'
  <2>1. CASE fits /\ o[k].heard
    <3>1. book' = View!With(book, {new}) /\ new \in SportEvents
      BY <1>3, <1>4, <1>7, <2>1
    <3> HIDE DEF new
    <3>2. View!OnePerId({new}) /\ {new} \in SUBSET SportEvents
      BY <3>1 DEF View!OnePerId
    <3>3. Keyed(View!With(book, {new}))
      BY <1>0, <3>2, WithKeyed
    <3> QED BY <3>1, <3>3 DEF Keyed
  <2>2. CASE ~(fits /\ o[k].heard)
    BY <1>0, <1>3, <1>4, <2>2 DEF Keyed
  <2> QED BY <2>1, <2>2
<1> HIDE DEF v
<1>11. BookWithinStores'
  <2>1. ASSUME NEW r \in SportEventIds
        PROVE  LET j == SourceOf[r]
               IN  /\ o[j] = None => book'[r] \in {book[r], None}
                   /\ o[j] # None /\ o[j].heard =>
                        \/ book'[r] \in {v[j][r], None}
                        \/ book'[r] = book[r] /\ v[j][r] = o[j].held[r]
    <3> HIDE DEF new, fits
    <3> QED BY <1>6, <1>9
  <2> QED BY <1>0, <1>5, <1>8, <2>1, WithinKept
<1>12. Mirrors(After(m))'
  <2> SUFFICES ASSUME NEW r \in SportEventIds, SourceOf[r] \notin garbled', ~Deaf(SourceOf[r])'
               PROVE  book'[r] = After(m)[r]
    BY DEF Mirrors
  <2>1. ~Deaf(SourceOf[r]) /\ SourceOf[r] \in Sources /\ SourceOf[r] \notin garbled
        /\ (o[SourceOf[r]] # None => o[SourceOf[r]].heard)
    BY <1>5, <1>8, FeedTyping, HeardBefore
  <2>2. book[r] = m.before[r]
    BY <2>1 DEF Ready, Mirrors
  <2>3. CASE r # s
    <3>1. book'[r] = book[r]
      BY <1>9, <2>3
    <3>2. After(m)[r] = m.before[r]
      <4> HIDE DEF s, k
      <4> QED BY <1>1, <2>3 DEF Keyed, Maps
    <3> QED BY <2>2, <3>1, <3>2
  <2>4. CASE r = s
    <3>1. m.before[s] # None
      BY <1>1 DEF Fits
    <3>2. old = m.before[s]
      BY <1>1, <1>5, <2>1, <2>4, <3>1, StoreHasIt
    <3>3. fits /\ o[k].heard
      BY <1>1, <1>6, <2>1, <2>4, <3>2
    <3>4. book'[s] = new
      BY <1>1, <1>9, <2>4, <3>3
    <3>5. After(m)[s] = Repriced(m.before[s], m.data)
      BY <1>1 DEF Keyed, Maps
    <3> QED BY <2>4, <3>2, <3>4, <3>5
  <2> QED BY <2>3, <2>4
<1>13. StoresOK'
  BY <1>0, <1>5, <1>8 DEF StoresOK, Refilled, Opens
<1> QED BY <1>10, <1>11, <1>12, <1>13 DEF Done

LEMMA RemoveDone ==
  ASSUME NEW m \in Frames, FrameOK(m), Ready(m), m.type = "remove_event",
         HandleRemove(m), up' = up
  PROVE  Done(m)
<1> DEFINE s == m.id
           k == SourceOf[m.id]
<1>0. StoresOK /\ Keyed(book) /\ BookWithinStores /\ Mirrors(m.before)
  BY DEF Ready
<1>1. /\ s \in SportEventIds /\ k \in Sources /\ Keyed(m.before)
      /\ After(m) = [m.before EXCEPT ![s] = None]
  BY FrameKinds, FeedTyping DEF FrameOK
<1>2. PICK f \in Placements({k}) :
        /\ Wire(f)
        /\ stores' = HoldNot(Opened(f), k, s)
        /\ IF Opened(f)[k].held[s] # None /\ Opened(f)[k].heard
             THEN book' = [book EXCEPT ![s] = None] ELSE UNCHANGED book
  BY DEF HandleRemove
<1>3. PICK o : o = Opened(f)
  OBVIOUS
<1>4. Opens(o, {k}) /\ wired' \in SUBSET Addresses /\ garbled' = garbled
  BY <1>0, <1>1, <1>2, <1>3, OpenedStores DEF HandleRemove
<1>5. o[k] # None /\ Keyed(o[k].held)
  BY <1>1, <1>4 DEF Opens
<1>6. PICK held : held = [o[k].held EXCEPT ![s] = None]
  OBVIOUS
<1>7. Keyed(held) /\ \A r \in SportEventIds : held[r] = IF r = s THEN None ELSE o[k].held[r]
  BY <1>1, <1>5, <1>6 DEF Keyed, Maps
<1> DEFINE v == [j \in Sources |-> IF j = k THEN held ELSE o[j].held]
<1>8. Refilled(o, v)
  <2>1. stores' = HoldNot(o, k, s)
    BY <1>2, <1>3
  <2> HIDE DEF s, k
  <2> QED BY <1>1, <1>4, <1>5, <1>6, <1>7, <2>1, HoldNotRefills
<1>9. ASSUME NEW r \in SportEventIds
      PROVE  /\ v[SourceOf[r]][r] = IF r = s THEN None ELSE o[SourceOf[r]].held[r]
             /\ book'[r] = IF r = s /\ o[k].held[s] # None /\ o[k].heard THEN None ELSE book[r]
  <2>1. SourceOf[r] \in Sources
    BY FeedTyping
  <2>2. v[SourceOf[r]][r] = IF r = s THEN None ELSE o[SourceOf[r]].held[r]
    BY <1>7, <2>1
  <2>3. book'[r] = IF r = s /\ o[k].held[s] # None /\ o[k].heard THEN None ELSE book[r]
    BY <1>0, <1>1, <1>2, <1>3 DEF Keyed, Maps
  <2> QED BY <2>2, <2>3
<1> HIDE DEF v
<1>10. Keyed(book)'
  BY <1>0, <1>1, <1>2 DEF Keyed, Maps
<1>11. BookWithinStores'
  <2>1. ASSUME NEW r \in SportEventIds
        PROVE  LET j == SourceOf[r]
               IN  /\ o[j] = None => book'[r] \in {book[r], None}
                   /\ o[j] # None /\ o[j].heard =>
                        \/ book'[r] \in {v[j][r], None}
                        \/ book'[r] = book[r] /\ v[j][r] = o[j].held[r]
    BY <1>5, <1>9
  <2> QED BY <1>0, <1>4, <1>8, <2>1, WithinKept
<1>12. Mirrors(After(m))'
  <2> SUFFICES ASSUME NEW r \in SportEventIds, SourceOf[r] \notin garbled', ~Deaf(SourceOf[r])'
               PROVE  book'[r] = After(m)[r]
    BY DEF Mirrors
  <2>1. ~Deaf(SourceOf[r]) /\ SourceOf[r] \in Sources /\ SourceOf[r] \notin garbled
        /\ (o[SourceOf[r]] # None => o[SourceOf[r]].heard)
    BY <1>4, <1>8, FeedTyping, HeardBefore
  <2>2. book[r] = m.before[r]
    BY <1>0, <2>1 DEF Mirrors
  <2>3. After(m)[r] = IF r = s THEN None ELSE m.before[r]
    BY <1>1 DEF Keyed, Maps
  <2>4. CASE r # s
    BY <1>9, <2>2, <2>3, <2>4
  <2>5. CASE r = s
    <3>1. CASE m.before[s] = None
      BY <1>9, <2>2, <2>3, <2>5, <3>1
    <3>2. CASE m.before[s] # None
      <4>1. o[k].held[s] # None
        BY <1>1, <1>4, <2>1, <2>5, <3>2, StoreHasIt
      <4> QED BY <1>5, <1>9, <2>1, <2>3, <2>5, <4>1
    <3> QED BY <3>1, <3>2
  <2> QED BY <2>4, <2>5
<1>13. StoresOK'
  BY <1>0, <1>4, <1>8 DEF StoresOK, Refilled, Opens
<1> QED BY <1>10, <1>11, <1>12, <1>13 DEF Done

LEMMA ClearedDone ==
  ASSUME NEW m \in Frames, FrameOK(m), Ready(m), m.type = "store_cleared",
         HandleCleared(m), up' = up
  PROVE  Done(m)
<1>0. StoresOK /\ Keyed(book) /\ BookWithinStores /\ Mirrors(m.before)
  BY DEF Ready
<1>1. PICK k : k = m.source
  OBVIOUS
<1>2. k \in Sources /\ Keyed(m.before) /\ After(m) = View!Without(m.before, k)
  BY <1>1, FrameKinds DEF FrameOK
<1>3. garbled' = garbled \ {k} /\ wired' = wired
  BY <1>1 DEF HandleCleared
<1>4. \A r \in SportEventIds : After(m)[r] = IF SourceOf[r] = k THEN None ELSE m.before[r]
  BY <1>2, WithoutAt
<1>5. CASE stores[k] = None
  <2>1. stores' = stores /\ book' = book
    BY <1>1, <1>5 DEF HandleCleared
  <2>2. \A r \in SportEventIds : SourceOf[r] = k => book[r] = None
    BY <1>0, <1>5 DEF BookWithinStores, Deaf
  <2>3. Mirrors(After(m))'
    BY <1>0, <1>3, <1>4, <2>1, <2>2 DEF Mirrors, Deaf
  <2> QED BY <1>0, <1>3, <2>1, <2>3 DEF Done, StoresOK, Keyed, BookWithinStores, Deaf
<1>6. CASE stores[k] # None
  <2>1. stores' = HoldNone(stores, k) /\ book' = View!Without(book, k)
    BY <1>1, <1>6 DEF HandleCleared
  <2>2. Opens(stores, {k})
    BY <1>0, <1>6, StoresOpen
  <2> DEFINE v == [j \in Sources |-> IF j = k THEN Nothing ELSE stores[j].held]
  <2>3. Refilled(stores, v)
    BY <1>2, <1>6, <2>1, <2>2, NothingKeyed, HoldNoneRefills
  <2>4. ASSUME NEW r \in SportEventIds
        PROVE  /\ SourceOf[r] \in Sources
               /\ book'[r] = IF SourceOf[r] = k THEN None ELSE book[r]
               /\ SourceOf[r] # k => v[SourceOf[r]][r] = stores[SourceOf[r]].held[r]
    <3>1. SourceOf[r] \in Sources
      BY FeedTyping
    <3> QED BY <2>1, <3>1, WithoutAt
  <2>5. Keyed(book)'
    BY <1>0, <2>1, WithoutKeyed DEF Keyed
  <2> HIDE DEF v
  <2>6. BookWithinStores'
    <3>1. ASSUME NEW r \in SportEventIds
          PROVE  LET j == SourceOf[r]
                 IN  /\ stores[j] = None => book'[r] \in {book[r], None}
                     /\ stores[j] # None /\ stores[j].heard =>
                          \/ book'[r] \in {v[j][r], None}
                          \/ book'[r] = book[r] /\ v[j][r] = stores[j].held[r]
      BY <2>4
    <3> QED BY <1>0, <2>2, <2>3, <3>1, WithinKept
  <2>7. Mirrors(After(m))'
    <3> SUFFICES ASSUME NEW r \in SportEventIds, SourceOf[r] \notin garbled', ~Deaf(SourceOf[r])'
                 PROVE  book'[r] = After(m)[r]
      BY DEF Mirrors
    <3>1. ~Deaf(SourceOf[r])
      BY <2>2, <2>3, <2>4, HeardBefore
    <3>2. SourceOf[r] # k => book[r] = m.before[r]
      BY <1>0, <1>3, <3>1 DEF Mirrors
    <3> QED BY <1>4, <2>4, <3>2
  <2>8. StoresOK'
    BY <1>0, <1>3, <2>3 DEF StoresOK, Refilled
  <2> QED BY <2>5, <2>6, <2>7, <2>8 DEF Done
<1> QED BY <1>5, <1>6

LEMMA ResyncDone ==
  ASSUME NEW m \in Frames, FrameOK(m), Ready(m), m.type = "resync",
         HandleResync(m), up' = up
  PROVE  Done(m)
<1>0. StoresOK /\ Keyed(book) /\ BookWithinStores /\ Mirrors(m.before)
  BY DEF Ready
<1>1. PICK k : k = m.source
  OBVIOUS
<1>2. /\ k \in Sources /\ Keyed(m.before) /\ m.data \in SUBSET SportEvents
      /\ View!OnePerId(m.data) /\ \A e \in m.data : SourceOf[e.id] = k
      /\ After(m) = View!With(View!Without(m.before, k), m.data)
  BY <1>1, FrameKinds DEF FrameOK
<1>3. PICK f \in Placements({k}) :
        /\ Wire(f)
        /\ \/ /\ stores' = HoldOnly(Opened(f), k, m.data)
              /\ book' = Replaced(k, m.data)
              /\ garbled' = garbled \ {k}
           \/ /\ stores' = Opened(f)
              /\ book' = book
              /\ garbled' = garbled \cup {k}
  BY <1>1, Zenon DEF HandleResync
<1>4. PICK o : o = Opened(f)
  OBVIOUS
<1>5. Opens(o, {k}) /\ wired' \in SUBSET Addresses
  BY <1>0, <1>2, <1>3, <1>4, OpenedStores
<1>6. o[k] # None
  BY <1>2, <1>5 DEF Opens
<1>7. CASE stores' = HoldOnly(o, k, m.data) /\ book' = Replaced(k, m.data) /\ garbled' = garbled \ {k}
  <2>1. PICK held : held = View!With(Nothing, m.data)
    OBVIOUS
  <2>2. Keyed(held)
    BY <1>2, <2>1, NothingKeyed, WithKeyed
  <2> DEFINE v == [j \in Sources |-> IF j = k THEN held ELSE o[j].held]
  <2>3. Refilled(o, v)
    BY <1>2, <1>5, <1>6, <1>7, <2>1, <2>2, HoldOnlyRefills
  <2>4. book' = View!With(View!Without(book, k), m.data)
    BY <1>7 DEF Replaced
  <2>5. Keyed(book)'
    <3>1. Keyed(View!With(View!Without(book, k), m.data))
      BY <1>0, <1>2, WithoutKeyed, WithKeyed
    <3> QED BY <2>4, <3>1 DEF Keyed
  <2>6. ASSUME NEW r \in SportEventIds
        PROVE  /\ SourceOf[r] \in Sources
               /\ SourceOf[r] = k => /\ book'[r] = After(m)[r]
                                     /\ book'[r] = v[SourceOf[r]][r]
               /\ SourceOf[r] # k => /\ book'[r] = book[r] /\ After(m)[r] = m.before[r]
                                     /\ v[SourceOf[r]][r] = o[SourceOf[r]].held[r]
    <3>1. SourceOf[r] \in Sources
      BY FeedTyping
    <3>2. CASE \E e \in m.data : e.id = r
      <4>1. PICK e \in m.data : e.id = r
        BY <3>2
      <4>2. SourceOf[r] = k
        BY <1>2, <4>1
      <4>3. book'[r] = e /\ After(m)[r] = e /\ held[r] = e
        BY <1>2, <2>1, <2>4, <4>1, WithAt
      <4> QED BY <3>1, <4>2, <4>3
    <3>3. CASE \A e \in m.data : e.id # r
      <4>1. /\ book'[r] = View!Without(book, k)[r]
            /\ After(m)[r] = View!Without(m.before, k)[r]
            /\ held[r] = Nothing[r]
        BY <1>2, <2>1, <2>4, <3>3, WithAt
      <4>2. /\ book'[r] = IF SourceOf[r] = k THEN None ELSE book[r]
            /\ After(m)[r] = IF SourceOf[r] = k THEN None ELSE m.before[r]
            /\ held[r] = None
        BY <4>1, WithoutAt DEF Nothing
      <4> QED BY <3>1, <4>2
    <3> QED BY <3>2, <3>3
  <2> HIDE DEF v
  <2>7. BookWithinStores'
    <3>1. ASSUME NEW r \in SportEventIds
          PROVE  LET j == SourceOf[r]
                 IN  /\ o[j] = None => book'[r] \in {book[r], None}
                     /\ o[j] # None /\ o[j].heard =>
                          \/ book'[r] \in {v[j][r], None}
                          \/ book'[r] = book[r] /\ v[j][r] = o[j].held[r]
      BY <1>6, <2>6
    <3> QED BY <1>0, <1>5, <2>3, <3>1, WithinKept
  <2>8. Mirrors(After(m))'
    <3> SUFFICES ASSUME NEW r \in SportEventIds, SourceOf[r] \notin garbled', ~Deaf(SourceOf[r])'
                 PROVE  book'[r] = After(m)[r]
      BY DEF Mirrors
    <3>1. ~Deaf(SourceOf[r])
      BY <1>5, <2>3, <2>6, HeardBefore
    <3>2. SourceOf[r] # k => book[r] = m.before[r]
      BY <1>0, <1>7, <3>1 DEF Mirrors
    <3> QED BY <2>6, <3>2
  <2>9. StoresOK'
    BY <1>0, <1>5, <1>7, <2>3 DEF StoresOK, Refilled
  <2> QED BY <2>5, <2>7, <2>8, <2>9 DEF Done
<1>8. CASE stores' = o /\ book' = book /\ garbled' = garbled \cup {k}
  <2> DEFINE v == [j \in Sources |-> o[j].held]
  <2>1. Refilled(o, v)
    BY <1>5, <1>8, KeptRefills
  <2>2. \A r \in SportEventIds : SourceOf[r] \in Sources /\ v[SourceOf[r]][r] = o[SourceOf[r]].held[r]
    BY FeedTyping
  <2> HIDE DEF v
  <2>3. BookWithinStores'
    BY <1>0, <1>5, <1>8, <2>1, <2>2, WithinKept
  <2>4. Mirrors(After(m))'
    <3> SUFFICES ASSUME NEW r \in SportEventIds, SourceOf[r] \notin garbled', ~Deaf(SourceOf[r])'
                 PROVE  book'[r] = After(m)[r]
      BY DEF Mirrors
    <3>1. ~Deaf(SourceOf[r])
      BY <1>5, <2>1, <2>2, HeardBefore
    <3>2. SourceOf[r] # k /\ book[r] = m.before[r]
      BY <1>0, <1>8, <3>1 DEF Mirrors
    <3>3. \A e \in m.data : e.id # r
      BY <1>2, <3>2
    <3>4. After(m)[r] = View!Without(m.before, k)[r]
      BY <1>2, <3>3, WithAt
    <3> QED BY <1>8, <3>2, <3>4, WithoutAt
  <2>5. StoresOK'
    BY <1>0, <1>2, <1>5, <1>8, <2>1 DEF StoresOK, Refilled
  <2> QED BY <1>0, <1>8, <2>3, <2>4, <2>5 DEF Done, Keyed
<1> QED BY <1>3, <1>4, <1>7, <1>8
-----------------------------------------------------------------------------
(* The wire. *)

\* A frame put on the wire leaves what its receivers should hold as it was.
LEMMA Queued ==
  ASSUME FInv, NEW m \in Frames, FrameOK(m), m.before = truth, After(m) = truth', Keyed(truth)',
         Sends(m)
  PROVE  FInv'
<1>1. /\ WireOK /\ MapsOK /\ StoresOK /\ Mirrored /\ BookWithinStores
      /\ up' = up /\ stores' = stores /\ wired' = wired /\ book' = book /\ garbled' = garbled
  BY DEF FInv, Sends, clientVars
<1>2. CASE ~up
  <2>1. wire = << >> /\ wire' = << >>
    BY <1>1, <1>2 DEF Sends, WireOK
  <2>2. WireOK'
    BY <1>1, <1>2, <2>1 DEF WireOK
  <2>3. Expected = Nothing /\ Expected' = Nothing
    BY <1>1, <1>2 DEF Expected
  <2> QED BY <1>1, <2>2, <2>3 DEF FInv, MapsOK, StoresOK, Mirrored, BookWithinStores, Deaf, Keyed
<1>3. CASE up
  <2>1. /\ wire \in Seq(Frames) /\ wire' = Append(wire, m) /\ wire' \in Seq(Frames)
        /\ Len(wire) \in Nat /\ Len(wire') = Len(wire) + 1
        /\ \A i \in 1 .. Len(wire) : wire'[i] = wire[i]
        /\ wire'[Len(wire) + 1] = m
    BY <1>1, <1>3, AppendProperties DEF Sends, WireOK
  <2>2. ASSUME NEW i \in 1 .. Len(wire) + 1 PROVE HeldBefore(i)' = HeldBefore(i)
    <3>1. CASE i \in 1 .. Len(wire)
      BY <2>1, <3>1 DEF HeldBefore
    <3>2. CASE i = Len(wire) + 1
      BY <2>1, <3>2 DEF HeldBefore
    <3> QED BY <2>1, <3>1, <3>2
  <2>4. ASSUME NEW i \in 1 .. Len(wire')
        PROVE  FrameOK(wire'[i]) /\ After(wire'[i]) = HeldBefore(i + 1)'
    <3>1. CASE i \in 1 .. Len(wire)
      <4>1. FrameOK(wire[i]) /\ After(wire[i]) = HeldBefore(i + 1)
        BY <1>1, <3>1 DEF WireOK
      <4>2. i + 1 \in 1 .. Len(wire) + 1
        BY <2>1, <3>1
      <4>3. HeldBefore(i + 1)' = HeldBefore(i + 1)
        BY <2>2, <4>2
      <4> QED BY <2>1, <3>1, <4>1, <4>3
    <3>2. CASE i = Len(wire) + 1
      <4>1. HeldBefore(i + 1)' = truth'
        BY <2>1, <3>2 DEF HeldBefore
      <4>2. wire'[i] = m
        BY <2>1, <3>2
      <4> QED BY <4>1, <4>2
    <3> QED BY <2>1, <3>1, <3>2
  <2>5. WireOK'
    BY <1>1, <1>3, <2>1, <2>4 DEF WireOK
  <2>6. Expected' = Expected
    <3>1. wire' # << >> /\ Head(wire') = wire'[1]
      BY <2>1
    <3>2. CASE wire = << >>
      BY <1>1, <1>3, <2>1, <3>1, <3>2 DEF Expected
    <3>3. CASE wire # << >>
      <4>1. Head(wire) = wire[1] /\ wire'[1] = wire[1]
        BY <2>1, <3>3
      <4> QED BY <1>1, <1>3, <3>1, <3>3, <4>1 DEF Expected
    <3> QED BY <3>2, <3>3
  <2> QED BY <1>1, <2>5, <2>6 DEF FInv, MapsOK, StoresOK, Mirrored, BookWithinStores, Deaf, Keyed
<1> QED BY <1>2, <1>3

\* The server sends what it does, on top of what it had.
LEMMA ServerSends ==
  ASSUME Keyed(truth),
         \/ \E e \in SportEvents : Publish(e)
         \/ \E s \in SportEventIds : \E p \in QuotesOf(s) : Reprice(s, p)
         \/ \E s \in SportEventIds : Retire(s)
         \/ \E k \in Sources : Withdraw(k)
         \/ \E k \in Sources : \E S \in Batches(k) : Rebuild(k, S)
  PROVE  \E m \in Frames : /\ FrameOK(m) /\ m.before = truth /\ After(m) = truth'
                           /\ Keyed(truth)' /\ Sends(m)
<1>0. truth \in Maps
  BY DEF Keyed
<1>1. ASSUME NEW e \in SportEvents, Publish(e)
      PROVE  \E m \in Frames : /\ FrameOK(m) /\ m.before = truth /\ After(m) = truth'
                               /\ Keyed(truth)' /\ Sends(m)
  <2> DEFINE m == [type |-> "update_event", scope |-> {SourceOf[e.id]}, data |-> {e}, before |-> truth]
  <2>1. e.id \in SportEventIds /\ SourceOf[e.id] \in Sources
    BY EventTyped
  <2>2. m \in Frames
    BY <1>0, <2>1 DEF Frames, EntryFrames
  <2>3. View!OnePerId({e}) /\ \A d \in {e} : SourceOf[d.id] \in {SourceOf[e.id]}
    BY DEF View!OnePerId
  <2>4. FrameOK(m)
    BY <2>3 DEF FrameOK
  <2>5. truth' = View!With(truth, {e})
    <3>1. \A s \in SportEventIds : View!With(truth, {e})[s] = IF s = e.id THEN e ELSE truth[s]
      <4>1. \A d \in {e} : d = e
        OBVIOUS
      <4> QED BY <2>3, <4>1, WithAt
    <3>2. View!With(truth, {e}) = [s \in SportEventIds |-> View!With(truth, {e})[s]]
      BY DEF View!With
    <3>3. truth' = [truth EXCEPT ![e.id] = e]
      BY <1>1 DEF Publish
    <3> QED BY <1>0, <3>1, <3>2, <3>3 DEF Maps
  <2>6. After(m) = View!With(truth, {e})
    BY DEF After
  <2>7. Keyed(truth)'
    <3>1. Keyed(View!With(truth, {e}))
      BY <2>3, WithKeyed
    <3> QED BY <2>5, <3>1 DEF Keyed
  <2>8. Sends(m)
    BY <1>1 DEF Publish
  <2> HIDE DEF m
  <2>9. m.before = truth
    BY DEF m
  <2> QED BY <2>2, <2>4, <2>5, <2>6, <2>7, <2>8, <2>9
<1>2. ASSUME NEW s \in SportEventIds, NEW p \in QuotesOf(s), Reprice(s, p)
      PROVE  \E m \in Frames : /\ FrameOK(m) /\ m.before = truth /\ After(m) = truth'
                               /\ Keyed(truth)' /\ Sends(m)
  <2> DEFINE m == [type |-> "prices_updated", id |-> s, data |-> p, before |-> truth]
  <2>1. m \in Frames
    BY <1>0 DEF Frames, PriceFrames
  <2>2. Fits(truth[s], p) /\ truth' = [truth EXCEPT ![s] = Repriced(truth[s], p)]
    BY <1>2 DEF Reprice
  <2>3. FrameOK(m)
    BY <2>2 DEF FrameOK
  <2>4. After(m) = truth'
    BY <2>2 DEF After
  <2>5. truth[s] \in SportEvents /\ truth[s].id = s
    BY <1>0, <2>2 DEF Maps, Keyed, Fits
  <2>6. Repriced(truth[s], p) \in SportEvents /\ Repriced(truth[s], p).id = s
    BY <2>5, RepricedTyped
  <2>7. Keyed(truth)'
    <3>1. Keyed([truth EXCEPT ![s] = Repriced(truth[s], p)])
      BY <2>6, PutKeyed
    <3> QED BY <2>2, <3>1 DEF Keyed
  <2>8. Sends(m)
    BY <1>2 DEF Reprice
  <2> HIDE DEF m
  <2>9. m.before = truth
    BY DEF m
  <2> QED BY <2>1, <2>3, <2>4, <2>7, <2>8, <2>9
<1>3. ASSUME NEW s \in SportEventIds, Retire(s)
      PROVE  \E m \in Frames : /\ FrameOK(m) /\ m.before = truth /\ After(m) = truth'
                               /\ Keyed(truth)' /\ Sends(m)
  <2> DEFINE m == [type |-> "remove_event", id |-> s, before |-> truth]
  <2>1. m \in Frames /\ FrameOK(m)
    BY <1>0 DEF Frames, RemoveFrames, FrameOK
  <2>2. After(m) = truth' /\ Keyed(truth)'
    BY <1>3, PutKeyed DEF Retire, After, Keyed, Maps
  <2>3. Sends(m)
    BY <1>3 DEF Retire
  <2> HIDE DEF m
  <2>4. m.before = truth
    BY DEF m
  <2> QED BY <2>1, <2>2, <2>3, <2>4
<1>4. ASSUME NEW k \in Sources, Withdraw(k)
      PROVE  \E m \in Frames : /\ FrameOK(m) /\ m.before = truth /\ After(m) = truth'
                               /\ Keyed(truth)' /\ Sends(m)
  <2> DEFINE m == [type |-> "store_cleared", source |-> k, before |-> truth]
  <2>1. m \in Frames /\ FrameOK(m)
    BY <1>0 DEF Frames, ClearFrames, FrameOK
  <2>2. After(m) = truth'
    BY <1>4 DEF Withdraw, After
  <2>3. Keyed(truth)'
    <3>1. Keyed(View!Without(truth, k))
      BY WithoutKeyed
    <3> QED BY <1>4, <3>1 DEF Withdraw, Keyed
  <2>4. Sends(m)
    BY <1>4 DEF Withdraw
  <2> HIDE DEF m
  <2>5. m.before = truth
    BY DEF m
  <2> QED BY <2>1, <2>2, <2>3, <2>4, <2>5
<1>5. ASSUME NEW k \in Sources, NEW S \in Batches(k), Rebuild(k, S)
      PROVE  \E m \in Frames : /\ FrameOK(m) /\ m.before = truth /\ After(m) = truth'
                               /\ Keyed(truth)' /\ Sends(m)
  <2> DEFINE m == [type |-> "resync", source |-> k, data |-> S, before |-> truth]
  <2>1. S \in SUBSET SportEvents /\ View!OnePerId(S) /\ \A e \in S : SourceOf[e.id] = k
    BY DEF Batches
  <2>2. m \in Frames /\ FrameOK(m)
    BY <1>0, <2>1 DEF Frames, ResyncFrames, FrameOK
  <2>3. After(m) = truth'
    BY <1>5 DEF Rebuild, After
  <2>4. Keyed(truth)'
    <3>1. Keyed(View!With(View!Without(truth, k), S))
      BY <2>1, WithoutKeyed, WithKeyed
    <3> QED BY <1>5, <3>1 DEF Rebuild, Keyed
  <2>5. Sends(m)
    BY <1>5 DEF Rebuild
  <2> HIDE DEF m
  <2>6. m.before = truth
    BY DEF m
  <2> QED BY <2>2, <2>3, <2>4, <2>5, <2>6
<1> QED BY <1>1, <1>2, <1>3, <1>4, <1>5

\* The snapshot leads from an empty book to what the server has.
LEMMA Greeted ==
  ASSUME FInv, Greet
  PROVE  FInv'
<1> DEFINE m == [type |-> "snapshot", scope |-> Sources, data |-> All(truth), before |-> Nothing]
<1>1. /\ WireOK /\ MapsOK /\ StoresOK /\ Mirrored /\ BookWithinStores /\ ~up
  BY DEF FInv, Greet
<1>2. /\ up' = TRUE /\ wire' = <<m>> /\ truth' = truth /\ stores' = stores /\ wired' = wired
      /\ book' = book /\ garbled' = garbled
  BY DEF Greet, clientVars
<1>3. Keyed(truth) /\ Keyed(book) /\ book = Nothing
  BY <1>1 DEF MapsOK
<1>4. All(truth) \in SUBSET SportEvents /\ View!OnePerId(All(truth)) /\ View!With(Nothing, All(truth)) = truth
  BY <1>3, AllVersions
<1>5. m \in Frames
  BY <1>4, NothingKeyed DEF Frames, EntryFrames, Keyed
<1>6. FrameOK(m)
  <2>1. \A e \in All(truth) : SourceOf[e.id] \in Sources
    BY <1>4, EventTyped
  <2> QED BY <1>4, <2>1, NothingKeyed DEF FrameOK
<1>7. After(m) = truth
  BY <1>4 DEF After
<1>8. m.before = Nothing
  OBVIOUS
<1> HIDE DEF m
<1>9. wire' \in Seq(Frames) /\ Len(wire') = 1 /\ wire'[1] = m /\ wire' # << >> /\ Head(wire') = m
  BY <1>2, <1>5
<1>10. WireOK'
  <2>1. HeldBefore(2)' = truth
    BY <1>2, <1>9 DEF HeldBefore
  <2>2. ASSUME NEW i \in 1 .. Len(wire')
        PROVE  FrameOK(wire'[i]) /\ After(wire'[i]) = HeldBefore(i + 1)'
    <3>1. i = 1 /\ i + 1 = 2
      BY <1>9
    <3> QED BY <1>6, <1>7, <1>9, <2>1, <3>1
  <2> QED BY <1>2, <1>9, <2>2 DEF WireOK
<1>11. Expected' = Nothing
  BY <1>2, <1>8, <1>9 DEF Expected
<1> QED BY <1>1, <1>2, <1>3, <1>10, <1>11 DEF FInv, MapsOK, StoresOK, Mirrored, BookWithinStores, Deaf, Keyed

LEMMA Ended ==
  ASSUME FInv, Ends, StoresOK'
  PROVE  FInv'
<1>1. /\ up' = FALSE /\ wire' = << >> /\ book' = Nothing /\ garbled' = {} /\ truth' = truth
  BY DEF Ends, Forgotten
<1>2. WireOK'
  BY <1>1 DEF WireOK
<1>3. MapsOK'
  BY <1>1, NothingKeyed DEF FInv, MapsOK, Keyed
<1>4. Mirrored' /\ BookWithinStores'
  BY <1>1 DEF Mirrored, BookWithinStores, Expected, Nothing
<1> QED BY <1>2, <1>3, <1>4 DEF FInv

\* A handled frame leaves the wire, and what should be held is what it made.
LEMMA Received ==
  ASSUME FInv, Receive
  PROVE  FInv'
<1>0. /\ WireOK /\ MapsOK /\ StoresOK /\ Mirrored /\ BookWithinStores
      /\ wire # << >> /\ wire' = Tail(wire) /\ truth' = truth /\ up' = up
  BY DEF FInv, Receive
<1>1. PICK m : m = Head(wire)
  OBVIOUS
<1>2. /\ wire \in Seq(Frames) /\ Len(wire) \in Nat /\ Len(wire) > 0
      /\ m \in Frames /\ m = wire[1] /\ up
      /\ wire' \in Seq(Frames) /\ Len(wire') = Len(wire) - 1
      /\ \A i \in 1 .. Len(wire') : wire'[i] = wire[i + 1]
  BY <1>0, <1>1, HeadTailProperties DEF WireOK
<1>3. FrameOK(m) /\ After(m) = HeldBefore(2)
  BY <1>0, <1>2 DEF WireOK
<1>4. Ready(m)
  <2>1. Expected = m.before
    BY <1>0, <1>1, <1>2 DEF Expected
  <2> QED BY <1>0, <2>1 DEF Ready, Mirrored, Mirrors, MapsOK
<1>5. Done(m)
  <2>1. \/ m.type \in {"snapshot", "update_event"} /\ HandleEntries(m)
        \/ m.type = "prices_updated" /\ HandlePrices(m)
        \/ m.type = "remove_event"   /\ HandleRemove(m)
        \/ m.type = "store_cleared"  /\ HandleCleared(m)
        \/ m.type = "resync"         /\ HandleResync(m)
    BY <1>1 DEF Receive
  <2> QED BY <1>0, <1>2, <1>3, <1>4, <2>1, EntriesDone, PricesDone, RemoveDone, ClearedDone, ResyncDone
<1>6. \A i \in 1 .. Len(wire) : HeldBefore(i)' = HeldBefore(i + 1)
  BY <1>0, <1>2 DEF HeldBefore
<1>7. WireOK'
  <2>1. ASSUME NEW i \in 1 .. Len(wire')
        PROVE  FrameOK(wire'[i]) /\ After(wire'[i]) = HeldBefore(i + 1)'
    <3>1. i + 1 \in 1 .. Len(wire) /\ wire'[i] = wire[i + 1]
      BY <1>2
    <3>2. FrameOK(wire[i + 1]) /\ After(wire[i + 1]) = HeldBefore(i + 1 + 1)
      BY <1>0, <3>1 DEF WireOK
    <3> QED BY <1>6, <3>1, <3>2
  <2> QED BY <1>0, <1>2, <2>1 DEF WireOK
<1>8. Expected' = After(m)
  <2>1. HeldBefore(1)' = HeldBefore(2)
    BY <1>2, <1>6
  <2>2. Expected' = HeldBefore(1)'
    <3>1. CASE wire' = << >>
      <4>1. Len(wire') = 0
        BY <3>1
      <4>2. HeldBefore(1)' = truth'
        BY <4>1 DEF HeldBefore
      <4>3. Expected' = truth'
        BY <1>0, <1>2, <3>1 DEF Expected
      <4> QED BY <4>2, <4>3
    <3>2. CASE wire' # << >>
      <4>1. Head(wire') = wire'[1] /\ Len(wire') >= 1
        BY <1>2, <3>2
      <4> QED BY <1>0, <1>2, <3>2, <4>1 DEF Expected, HeldBefore
    <3> QED BY <3>1, <3>2
  <2> QED BY <1>3, <2>1, <2>2
<1>9. Mirrored'
  BY <1>5, <1>8 DEF Done, Mirrors, Mirrored
<1>10. MapsOK'
  BY <1>0, <1>2, <1>5 DEF Done, MapsOK, Keyed
<1> QED BY <1>5, <1>7, <1>9, <1>10 DEF FInv, Done
-----------------------------------------------------------------------------
LEMMA FInvInit == Init => FInv
<1> SUFFICES ASSUME Init PROVE FInv
  OBVIOUS
<1>1. /\ truth = Nothing /\ wire = << >> /\ up = FALSE /\ stores = [k \in Sources |-> None]
      /\ wired = {} /\ book = Nothing /\ garbled = {}
  BY DEF Init
<1>2. WireOK /\ MapsOK
  BY <1>1, NothingKeyed DEF WireOK, MapsOK
<1>3. StoresOK
  BY <1>1 DEF StoresOK
<1>4. Mirrored /\ BookWithinStores
  BY <1>1 DEF Mirrored, BookWithinStores, Expected, Nothing
<1> QED BY <1>2, <1>3, <1>4 DEF FInv

LEMMA FInvNext == FInv /\ Next => FInv'
<1> SUFFICES ASSUME FInv, Next PROVE FInv'
  OBVIOUS
<1>0. Keyed(truth) /\ StoresOK
  BY DEF FInv, MapsOK
<1>1. CASE \/ \E e \in SportEvents : Publish(e)
           \/ \E s \in SportEventIds : \E p \in QuotesOf(s) : Reprice(s, p)
           \/ \E s \in SportEventIds : Retire(s)
           \/ \E k \in Sources : Withdraw(k)
           \/ \E k \in Sources : \E S \in Batches(k) : Rebuild(k, S)
  BY <1>0, <1>1, ServerSends, Queued
<1>2. CASE Receive
  BY <1>2, Received
<1>3. CASE Greet
  BY <1>3, Greeted
<1>4. CASE Lose
  <2>1. StoresOK'
    BY <1>0, <1>4 DEF Lose, Ends, StoresOK, Keyed
  <2> QED BY <1>4, <2>1, Ended DEF Lose
<1>5. CASE Renew
  <2>1. StoresOK'
    BY <1>0, <1>5 DEF Renew, Ends, StoresOK
  <2> QED BY <1>5, <2>1, Ended DEF Renew
<1> QED BY <1>1, <1>2, <1>3, <1>4, <1>5 DEF Next

LEMMA FInvStep == FInv /\ [Next]_vars => FInv'
<1>1. ASSUME FInv, UNCHANGED vars PROVE FInv'
  <2>1. /\ truth' = truth /\ wire' = wire /\ up' = up /\ stores' = stores /\ wired' = wired
        /\ book' = book /\ garbled' = garbled
    BY <1>1 DEF vars
  <2>2. WireOK'
    BY <1>1, <2>1 DEF FInv, WireOK, HeldBefore
  <2>3. MapsOK' /\ StoresOK'
    BY <1>1, <2>1 DEF FInv, MapsOK, StoresOK, Keyed
  <2>4. Expected' = Expected
    BY <2>1 DEF Expected
  <2>5. Mirrored' /\ BookWithinStores'
    BY <1>1, <2>1, <2>4 DEF FInv, Mirrored, BookWithinStores, Deaf
  <2> QED BY <2>2, <2>3, <2>5 DEF FInv
<1> QED BY <1>1, FInvNext

\* The inductive invariant: what is on the wire, in the stores and in the book
\* belongs together at every moment of every behaviour.
THEOREM FeedInvariant == Spec => []FInv
BY FInvInit, FInvStep, PTL DEF Spec
-----------------------------------------------------------------------------
(* The public events, and the copy an application makes of them. *)

PutBy(E) == {n.data : n \in {m \in E : m.type \in {"sportEvent:added", "sportEvent:updated"}}}
              \cup UNION {n.data : n \in {m \in E : m.type = "resync"}}
RemovedBy(E) == {n.id : n \in {m \in E : m.type = "sportEvent:removed"}}
EmptiedBy(E) == {n.source : n \in {m \in E : m.type \in {"source:cleared", "resync"}}}

LEMMA FollowAt ==
  ASSUME NEW v, NEW E, NEW U, U = PutBy(E), View!OnePerId(U)
  PROVE  /\ Follow(v, E) = [s \in SportEventIds |-> Follow(v, E)[s]]
         /\ \A s \in SportEventIds :
              /\ \A e \in U : e.id = s => Follow(v, E)[s] = e
              /\ (\A e \in U : e.id # s) =>
                   Follow(v, E)[s] = IF s \in RemovedBy(E) \/ SourceOf[s] \in EmptiedBy(E)
                                       THEN None ELSE v[s]
<1> DEFINE kept == [s \in SportEventIds |->
                      IF s \in RemovedBy(E) \/ SourceOf[s] \in EmptiedBy(E) THEN None ELSE v[s]]
<1>1. Follow(v, E) = View!With(kept, U)
  BY Zenon DEF Follow, PutBy, RemovedBy, EmptiedBy
<1>2. \A s \in SportEventIds :
        kept[s] = IF s \in RemovedBy(E) \/ SourceOf[s] \in EmptiedBy(E) THEN None ELSE v[s]
  OBVIOUS
<1> HIDE DEF kept
<1>3. View!With(kept, U) = [s \in SportEventIds |-> View!With(kept, U)[s]]
  BY DEF View!With
<1>4. ASSUME NEW s \in SportEventIds
      PROVE  /\ \A e \in U : e.id = s => View!With(kept, U)[s] = e
             /\ (\A e \in U : e.id # s) => View!With(kept, U)[s] = kept[s]
  BY WithAt
<1> QED BY <1>1, <1>2, <1>3, <1>4

\* No event, no change.
LEMMA NoNews ==
  ASSUME replica = book, book \in Maps, book' = book, Emits({})
  PROVE  emitted' = {} /\ replica' = book'
<1>1. PutBy({}) = {} /\ RemovedBy({}) = {} /\ EmptiedBy({}) = {} /\ View!OnePerId({})
  BY DEF PutBy, RemovedBy, EmptiedBy, View!OnePerId
<1>2. Follow(replica, {}) = [s \in SportEventIds |-> replica[s]]
  <2>1. Follow(replica, {}) = [s \in SportEventIds |-> Follow(replica, {})[s]]
    BY <1>1, FollowAt
  <2>2. \A s \in SportEventIds : Follow(replica, {})[s] = replica[s]
    BY <1>1, FollowAt
  <2> QED BY <2>1, <2>2
<1>3. book = [s \in SportEventIds |-> book[s]]
  BY DEF Maps
<1> QED BY <1>2, <1>3 DEF Emits

\* odds:changed tells the price the book has.
Ticked(n) ==
  /\ n.selection \in SelectionIds /\ n.quote \in Prices
  /\ book[EventOf[n.selection]] # None
  /\ n.selection \in DOMAIN book[EventOf[n.selection]].quotes
  /\ book[EventOf[n.selection]].quotes[n.selection] = n.quote

Announced ==
  \A n \in emitted' :
    /\ n.type = "sportEvent:added" => book[n.data.id] = None
    /\ n.type = "sportEvent:updated" /\ SourceOf[n.data.id] \notin garbled =>
         book[n.data.id] # None

(* What the events of a frame say of it. *)
Says(m) ==
  /\ replica' = book'
  /\ \A n \in emitted' : n.type = "odds:changed" => Ticked(n)'
  /\ Announced
  /\ \A n \in emitted' : n.type = "source:cleared" =>
       m.type = "store_cleared" /\ emitted' = {Cleared(m.source)}
  /\ m.type = "store_cleared" /\ Slice(book, m.source) # {} => emitted' = {Cleared(m.source)}

LEMMA EntriesSaid ==
  ASSUME NEW m \in Frames, FrameOK(m), Ready(m), m.type \in {"snapshot", "update_event"},
         HandleEntries(m), replica = book
  PROVE  Says(m)
<1>1. PICK P \in SUBSET m.data, K \in SUBSET Sources : \E f \in Placements(K) : UpsertAll(Opened(f), P)
  BY EntriesTaken
<1>2. PICK f \in Placements(K) : UpsertAll(Opened(f), P)
  BY <1>1
<1>3. PICK o : o = Opened(f)
  OBVIOUS
<1>4. PICK heard : heard = {e \in P : o[SourceOf[e.id]].heard}
  OBVIOUS
<1>5. PICK E : E = {Novelty(o, e) : e \in heard}
  OBVIOUS
<1>6. book' = View!With(book, heard) /\ Emits(E)
  BY <1>2, <1>3, <1>4, <1>5 DEF UpsertAll
<1>7. View!OnePerId(heard)
  BY <1>4, FrameKinds DEF FrameOK, View!OnePerId
<1>8. ASSUME NEW n \in E
      PROVE  \E e \in heard :
               /\ n = IF book[e.id] = None THEN [type |-> "sportEvent:added", data |-> e]
                                           ELSE [type |-> "sportEvent:updated", data |-> e]
  <2>1. PICK e \in heard : n = Novelty(o, e)
    BY <1>5
  <2> QED BY <2>1 DEF Novelty, Added, Updated
<1>9. ASSUME NEW e \in heard
      PROVE  \E n \in E : n.type \in {"sportEvent:added", "sportEvent:updated"} /\ n.data = e
  <2>1. Novelty(o, e) \in E
    BY <1>5
  <2> QED BY <2>1 DEF Novelty, Added, Updated
<1>10. PutBy(E) = heard /\ RemovedBy(E) = {} /\ EmptiedBy(E) = {}
  BY <1>8, <1>9 DEF PutBy, RemovedBy, EmptiedBy
<1>11. replica' = book'
  <2>1. ASSUME NEW s \in SportEventIds PROVE Follow(book, E)[s] = View!With(book, heard)[s]
    <3>1. CASE \E e \in heard : e.id = s
      BY <1>7, <1>10, <3>1, FollowAt, WithAt
    <3>2. CASE \A e \in heard : e.id # s
      BY <1>7, <1>10, <3>2, FollowAt, WithAt
    <3> QED BY <3>1, <3>2
  <2>2. Follow(book, E) = [s \in SportEventIds |-> Follow(book, E)[s]]
    BY <1>7, <1>10, FollowAt
  <2>3. View!With(book, heard) = [s \in SportEventIds |-> View!With(book, heard)[s]]
    BY DEF View!With
  <2>4. replica' = Follow(book, E)
    BY <1>6 DEF Emits
  <2> QED BY <1>6, <2>1, <2>2, <2>3, <2>4
<1>12. emitted' = E
  BY <1>6 DEF Emits
<1>13. Announced
  BY <1>8, <1>12 DEF Announced
<1>14. \A n \in emitted' : n.type \notin {"odds:changed", "source:cleared"}
  BY <1>8, <1>12
<1> QED BY <1>11, <1>13, <1>14 DEF Says

LEMMA PricesSaid ==
  ASSUME NEW m \in Frames, FrameOK(m), Ready(m), m.type = "prices_updated",
         HandlePrices(m), replica = book, Keyed(book)'
  PROVE  Says(m)
<1>1. PICK s, k : s = m.id /\ k = SourceOf[s]
  OBVIOUS
<1>2. /\ s \in SportEventIds /\ k \in Sources /\ Fits(m.before[s], m.data)
      /\ Keyed(book) /\ StoresOK
  BY <1>1, FrameKinds, FeedTyping DEF FrameOK, Ready
<1>3. PICK t \in SportEventIds : m.data \in QuotesOf(t)
  BY FrameKinds
<1>4. PICK f \in Placements({k}) :
        LET o    == Opened(f)
            old  == o[k].held[s]
            new  == Repriced(old, m.data)
            fits == Fits(old, m.data)
        IN  /\ Wire(f)
            /\ IF fits /\ o[k].heard
                 THEN /\ book' = View!With(book, {new})
                      /\ Emits({Updated(new)} \cup {Changed(x, new.quotes[x]) : x \in DOMAIN m.data})
                 ELSE UNCHANGED book /\ Emits({})
  BY <1>1 DEF HandlePrices, ToBook
<1>5. PICK o : o = Opened(f)
  OBVIOUS
<1>6. Opens(o, {k}) /\ o[k] # None /\ Keyed(o[k].held)
  <2>1. Opens(o, {k})
    BY <1>2, <1>4, <1>5, OpenedStores
  <2> QED BY <1>2, <2>1 DEF Opens
<1>7. PICK old, new : old = o[k].held[s] /\ new = Repriced(old, m.data)
  OBVIOUS
<1>8. CASE ~(Fits(old, m.data) /\ o[k].heard)
  <2>1. book' = book /\ Emits({})
    BY <1>4, <1>5, <1>7, <1>8
  <2>2. emitted' = {} /\ replica' = book'
    BY <1>2, <2>1, NoNews DEF Keyed
  <2> QED BY <2>2 DEF Says, Announced
<1>9. CASE Fits(old, m.data) /\ o[k].heard
  <2>1. old \in SportEvents /\ old.id = s /\ DOMAIN m.data \subseteq DOMAIN old.quotes
    BY <1>2, <1>6, <1>7, <1>9 DEF Fits, Keyed, Maps
  <2>2. /\ new \in SportEvents /\ new.id = s /\ DOMAIN new.quotes = DOMAIN old.quotes
    BY <1>3, <1>7, <2>1, RepricedTyped
  <2>3. PICK E : E = {Updated(new)} \cup {Changed(x, new.quotes[x]) : x \in DOMAIN m.data}
    OBVIOUS
  <2>4. book' = View!With(book, {new}) /\ Emits(E)
    BY <1>4, <1>5, <1>7, <1>9, <2>3
  <2>5. \A n \in E : \/ n = [type |-> "sportEvent:updated", data |-> new]
                     \/ \E x \in DOMAIN m.data :
                          n = [type |-> "odds:changed", selection |-> x, quote |-> new.quotes[x]]
    BY <2>3 DEF Updated, Changed
  <2>6. [type |-> "sportEvent:updated", data |-> new] \in E
    BY <2>3 DEF Updated
  <2>7. PutBy(E) = {new} /\ RemovedBy(E) = {} /\ EmptiedBy(E) = {}
    <3>1. \A n \in E : n.type \notin {"sportEvent:added", "sportEvent:removed", "source:cleared", "resync"}
      BY <2>5
    <3>2. \A n \in E : n.type = "sportEvent:updated" => n.data = new
      BY <2>5
    <3>3. \E n \in E : n.type = "sportEvent:updated" /\ n.data = new
      BY <2>6
    <3> QED BY <3>1, <3>2, <3>3 DEF PutBy, RemovedBy, EmptiedBy
  <2>8. View!OnePerId({new})
    BY DEF View!OnePerId
  <2>9. replica' = book'
    <3>1. ASSUME NEW r \in SportEventIds PROVE Follow(book, E)[r] = View!With(book, {new})[r]
      <4>1. CASE r = s
        BY <2>2, <2>7, <2>8, <4>1, FollowAt, WithAt
      <4>2. CASE r # s
        <5>1. \A e \in {new} : e.id # r
          BY <2>2, <4>2
        <5> QED BY <2>7, <2>8, <5>1, FollowAt, WithAt
      <4> QED BY <4>1, <4>2
    <3>2. Follow(book, E) = [r \in SportEventIds |-> Follow(book, E)[r]]
      BY <2>7, <2>8, FollowAt
    <3>3. View!With(book, {new}) = [r \in SportEventIds |-> View!With(book, {new})[r]]
      BY DEF View!With
    <3>4. replica' = Follow(book, E)
      BY <2>4 DEF Emits
    <3> QED BY <2>4, <3>1, <3>2, <3>3, <3>4
  <2>10. emitted' = E
    BY <2>4 DEF Emits
  <2>11. book'[s] = new /\ new # None
    <3>1. new \in {new}
      OBVIOUS
    <3> QED BY <1>2, <2>2, <2>4, <2>8, <3>1, WithAt, EventTyped
  <2>12. ASSUME NEW x \in DOMAIN m.data
         PROVE  /\ x \in SelectionIds /\ EventOf[x] = s /\ x \in DOMAIN new.quotes
                /\ new.quotes[x] \in Prices
    <3>1. x \in DOMAIN new.quotes
      BY <2>1, <2>2
    <3>2. new.quotes \in [DOMAIN new.quotes -> Prices] /\ x \in SelectionIds /\ EventOf[x] = s
      BY <2>2, <3>1, EventTyped, QuotesTyped
    <3> QED BY <3>1, <3>2
  <2>13. \A n \in emitted' : n.type = "odds:changed" => Ticked(n)'
    BY <2>5, <2>10, <2>11, <2>12 DEF Ticked
  <2>14. Announced
    <3>1. k \notin garbled => book[s] # None
      <4>1. ~Deaf(k)
        BY <1>2, <1>6, <1>9 DEF Opens, Deaf
      <4>2. m.before[s] # None
        BY <1>2 DEF Fits
      <4> QED BY <1>1, <1>2, <1>6, <4>1, <4>2, StoreHasIt
    <3> QED BY <1>1, <2>2, <2>5, <2>10, <3>1 DEF Announced
  <2>15. \A n \in emitted' : n.type # "source:cleared"
    BY <2>5, <2>10
  <2> QED BY <2>9, <2>13, <2>14, <2>15 DEF Says
<1> QED BY <1>8, <1>9

LEMMA RemoveSaid ==
  ASSUME NEW m \in Frames, Ready(m), m.type = "remove_event", HandleRemove(m), replica = book
  PROVE  Says(m)
<1>1. PICK s, k : s = m.id /\ k = SourceOf[s]
  OBVIOUS
<1>2. s \in SportEventIds /\ book \in Maps
  BY <1>1, FrameKinds DEF Ready, Keyed
<1>3. \/ book' = [book EXCEPT ![s] = None] /\ Emits({Removed(s)})
      \/ book' = book /\ Emits({})
  BY <1>1 DEF HandleRemove
<1>4. CASE book' = book /\ Emits({})
  <2>1. emitted' = {} /\ replica' = book'
    BY <1>2, <1>4, NoNews
  <2> QED BY <2>1 DEF Says, Announced
<1>5. CASE book' = [book EXCEPT ![s] = None] /\ Emits({Removed(s)})
  <2>1. PICK E : E = {[type |-> "sportEvent:removed", id |-> s]}
    OBVIOUS
  <2>2. Emits(E)
    BY <1>5, <2>1 DEF Removed
  <2>3. PutBy(E) = {} /\ RemovedBy(E) = {s} /\ EmptiedBy(E) = {} /\ View!OnePerId({})
    <3>1. PICK n : n = [type |-> "sportEvent:removed", id |-> s]
      OBVIOUS
    <3>2. n.type = "sportEvent:removed" /\ n.id = s
      BY <3>1
    <3>3. E = {n}
      BY <2>1, <3>1
    <3>4. PutBy(E) = {}
      BY <3>2, <3>3 DEF PutBy
    <3>5. RemovedBy(E) = {s}
      BY <3>2, <3>3 DEF RemovedBy
    <3>6. EmptiedBy(E) = {}
      BY <3>2, <3>3 DEF EmptiedBy
    <3> QED BY <3>4, <3>5, <3>6 DEF View!OnePerId
  <2>4. \A r \in SportEventIds : Follow(book, E)[r] = IF r = s THEN None ELSE book[r]
    BY <2>3, FollowAt
  <2>5. Follow(book, E) = [r \in SportEventIds |-> Follow(book, E)[r]]
    BY <2>3, FollowAt
  <2>6. replica' = Follow(book, E) /\ emitted' = E
    BY <2>2 DEF Emits
  <2>7. replica' = book'
    BY <1>2, <1>5, <2>4, <2>5, <2>6 DEF Maps
  <2>8. \A n \in emitted' : n.type = "sportEvent:removed"
    BY <2>1, <2>6
  <2> QED BY <2>7, <2>8 DEF Says, Announced
<1> QED BY <1>3, <1>4, <1>5

LEMMA ClearedSaid ==
  ASSUME NEW m \in Frames, Ready(m), m.type = "store_cleared", HandleCleared(m), replica = book
  PROVE  Says(m)
<1>1. PICK k : k = m.source
  OBVIOUS
<1>2. k \in Sources /\ book \in Maps /\ BookWithinStores
  BY <1>1, FrameKinds DEF Ready, Keyed
<1>3. \A s \in SportEventIds : SourceOf[s] = k /\ book[s] # None => book[s] \in Slice(book, k)
  BY DEF Slice
<1>4. CASE Slice(book, k) = {}
  <2>1. Emits({})
    BY <1>1, <1>4 DEF HandleCleared, ClearedEvents
  <2>2. \A s \in SportEventIds : SourceOf[s] = k => book[s] = None
    BY <1>3, <1>4
  <2>3. book' = book
    <3>1. book' = book \/ book' = View!Without(book, k)
      BY <1>1 DEF HandleCleared
    <3>2. View!Without(book, k) = book
      BY <1>2, <2>2 DEF View!Without, Maps
    <3> QED BY <3>1, <3>2
  <2>4. emitted' = {} /\ replica' = book'
    BY <1>2, <2>1, <2>3, NoNews
  <2> QED BY <1>1, <1>4, <2>4 DEF Says, Announced
<1>5. CASE Slice(book, k) # {}
  <2>1. stores[k] # None
    <3>1. PICK s \in SportEventIds : SourceOf[s] = k /\ book[s] # None
      BY <1>5 DEF Slice
    <3> QED BY <1>2, <3>1 DEF BookWithinStores, Deaf
  <2>2. book' = View!Without(book, k) /\ Emits({Cleared(k)})
    BY <1>1, <1>5, <2>1 DEF HandleCleared, ClearedEvents
  <2>3. PICK E : E = {Cleared(k)}
    OBVIOUS
  <2>4. PutBy(E) = {} /\ RemovedBy(E) = {} /\ EmptiedBy(E) = {k} /\ View!OnePerId({})
    <3>1. PICK n : n = [type |-> "source:cleared", source |-> k]
      OBVIOUS
    <3>2. n.type = "source:cleared" /\ n.source = k
      BY <3>1
    <3>3. E = {n}
      BY <2>3, <3>1 DEF Cleared
    <3>4. PutBy(E) = {}
      BY <3>2, <3>3 DEF PutBy
    <3>5. RemovedBy(E) = {}
      BY <3>2, <3>3 DEF RemovedBy
    <3>6. EmptiedBy(E) = {k}
      BY <3>2, <3>3 DEF EmptiedBy
    <3> QED BY <3>4, <3>5, <3>6 DEF View!OnePerId
  <2>5. \A r \in SportEventIds : Follow(book, E)[r] = IF SourceOf[r] = k THEN None ELSE book[r]
    BY <2>4, FollowAt
  <2>6. Follow(book, E) = [r \in SportEventIds |-> Follow(book, E)[r]]
    BY <2>4, FollowAt
  <2>7. replica' = Follow(book, E) /\ emitted' = E
    BY <2>2, <2>3 DEF Emits
  <2>8. replica' = book'
    BY <2>2, <2>5, <2>6, <2>7 DEF View!Without
  <2>9. \A n \in emitted' : n.type = "source:cleared"
    BY <2>3, <2>7 DEF Cleared
  <2> QED BY <1>1, <2>3, <2>7, <2>8, <2>9 DEF Says, Announced
<1> QED BY <1>4, <1>5

LEMMA ResyncSaid ==
  ASSUME NEW m \in Frames, FrameOK(m), Ready(m), m.type = "resync", HandleResync(m), replica = book
  PROVE  Says(m)
<1>1. PICK k, S : k = m.source /\ S = m.data
  OBVIOUS
<1>2. /\ k \in Sources /\ book \in Maps /\ S \in SUBSET SportEvents
      /\ View!OnePerId(S) /\ \A e \in S : SourceOf[e.id] = k
  BY <1>1, FrameKinds DEF Ready, Keyed, FrameOK
<1>3. \/ book' = View!With(View!Without(book, k), S) /\ Emits({Resynced(k, S)})
      \/ book' = book /\ Emits({})
  BY <1>1 DEF HandleResync, Replaced
<1>4. CASE book' = book /\ Emits({})
  <2>1. emitted' = {} /\ replica' = book'
    BY <1>2, <1>4, NoNews
  <2> QED BY <2>1 DEF Says, Announced
<1>5. CASE book' = View!With(View!Without(book, k), S) /\ Emits({Resynced(k, S)})
  <2>1. PICK E : E = {Resynced(k, S)}
    OBVIOUS
  <2>2. PutBy(E) = S /\ RemovedBy(E) = {} /\ EmptiedBy(E) = {k}
    <3>1. PICK n : n = [type |-> "resync", source |-> k, data |-> S]
      OBVIOUS
    <3>2. n.type = "resync" /\ n.source = k /\ n.data = S
      BY <3>1
    <3>3. E = {n}
      BY <2>1, <3>1 DEF Resynced
    <3>4. PutBy(E) = S
      BY <3>2, <3>3 DEF PutBy
    <3>5. RemovedBy(E) = {}
      BY <3>2, <3>3 DEF RemovedBy
    <3>6. EmptiedBy(E) = {k}
      BY <3>2, <3>3 DEF EmptiedBy
    <3> QED BY <3>4, <3>5, <3>6
  <2>3. ASSUME NEW r \in SportEventIds
        PROVE  Follow(book, E)[r] = View!With(View!Without(book, k), S)[r]
    <3>1. CASE \E e \in S : e.id = r
      BY <1>2, <2>2, <3>1, FollowAt, WithAt
    <3>2. CASE \A e \in S : e.id # r
      <4>1. Follow(book, E)[r] = IF SourceOf[r] = k THEN None ELSE book[r]
        BY <1>2, <2>2, <3>2, FollowAt
      <4>2. View!With(View!Without(book, k), S)[r] = View!Without(book, k)[r]
        BY <1>2, <3>2, WithAt
      <4> QED BY <4>1, <4>2, WithoutAt
    <3> QED BY <3>1, <3>2
  <2>4. Follow(book, E) = [r \in SportEventIds |-> Follow(book, E)[r]]
    BY <1>2, <2>2, FollowAt
  <2>5. View!With(View!Without(book, k), S) = [r \in SportEventIds |-> View!With(View!Without(book, k), S)[r]]
    BY DEF View!With
  <2>6. replica' = Follow(book, E) /\ emitted' = E
    BY <1>5, <2>1 DEF Emits
  <2>7. replica' = book'
    BY <1>5, <2>3, <2>4, <2>5, <2>6
  <2>8. \A n \in emitted' : n.type = "resync"
    BY <2>1, <2>6 DEF Resynced
  <2> QED BY <2>7, <2>8 DEF Says, Announced
<1> QED BY <1>3, <1>4, <1>5

LEMMA ReceiveSays ==
  ASSUME FInv, FInv', replica = book, Receive
  PROVE  Says(Head(wire))
<1>1. PICK m : m = Head(wire)
  OBVIOUS
<1>2. /\ wire \in Seq(Frames) /\ wire # << >> /\ up
      /\ m \in Frames /\ m = wire[1] /\ Len(wire) \in Nat /\ Len(wire) > 0
  BY <1>1, HeadTailProperties DEF FInv, WireOK, Receive
<1>3. FrameOK(m)
  BY <1>2 DEF FInv, WireOK
<1>4. Ready(m)
  <2>1. Expected = m.before
    BY <1>1, <1>2 DEF Expected
  <2> QED BY <2>1 DEF FInv, Ready, Mirrored, Mirrors, MapsOK
<1>5. Keyed(book)'
  BY DEF FInv, MapsOK
<1>6. \/ m.type \in {"snapshot", "update_event"} /\ HandleEntries(m)
      \/ m.type = "prices_updated" /\ HandlePrices(m)
      \/ m.type = "remove_event"   /\ HandleRemove(m)
      \/ m.type = "store_cleared"  /\ HandleCleared(m)
      \/ m.type = "resync"         /\ HandleResync(m)
  BY <1>1 DEF Receive
<1>7. Says(m)
  BY <1>2, <1>3, <1>4, <1>5, <1>6, EntriesSaid, PricesSaid, RemoveSaid, ClearedSaid, ResyncSaid
<1> QED BY <1>1, <1>7

\* The copy is the book, and what was said of a price is so.
EInv == FInv /\ replica = book /\ \A n \in emitted : n.type = "odds:changed" => Ticked(n)

\* A step that is not a frame says nothing.
LEMMA QuietStep ==
  ASSUME Next, replica = book, ~Receive
  PROVE  emitted' = {} /\ replica' = book'
BY DEF Next, Publish, Reprice, Retire, Withdraw, Rebuild, Sends, clientVars, Greet, Lose, Renew, Ends, Forgotten

LEMMA EInvInit == Init => EInv
BY FInvInit DEF EInv, Init

LEMMA EInvStep == EInv /\ [Next]_vars => EInv' /\ (Announced \/ UNCHANGED vars)
<1>1. ASSUME EInv, Next PROVE EInv' /\ Announced
  <2>1. FInv /\ FInv' /\ replica = book
    BY <1>1, FInvNext DEF EInv
  <2>2. CASE Receive
    <3>1. Says(Head(wire))
      BY <2>1, <2>2, ReceiveSays
    <3> QED BY <2>1, <3>1 DEF Says, EInv
  <2>3. CASE ~Receive
    BY <1>1, <2>1, <2>3, QuietStep DEF EInv, Announced
  <2> QED BY <2>2, <2>3
<1>2. ASSUME EInv, UNCHANGED vars PROVE EInv'
  <2>1. FInv'
    BY <1>2, FInvStep DEF EInv
  <2> QED BY <1>2, <2>1 DEF EInv, vars, Ticked
<1> QED BY <1>1, <1>2

LEMMA EventInvariant == Spec => []EInv
<1>1. EInv /\ [Next]_vars => EInv'
  BY EInvStep
<1> QED BY <1>1, EInvInit, PTL DEF Spec
-----------------------------------------------------------------------------
\* Frames, stores, book and public events have the types Feed gives them.
THEOREM FeedTyped == Spec => []FeedTypeOK
<1>1. EInv => FeedTypeOK
  BY DEF EInv, FInv, WireOK, MapsOK, StoresOK, Keyed, FeedTypeOK
<1> QED BY <1>1, EventInvariant, PTL

LEMMA SlicesAgree ==
  ASSUME NEW v, NEW w, NEW k,
         \A s \in SportEventIds : SourceOf[s] = k => v[s] = w[s]
  PROVE  Slice(v, k) = Slice(w, k)
BY DEF Slice

\* The live book is what the server had up to the last frame handled, for every
\* source that could be read and is listened to (_dispatch, the stores and the
\* handlers of Client).
THEOREM BookAlwaysMirrors == Spec => []MirrorsServer
<1>1. FInv => MirrorsServer
  BY SlicesAgree DEF FInv, Mirrored, MirrorsServer
<1> QED BY <1>1, FeedInvariant, PTL

\* The book never has another version of an event than the store.
THEOREM BookAlwaysWithinStores == Spec => []BookWithinStores
<1>1. FInv => BookWithinStores
  BY DEF FInv
<1> QED BY <1>1, FeedInvariant, PTL

\* Who follows the public events has the live book.
THEOREM EventsAlwaysTellBook == Spec => []EventsTellBook
<1>1. EInv => EventsTellBook
  BY DEF EInv, EventsTellBook, Ticked
<1> QED BY <1>1, EventInvariant, PTL

\* on_upserted and on_prices_updated name the right event: added of what the
\* book did not have, updated of what it had.
THEOREM AddedSaidOnce == Spec => AddedOnce
<1>1. EInv /\ [Next]_vars =>
        [\A n \in emitted' :
           /\ n.type = "sportEvent:added" => book[n.data.id] = None
           /\ n.type = "sportEvent:updated" /\ SourceOf[n.data.id] \notin garbled =>
                book[n.data.id] # None]_vars
  BY EInvStep DEF Announced
<1> QED BY <1>1, EventInvariant, PTL DEF Spec, AddedOnce
-----------------------------------------------------------------------------
(* The tracker. *)

\* Telling a move by distance or by the two bounds is the same.
LEMMA TooFarBreaches ==
  ASSUME NEW a \in Prices, NEW b \in Prices
  PROVE  /\ TooFar(a, b) <=> Breaches(a, b)
         /\ TooFar(a, b) => a # b
<1>1. a \in Nat \ {0} /\ b \in Nat \ {0} /\ DriftPercent \in Nat \ {0}
  BY TrackedPrices
<1>2. PICK d \in Nat : d = DriftPercent * a
  BY <1>1
<1>3. d > 0
  BY <1>1, <1>2
<1>4. (100 + DriftPercent) * a = 100 * a + d /\ (100 - DriftPercent) * a = 100 * a - d
  BY <1>1, <1>2
<1>5. TooFar(a, b) <=> 100 * b >= 100 * a + d \/ 100 * b <= 100 * a - d
  BY <1>4 DEF TooFar
<1>6. TooFar(a, b) => a # b
  BY <1>1, <1>2, <1>3, <1>5
<1>7. TooFar(a, b) <=> 100 * Distance(a, b) >= d
  BY <1>1, <1>2, <1>3, <1>5 DEF Distance
<1> QED BY <1>2, <1>6, <1>7 DEF Breaches

\* A tick is of the price the book now has, whatever tick of the selection is
\* looked at.
LEMMA TickPrice ==
  ASSUME Says(Head(wire)), NEW n \in Ticks
  PROVE  /\ n.selection \in SelectionIds /\ n.quote \in Prices
         /\ PriceIn(book', n.selection) = n.quote
         /\ Context(n.selection) # None
         /\ (CHOOSE t \in Ticks : t.selection = n.selection).quote = n.quote
<1>1. ASSUME NEW t \in Ticks
      PROVE  /\ t.selection \in SelectionIds /\ t.quote \in Prices
             /\ PriceIn(book', t.selection) = t.quote
             /\ Context(t.selection) # None
  <2>1. Ticked(t)'
    BY DEF Says, Ticks
  <2> QED BY <2>1 DEF Ticked, PriceIn, Context
<1>2. PICK t : t = CHOOSE u \in Ticks : u.selection = n.selection
  OBVIOUS
<1>3. t \in Ticks /\ t.selection = n.selection
  BY <1>2
<1> QED BY <1>1, <1>2, <1>3

(* What the tracker makes of a frame, selection by selection. *)
Tracks(x) ==
  \/ baseline'[x] = None
  \/ \E n \in Ticks : n.selection = x /\ baseline'[x] = n.quote
  \/ /\ baseline'[x] = baseline[x]
     /\ \A n \in Ticks : n.selection = x => baseline[x] # None /\ ~Breaches(baseline[x], n.quote)

LEMMA FrameTracked ==
  ASSUME TrackerTypeOK, Says(Head(wire)), TrackedReceive
  PROVE  /\ TrackerTypeOK'
         /\ \A x \in SelectionIds : Tracks(x)
<1>1. CASE OnOddsChanged
  <2>1. ASSUME NEW x \in SelectionIds
        PROVE  baseline'[x] \in Prices \cup {None} /\ Tracks(x)
    <3>1. baseline'[x] = IF \E n \in Ticks : n.selection = x /\ (baseline[x] = None \/ Rebased(n))
                           THEN (CHOOSE n \in Ticks : n.selection = x).quote
                           ELSE baseline[x]
      BY <1>1 DEF OnOddsChanged
    <3>2. CASE \E n \in Ticks : n.selection = x /\ (baseline[x] = None \/ Rebased(n))
      <4>1. PICK n \in Ticks : n.selection = x
        BY <3>2
      <4>2. baseline'[x] = n.quote /\ n.quote \in Prices
        BY <3>1, <3>2, <4>1, TickPrice
      <4> QED BY <4>1, <4>2 DEF Tracks
    <3>3. CASE \A n \in Ticks : n.selection = x => baseline[x] # None /\ ~Rebased(n)
      <4>1. baseline'[x] = baseline[x]
        BY <3>1, <3>3
      <4>2. ASSUME NEW n \in Ticks, n.selection = x
            PROVE  baseline[x] # None /\ ~Breaches(baseline[x], n.quote)
        BY <3>3, <4>2, TickPrice DEF Rebased
      <4> QED BY <4>1, <4>2 DEF TrackerTypeOK, Tracks
    <3> QED BY <3>2, <3>3
  <2>2. baseline' = [x \in SelectionIds |-> baseline'[x]]
    BY <1>1 DEF OnOddsChanged
  <2>3. alerts' \subseteq [selection : SelectionIds, from : Prices, to : Prices]
    <3>1. ASSUME NEW n \in Ticks, Rebased(n)
          PROVE  /\ n.selection \in SelectionIds /\ baseline[n.selection] \in Prices
                 /\ n.quote \in Prices
      BY <3>1, TickPrice DEF Rebased, TrackerTypeOK
    <3> QED BY <1>1, <3>1 DEF OnOddsChanged
  <2> QED BY <2>1, <2>2, <2>3 DEF TrackerTypeOK
<1>2. ASSUME NEW k, OnSourceCleared(k), NEW c \in emitted', c.type = "source:cleared"
      PROVE  TrackerTypeOK' /\ \A x \in SelectionIds : Tracks(x)
  <2>1. Ticks = {}
    BY <1>2 DEF Says, Ticks, Cleared
  <2>2. \A x \in SelectionIds : baseline'[x] \in {None, baseline[x]}
    BY <1>2 DEF OnSourceCleared, Purged
  <2>3. TrackerTypeOK'
    BY <1>2 DEF OnSourceCleared, Purged, TrackerTypeOK
  <2> QED BY <2>1, <2>2, <2>3 DEF Tracks
<1> QED BY <1>1, <1>2 DEF TrackedReceive

(* The step of NoMissedMove. *)
Heard ==
  /\ \A x \in SelectionIds :
       LET price == PriceIn(book', x)
       IN  /\ told[x] # None /\ price # None /\ x \notin unsaid'
           /\ TooFar(told[x], price)
           => [selection |-> x, from |-> told[x], to |-> price] \in alerts'
  /\ \A a \in alerts' :
       /\ a.from = told[a.selection] /\ a.to = PriceIn(book', a.selection)
       /\ TooFar(a.from, a.to)

(* What the tracker keeps true between its steps: its baseline is the price it
   last told its user of, and the price in the book is not too far from it. *)
ToldIsBaseline == told = baseline

PricesClose ==
  \A x \in SelectionIds :
    baseline[x] # None /\ PriceIn(book, x) # None /\ x \notin unsaid =>
      ~TooFar(baseline[x], PriceIn(book, x))

LEMMA StaysClose ==
  ASSUME TrackerTypeOK, PricesClose, Says(Head(wire)), TrackedReceive
  PROVE  PricesClose'
<1> SUFFICES ASSUME NEW x \in SelectionIds,
                    baseline'[x] # None, PriceIn(book', x) # None, x \notin unsaid'
             PROVE  ~TooFar(baseline'[x], PriceIn(book', x))
  BY DEF PricesClose, PriceIn
<1>1. Tracks(x) /\ baseline'[x] \in Prices
  BY FrameTracked DEF TrackerTypeOK
<1>2. \/ \E n \in Ticks : n.selection = x
      \/ x \notin unsaid /\ PriceIn(book', x) = PriceIn(book, x)
  BY DEF TrackedReceive, Remembers
<1>3. CASE \E n \in Ticks : n.selection = x
  <2>1. PICK n \in Ticks : n.selection = x
    BY <1>3
  <2>2. PriceIn(book', x) = n.quote /\ n.quote \in Prices
    BY <2>1, TickPrice
  <2>3. CASE \E t \in Ticks : t.selection = x /\ baseline'[x] = t.quote
    <3>1. baseline'[x] = n.quote
      BY <2>2, <2>3, TickPrice
    <3> QED BY <1>1, <2>2, <3>1, TooFarBreaches
  <2>4. CASE baseline'[x] = baseline[x] /\ ~Breaches(baseline[x], n.quote)
    BY <1>1, <2>2, <2>4, TooFarBreaches
  <2> QED BY <1>1, <2>1, <2>3, <2>4 DEF Tracks
<1>4. CASE (\A n \in Ticks : n.selection # x) /\ x \notin unsaid /\ PriceIn(book', x) = PriceIn(book, x)
  <2>1. baseline'[x] = baseline[x]
    BY <1>1, <1>4 DEF Tracks
  <2> QED BY <1>4, <2>1 DEF PricesClose
<1> QED BY <1>2, <1>3, <1>4

LEMMA ToldStaysBaseline ==
  ASSUME TrackerTypeOK, ToldIsBaseline, Says(Head(wire)), TrackedReceive
  PROVE  ToldIsBaseline'
<1>1. /\ told' = [x \in SelectionIds |-> Telling(x)]
      /\ told = baseline /\ baseline \in [SelectionIds -> Prices \cup {None}]
  BY DEF TrackedReceive, Remembers, ToldIsBaseline, TrackerTypeOK
<1>2. CASE OnOddsChanged /\ \A n \in emitted' : n.type # "source:cleared"
  <2>1. ASSUME NEW x \in SelectionIds PROVE Telling(x) = baseline'[x]
    <3> DEFINE ticks == {n \in Ticks : n.selection = x}
               lines == {a \in alerts' : a.selection = x}
    <3>1. baseline'[x] = IF \E n \in Ticks : n.selection = x /\ (baseline[x] = None \/ Rebased(n))
                           THEN (CHOOSE n \in Ticks : n.selection = x).quote
                           ELSE baseline[x]
      BY <1>2 DEF OnOddsChanged
    <3>2. Telling(x) = IF baseline[x] = None /\ ticks # {} THEN (CHOOSE n \in ticks : TRUE).quote
                       ELSE IF lines # {} THEN (CHOOSE a \in lines : TRUE).to
                       ELSE baseline[x]
      BY <1>1, <1>2 DEF Telling
    <3>3. \A a \in lines : \E n \in ticks : Rebased(n) /\ a.to = n.quote
      BY <1>2 DEF OnOddsChanged
    <3>4. ASSUME NEW n \in ticks, Rebased(n) PROVE lines # {}
      <4>1. PICK a : a = [selection |-> n.selection, from |-> baseline[n.selection],
                          to |-> n.quote]
        OBVIOUS
      <4>2. a \in alerts'
        BY <1>2, <3>4, <4>1 DEF OnOddsChanged
      <4>3. a.selection = x
        BY <4>1
      <4> QED BY <4>2, <4>3
    <3>5. \A n \in ticks : (CHOOSE t \in Ticks : t.selection = x).quote = n.quote
      BY TickPrice
    <3>6. \A n \in ticks : Rebased(n) => baseline[x] # None
      BY DEF Rebased
    <3>7. /\ ticks # {} => (CHOOSE n \in ticks : TRUE) \in ticks
          /\ lines # {} => (CHOOSE a \in lines : TRUE) \in lines
      OBVIOUS
    <3>8. (\E n \in Ticks : n.selection = x /\ (baseline[x] = None \/ Rebased(n)))
            <=> (\E n \in ticks : baseline[x] = None \/ Rebased(n))
      OBVIOUS
    <3> HIDE DEF ticks, lines
    <3>9. CASE baseline[x] = None
      BY <3>1, <3>2, <3>3, <3>5, <3>6, <3>7, <3>8, <3>9
    <3>10. CASE baseline[x] # None
      BY <3>1, <3>2, <3>3, <3>4, <3>5, <3>7, <3>8, <3>10
    <3> QED BY <3>9, <3>10
  <2>2. baseline' = [x \in SelectionIds |-> baseline'[x]]
    BY <1>2 DEF OnOddsChanged
  <2>3. told' = [x \in SelectionIds |-> baseline'[x]]
    BY <1>1, <2>1
  <2> QED BY <2>2, <2>3 DEF ToldIsBaseline
<1>3. ASSUME NEW c \in emitted', c.type = "source:cleared", OnSourceCleared(c.source)
      PROVE  ToldIsBaseline'
  <2>1. PICK k : k = Head(wire).source
    OBVIOUS
  <2>2. emitted' = {Cleared(k)} /\ c = Cleared(k) /\ c.source = k
    BY <1>3, <2>1 DEF Says, Cleared
  <2>3. Ticks = {} /\ alerts' = {}
    BY <1>3, <2>2 DEF Ticks, Cleared, OnSourceCleared
  <2>4. ASSUME NEW x \in SelectionIds PROVE Telling(x) = Purged(k)[x]
    <3>1. (\E n \in emitted' : n.type = "source:cleared" /\ x \in OfSource(n.source))
            <=> SourceOf[EventOf[x]] = k
      BY <2>2 DEF OfSource, Cleared
    <3> QED BY <1>1, <2>3, <3>1 DEF Telling, Purged
  <2>5. told' = Purged(k)
    BY <1>1, <2>4 DEF Purged
  <2> QED BY <1>3, <2>2, <2>5 DEF OnSourceCleared, ToldIsBaseline
<1> QED BY <1>2, <1>3 DEF TrackedReceive

(* A frame that moves a price too far from what was told is a tick, and the
   tracker logs it; it logs nothing else. *)
LEMMA MovesHeard ==
  ASSUME TrackerTypeOK, PricesClose, ToldIsBaseline, Says(Head(wire)), TrackedReceive
  PROVE  Heard
<1>1. told = baseline /\ baseline \in [SelectionIds -> Prices \cup {None}]
  BY DEF ToldIsBaseline, TrackerTypeOK
<1>2. ASSUME NEW x \in SelectionIds, told[x] # None, PriceIn(book', x) # None, x \notin unsaid',
             TooFar(told[x], PriceIn(book', x))
      PROVE  [selection |-> x, from |-> told[x], to |-> PriceIn(book', x)] \in alerts'
  <2>1. \/ \E n \in Ticks : n.selection = x
        \/ x \notin unsaid /\ PriceIn(book', x) = PriceIn(book, x)
    BY <1>2 DEF TrackedReceive, Remembers
  <2>2. PICK n \in Ticks : n.selection = x
    BY <1>1, <1>2, <2>1 DEF PricesClose
  <2>3. /\ n.quote \in Prices /\ PriceIn(book', x) = n.quote
        /\ Context(x) # None /\ baseline[x] \in Prices
    BY <1>1, <1>2, <2>2, TickPrice
  <2>4. Rebased(n)
    BY <1>1, <1>2, <2>2, <2>3, TooFarBreaches DEF Rebased
  <2>5. OnOddsChanged
    BY <2>2 DEF TrackedReceive, Says, Ticks, Cleared
  <2> QED BY <1>1, <2>2, <2>3, <2>4, <2>5 DEF OnOddsChanged
<1>3. ASSUME NEW a \in alerts'
      PROVE  /\ a.from = told[a.selection] /\ a.to = PriceIn(book', a.selection)
             /\ TooFar(a.from, a.to)
  <2>1. OnOddsChanged
    BY <1>3 DEF TrackedReceive, OnSourceCleared
  <2>2. PICK n \in Ticks : /\ Rebased(n)
                           /\ a = [selection |-> n.selection,
                                   from |-> baseline[n.selection], to |-> n.quote]
    BY <1>3, <2>1 DEF OnOddsChanged
  <2>3. /\ n.selection \in SelectionIds /\ n.quote \in Prices
        /\ PriceIn(book', n.selection) = n.quote
    BY TickPrice
  <2>4. baseline[n.selection] \in Prices /\ Breaches(baseline[n.selection], n.quote)
    BY <1>1, <2>2, <2>3 DEF Rebased
  <2> QED BY <1>1, <2>2, <2>3, <2>4, TooFarBreaches
<1> QED BY <1>2, <1>3 DEF Heard

LEMMA BaselinesStayCurrent ==
  ASSUME FInv, TrackerTypeOK, BaselinesCurrent, Says(Head(wire)), TrackedReceive
  PROVE  BaselinesCurrent'
<1> SUFFICES ASSUME NEW x \in SelectionIds, baseline'[x] # None
             PROVE  baseline'[x] \in quoted'[x] \/ x \in emptied'
  BY DEF BaselinesCurrent
<1>1. PICK m : m = Head(wire)
  OBVIOUS
<1>2. quoted'[x] = (IF x \in ClearedNow THEN {} ELSE quoted[x])
                     \cup {n.quote : n \in {t \in Ticks : t.selection = x}}
  BY DEF TrackedReceive, Remembers
<1>3. Tracks(x)
  BY FrameTracked
<1>4. CASE \E n \in Ticks : n.selection = x /\ baseline'[x] = n.quote
  BY <1>2, <1>4
<1>5. CASE baseline'[x] = baseline[x] /\ x \notin ClearedNow
  <2>1. baseline[x] \in quoted[x] \/ x \in emptied
    BY <1>5 DEF BaselinesCurrent
  <2>2. x \in emptied => x \in emptied'
    BY <1>5 DEF TrackedReceive, Remembers
  <2> QED BY <1>2, <1>5, <2>1, <2>2
<1>6. CASE x \in ClearedNow
  <2>1. m.type = "store_cleared" /\ SourceOf[EventOf[x]] = m.source
    BY <1>1, <1>6 DEF ClearedNow, OfSource
  <2>2. CASE Slice(book, m.source) = {}
    BY <1>1, <1>6, <2>2 DEF TrackedReceive, Remembers
  <2>3. CASE Slice(book, m.source) # {}
    <3>1. emitted' = {Cleared(m.source)}
      BY <1>1, <2>1, <2>3 DEF Says
    <3>2. OnSourceCleared(m.source)
      BY <3>1 DEF TrackedReceive, Cleared
    <3>3. baseline'[x] = None
      BY <2>1, <3>2 DEF OnSourceCleared, Purged
    <3> QED BY <3>3
  <2> QED BY <2>2, <2>3
<1> QED BY <1>3, <1>4, <1>5, <1>6 DEF Tracks

\* The tracker only listens: the feed does what it does without it.
THEOREM TrackedFeed == TrackedSpec => Spec
<1>1. TrackerInit => Init
  BY DEF TrackerInit
<1>2. [TrackedNext]_<<vars, trackerVars>> => [Next]_vars
  BY DEF TrackedNext, TrackedReceive, TrackedLose, TrackedQuiet, Next
<1> QED BY <1>1, <1>2, PTL DEF TrackedSpec, Spec

TInv == TrackerTypeOK /\ PricesClose /\ ToldIsBaseline /\ BaselinesCurrent

LEMMA TInvStep ==
  EInv /\ EInv' /\ TInv /\ [TrackedNext]_<<vars, trackerVars>>
    => TInv' /\ [Heard]_<<vars, trackerVars>>
<1> SUFFICES ASSUME EInv, EInv', TInv, [TrackedNext]_<<vars, trackerVars>>
             PROVE  TInv' /\ [Heard]_<<vars, trackerVars>>
  OBVIOUS
<1>1. CASE TrackedReceive
  <2>1. Says(Head(wire))
    BY <1>1, ReceiveSays DEF EInv, TrackedReceive
  <2> QED BY <1>1, <2>1, FrameTracked, StaysClose, ToldStaysBaseline, MovesHeard,
             BaselinesStayCurrent DEF TInv, EInv
<1>2. CASE TrackedLose
  <2>1. baseline' = NoPrices /\ told' = NoPrices /\ alerts' = {}
    BY <1>2 DEF TrackedLose, OnDisconnected
  <2>2. TInv'
    BY <2>1
    DEF TInv, TrackerTypeOK, PricesClose, ToldIsBaseline, BaselinesCurrent, NoPrices
  <2>3. \A x \in SelectionIds : PriceIn(book', x) = None
    <3>1. book' = Nothing /\ \A x \in SelectionIds : EventOf[x] \in SportEventIds
      BY <1>2, FeedTyping DEF TrackedLose, Lose, Ends, Forgotten
    <3> QED BY <3>1 DEF PriceIn, Nothing
  <2> QED BY <2>1, <2>2, <2>3 DEF Heard
<1>3. CASE TrackedQuiet
  <2>1. /\ alerts' = {} /\ baseline' = baseline /\ quoted' = quoted
        /\ unsaid' = unsaid /\ emptied' = emptied /\ told' = told
    BY <1>3 DEF TrackedQuiet, history
  <2>2. book' = book
    BY <1>3 DEF TrackedQuiet, Publish, Reprice, Retire, Withdraw, Rebuild, Sends, Greet, clientVars
  <2>3. TInv'
    BY <2>1, <2>2
    DEF TInv, TrackerTypeOK, PricesClose, ToldIsBaseline, BaselinesCurrent, PriceIn
  <2>4. Heard
    BY <2>1, <2>2 DEF TInv, PricesClose, ToldIsBaseline, Heard
  <2> QED BY <2>3, <2>4
<1>4. CASE UNCHANGED <<vars, trackerVars>>
  BY <1>4
  DEF TInv, TrackerTypeOK, PricesClose, ToldIsBaseline, BaselinesCurrent, PriceIn, vars,
      trackerVars, history
<1> QED BY <1>1, <1>2, <1>3, <1>4 DEF TrackedNext

LEMMA TrackerInvariant == TrackedSpec => [](TInv /\ EInv)
<1>1. TrackerInit => TInv
  BY DEF TrackerInit, NoPrices, TInv, TrackerTypeOK, PricesClose, ToldIsBaseline, BaselinesCurrent
<1>2. TrackedSpec => []EInv
  BY TrackedFeed, EventInvariant, PTL
<1> QED BY <1>1, <1>2, TInvStep, PTL DEF TrackedSpec

\* Baselines are prices, and an alert is from one price to another.
THEOREM TrackerTyped == TrackedSpec => []TrackerTypeOK
<1>1. TInv => TrackerTypeOK
  BY DEF TInv
<1> QED BY <1>1, TrackerInvariant, PTL

\* An announced price too far from the one the user was last told of is logged
\* in that very step, from the one to the other, and nothing else is logged
\* (on_odds_changed).
THEOREM NoMoveMissed == TrackedSpec => NoMissedMove
<1>1. (TInv /\ EInv) /\ (TInv /\ EInv)' /\ [TrackedNext]_<<vars, trackerVars>>
        => [Heard]_<<vars, trackerVars>>
  BY TInvStep
<1>2. TrackedSpec => [][Heard]_<<vars, trackerVars>>
  BY <1>1, TrackerInvariant, PTL DEF TrackedSpec
<1> QED BY <1>2 DEF NoMissedMove, Heard

\* No baseline outlives its session, or a source:cleared of its source
\* (on_disconnected, on_source_cleared).
THEOREM BaselinesAlwaysCurrent == TrackedSpec => []BaselinesCurrent
<1>1. TInv => BaselinesCurrent
  BY DEF TInv
<1> QED BY <1>1, TrackerInvariant, PTL
=============================================================================
