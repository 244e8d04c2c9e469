-------------------------------- MODULE Feed ---------------------------------
(***************************************************************************)
(* The way of the odds: server, socket, GatewayClient._dispatch, one       *)
(* OddsStore per source, the handlers Client hangs on the stores, the live *)
(* book, and the public events an application listens to.                  *)
(*                                                                         *)
(* Handling a frame is one action: everything from _handle_raw to the last *)
(* listener runs without an await.  The session layer (Gateway, Client) is *)
(* reduced to what matters here: a session comes and goes, a reconnect     *)
(* keeps the gateway and its stores, and a new connect() makes new ones.   *)
(*                                                                         *)
(* The live book is what OddsBook implements: BookView.  All ids are well  *)
(* formed and the source of an event is the bookmaker in its id; OddsBook  *)
(* has the malformed ones.  Of an event only the quotes are kept, by       *)
(* selection.                                                              *)
(***************************************************************************)
EXTENDS Naturals, Sequences

CONSTANTS
  Sources, SportEventIds, SelectionIds, Prices,
  SourceOf,     \* sport event id -> source, its bookmaker
  EventOf,      \* selection id -> sport event id
  MarketOf,     \* selection id -> market id
  Unreadable,   \* versions of events sport_event_from_json raises on
  Addresses,    \* where the interpreter may place an OddsStore: the id() of it
  MaxWire,      \* bound: frames in flight
  None

ASSUME FeedTyping ==
  /\ SourceOf \in [SportEventIds -> Sources]
  /\ EventOf \in [SelectionIds -> SportEventIds]
  /\ DOMAIN MarketOf = SelectionIds

VARIABLES
  truth,      \* the server's events
  wire,       \* frames sent and not handled
  up,         \* a session is under way
  stores,     \* the gateway's OddsStores
  wired,      \* Client._wired_stores
  book,       \* the live book
  emitted,    \* the public events of the last step
  replica,    \* what an application makes of the public events
  garbled     \* sources a frame of which was not understood

vars == <<truth, wire, up, stores, wired, book, emitted, replica, garbled>>
-----------------------------------------------------------------------------
QuotesOf(s) == UNION {[X -> Prices] : X \in SUBSET {x \in SelectionIds : EventOf[x] = s}}

SportEvents == UNION {{[id |-> s, quotes |-> q] : q \in QuotesOf(s)} : s \in SportEventIds}

View == INSTANCE BookView WITH view <- book, Bookmakers <- Sources, BookmakerOf <- SourceOf

Maps    == [SportEventIds -> SportEvents \cup {None}]
Nothing == [s \in SportEventIds |-> None]

\* An OddsStore, and whether the handlers of Client are attached to it.
Stores == [address : Addresses, heard : BOOLEAN, held : Maps]

\* None is neither a SportEvent nor an OddsStore.
ASSUME NoneIsNothing == None \notin SportEvents /\ None \notin Stores

Slice(v, k) == {v[s] : s \in {t \in SportEventIds : SourceOf[t] = k}} \ {None}

All(v) == {v[s] : s \in SportEventIds} \ {None}

\* The batches of events a source may have: one version per event.
Batches(k) == {S \in SUBSET {e \in SportEvents : SourceOf[e.id] = k} : View!OnePerId(S)}

Repriced(e, p) ==
  [e EXCEPT !.quotes = [x \in DOMAIN e.quotes |-> IF x \in DOMAIN p THEN p[x] ELSE e.quotes[x]]]

\* Prices only for selections the event has, and all of one market.  No prices
\* at all fit too: _with_updated_prices answers the event itself.
Fits(e, p) ==
  /\ e # None
  /\ DOMAIN p \subseteq DOMAIN e.quotes
  /\ \A x, y \in DOMAIN p : MarketOf[x] = MarketOf[y]

Init ==
  /\ truth = Nothing /\ wire = << >> /\ up = FALSE
  /\ stores = [k \in Sources |-> None] /\ wired = {}
  /\ book = Nothing /\ emitted = {} /\ replica = Nothing /\ garbled = {}
-----------------------------------------------------------------------------
(* The server.  A frame notes in `before` what its receiver should hold by
   then; no code reads it. *)
clientVars == <<stores, wired, book, replica, garbled>>

Sends(frame) ==
  /\ up => Len(wire) < MaxWire
  /\ wire' = IF up THEN Append(wire, frame) ELSE wire
  /\ emitted' = {}
  /\ UNCHANGED <<up, clientVars>>

\* new_event and update_event, which the client treats alike.
Publish(e) ==
  /\ truth[e.id] # e
  /\ truth' = [truth EXCEPT ![e.id] = e]
  /\ Sends([type |-> "update_event", scope |-> {SourceOf[e.id]}, data |-> {e}, before |-> truth])

\* The prices of one market, as SportEvent._with_updated_prices demands, or none.
Reprice(s, p) ==
  /\ Fits(truth[s], p)
  /\ truth' = [truth EXCEPT ![s] = Repriced(@, p)]
  /\ Sends([type |-> "prices_updated", id |-> s, data |-> p, before |-> truth])

Retire(s) ==
  /\ truth[s] # None
  /\ truth' = [truth EXCEPT ![s] = None]
  /\ Sends([type |-> "remove_event", id |-> s, before |-> truth])

Withdraw(k) ==
  /\ truth' = View!Without(truth, k)
  /\ Sends([type |-> "store_cleared", source |-> k, before |-> truth])

Rebuild(k, S) ==
  /\ truth' = View!With(View!Without(truth, k), S)
  /\ Sends([type |-> "resync", source |-> k, data |-> S, before |-> truth])
-----------------------------------------------------------------------------
(* get_or_create_store for the sources K.  Where the interpreter puts a new
   store is its own choice, only not where one is alive; Client wires a store
   unless it knows its address. *)
Live == {stores[k].address : k \in {j \in Sources : stores[j] # None}}

New(K) == {k \in K : stores[k] = None}

Placements(K) == {f \in [New(K) -> Addresses \ Live] :
                    \A j, k \in New(K) : f[j] = f[k] => j = k}

Opened(f) ==
  [k \in Sources |-> IF k \in DOMAIN f
                       THEN [address |-> f[k], heard |-> f[k] \notin wired, held |-> Nothing]
                       ELSE stores[k]]

WireMutant(f) == wired' = wired \cup DOMAIN f          \* by source, not by store
Wire(f)       == wired' = wired \cup {f[k] : k \in DOMAIN f}

(* The mutations of OddsStore, on the opened stores o. *)
HoldAll(o, P) ==                                      \* upsert_sport_event of each
  [k \in Sources |->
     IF o[k] = None THEN None
     ELSE [o[k] EXCEPT !.held = View!With(@, {e \in P : SourceOf[e.id] = k})]]

HoldOnly(o, k, S) == [o EXCEPT ![k].held = View!With(Nothing, S)]    \* replace_with_snapshot
HoldNot(o, k, s)  == [o EXCEPT ![k].held[s] = None]                  \* remove_sport_event
Hold(o, k, e)     == [o EXCEPT ![k].held[e.id] = e]                  \* update_prices
HoldNone(o, k)    == [o EXCEPT ![k].held = Nothing]                  \* clear

(* The public events. *)
Added(e)      == [type |-> "sportEvent:added", data |-> e]
Updated(e)    == [type |-> "sportEvent:updated", data |-> e]
Removed(s)    == [type |-> "sportEvent:removed", id |-> s]
Changed(x, q) == [type |-> "odds:changed", selection |-> x, quote |-> q]
Cleared(k)    == [type |-> "source:cleared", source |-> k]
Resynced(k,S) == [type |-> "resync", source |-> k, data |-> S]

(* An application that keeps its own copy from the events alone. *)
Follow(v, E) ==
  LET put     == {n.data : n \in {m \in E : m.type \in {"sportEvent:added", "sportEvent:updated"}}}
      removed == {n.id : n \in {m \in E : m.type = "sportEvent:removed"}}
      emptied == {n.source : n \in {m \in E : m.type \in {"source:cleared", "resync"}}}
      resent  == UNION {n.data : n \in {m \in E : m.type = "resync"}}
      kept    == [s \in SportEventIds |->
                    IF s \in removed \/ SourceOf[s] \in emptied THEN None ELSE v[s]]
  IN  View!With(kept, put \cup resent)

Emits(E) == emitted' = E /\ replica' = Follow(replica, E)
-----------------------------------------------------------------------------
\* on_upserted asks the live book, not the store, whether an event is new.
NoveltyMutant(o, e) == IF o[SourceOf[e.id]].held[e.id] = None THEN Added(e) ELSE Updated(e)
Novelty(o, e)       == IF book[e.id] = None THEN Added(e) ELSE Updated(e)

(* upsert_sport_event of each event of P, and on_upserted. *)
UpsertAll(o, P) ==
  LET heard == {e \in P : o[SourceOf[e.id]].heard}
  IN  /\ stores' = HoldAll(o, P)
      /\ book' = View!With(book, heard)
      /\ Emits({Novelty(o, e) : e \in heard})

(* snapshot, new_event and update_event.  The first entry that cannot be read
   ends the frame: the entries before it are in, its own source has a store. *)
HandleEntries(m) ==
  LET sourcesOf(S) == {SourceOf[e.id] : e \in S}
      bad          == m.data \cap Unreadable
  IN  \/ /\ bad = {}
         /\ \E f \in Placements(sourcesOf(m.data)) : UpsertAll(Opened(f), m.data) /\ Wire(f)
         /\ UNCHANGED garbled
      \/ \E P \in SUBSET (m.data \ bad), e \in bad :
           /\ \E f \in Placements(sourcesOf(P \cup {e})) : UpsertAll(Opened(f), P) /\ Wire(f)
           /\ garbled' = garbled \cup m.scope

\* What on_prices_updated puts into the book: the store's new version.
ToBookMutant(old, new) == old
ToBook(old, new)       == new

(* update_prices and on_prices_updated.  An event the store does not have, or
   a selection the event does not have, drops the frame without a word. *)
HandlePrices(m) ==
  LET k == SourceOf[m.id]
  IN  /\ \E f \in Placements({k}) :
           LET o   == Opened(f)
               old == o[k].held[m.id]
               new == Repriced(old, m.data)
               fits == Fits(old, m.data)
               put  == ToBook(old, new)
           IN  /\ Wire(f)
               /\ stores' = IF fits THEN Hold(o, k, new) ELSE o
               /\ IF fits /\ o[k].heard
                    THEN /\ book' = View!With(book, {put})
                         /\ Emits({Updated(put)} \cup {Changed(x, new.quotes[x]) : x \in DOMAIN m.data})
                    ELSE UNCHANGED book /\ Emits({})
      /\ UNCHANGED garbled

(* remove_sport_event and on_removed, which speaks even when the book never
   had the event. *)
HandleRemove(m) ==
  LET k == SourceOf[m.id]
  IN  /\ \E f \in Placements({k}) :
           LET o   == Opened(f)
               had == o[k].held[m.id] # None
           IN  /\ Wire(f)
               /\ stores' = HoldNot(o, k, m.id)
               /\ IF had /\ o[k].heard
                    THEN book' = [book EXCEPT ![m.id] = None] /\ Emits({Removed(m.id)})
                    ELSE UNCHANGED book /\ Emits({})
      /\ UNCHANGED garbled

ClearedEventsMutant(k) == {}
\* source:cleared is public only when the book had something to clear.
ClearedEvents(k)       == IF Slice(book, k) = {} THEN {} ELSE {Cleared(k)}

(* store_cleared and _on_gw_source_cleared.  No store, no effect. *)
HandleCleared(m) ==
  LET k == m.source
  IN  /\ IF stores[k] = None
           THEN UNCHANGED <<stores, book>> /\ Emits({})
           ELSE /\ stores' = HoldNone(stores, k)
                /\ book' = View!Without(book, k)
                /\ Emits(ClearedEvents(k))
      /\ garbled' = garbled \ {k}
      /\ UNCHANGED wired

\* replace_bookmaker: the old slice goes before the new one comes.
ReplacedMutant(k, S) == View!With(book, S)
Replaced(k, S)       == View!With(View!Without(book, k), S)

(* resync, replace_with_snapshot and _on_gw_source_resynced.  All events are
   read before any of them is put. *)
HandleResync(m) ==
  LET k == m.source
  IN  \E f \in Placements({k}) :
        /\ Wire(f)
        /\ IF m.data \cap Unreadable = {}
             THEN /\ stores' = HoldOnly(Opened(f), k, m.data)
                  /\ book' = Replaced(k, m.data)
                  /\ Emits({Resynced(k, m.data)})
                  /\ garbled' = garbled \ {k}
             ELSE /\ stores' = Opened(f)
                  /\ UNCHANGED book
                  /\ Emits({})
                  /\ garbled' = garbled \cup {k}

Receive ==
  /\ wire # << >>
  /\ wire' = Tail(wire)
  /\ LET m == Head(wire)
     IN  \/ m.type \in {"snapshot", "update_event"} /\ HandleEntries(m)
         \/ m.type = "prices_updated" /\ HandlePrices(m)
         \/ m.type = "remove_event"   /\ HandleRemove(m)
         \/ m.type = "store_cleared"  /\ HandleCleared(m)
         \/ m.type = "resync"         /\ HandleResync(m)
  /\ UNCHANGED <<truth, up>>
-----------------------------------------------------------------------------
(* A hello, and the snapshot the server sends after it. *)
Greet ==
  /\ ~up
  /\ up' = TRUE
  /\ wire' = <<[type |-> "snapshot", scope |-> Sources, data |-> All(truth), before |-> Nothing]>>
  /\ emitted' = {}
  /\ UNCHANGED <<truth, clientVars>>

\* The book of a client whose session has ended.
Forgotten == Nothing

Ends ==
  /\ up' = FALSE
  /\ wire' = << >>
  /\ book' = Forgotten
  /\ replica' = Nothing
  /\ emitted' = {}
  /\ garbled' = {}
  /\ UNCHANGED <<truth, wired>>

(* The session is lost.  The gateway will reconnect with the stores it has. *)
Lose == up /\ Ends /\ UNCHANGED stores

(* disconnect() and, later, connect(): a new gateway without stores. *)
Renew == Ends /\ stores' = [k \in Sources |-> None]

Next ==
  \/ \E e \in SportEvents : Publish(e)
  \/ \E s \in SportEventIds : \E p \in QuotesOf(s) : Reprice(s, p)
  \/ \E s \in SportEventIds : Retire(s)
  \/ \E k \in Sources : Withdraw(k)
  \/ \E k \in Sources : \E S \in Batches(k) : Rebuild(k, S)
  \/ Receive \/ Greet \/ Lose \/ Renew

Spec == Init /\ [][Next]_vars
-----------------------------------------------------------------------------
EntryFrames  == [type : {"snapshot", "update_event"}, scope : SUBSET Sources,
                 data : SUBSET SportEvents, before : Maps]
PriceFrames  == [type : {"prices_updated"}, id : SportEventIds,
                 data : UNION {QuotesOf(s) : s \in SportEventIds}, before : Maps]
RemoveFrames == [type : {"remove_event"}, id : SportEventIds, before : Maps]
ClearFrames  == [type : {"store_cleared"}, source : Sources, before : Maps]
ResyncFrames == [type : {"resync"}, source : Sources, data : SUBSET SportEvents, before : Maps]

Frames == EntryFrames \cup PriceFrames \cup RemoveFrames \cup ClearFrames \cup ResyncFrames

FeedTypeOK ==
  /\ truth \in Maps /\ book \in Maps /\ replica \in Maps
  /\ wire \in Seq(Frames)
  /\ up \in BOOLEAN
  /\ stores \in [Sources -> Stores \cup {None}]
  /\ wired \in SUBSET Addresses
  /\ garbled \in SUBSET Sources

\* The source has a store the client does not listen to.
Deaf(k) == stores[k] # None /\ ~stores[k].heard

(* What the server had sent when it sent the last frame the client handled. *)
Expected == IF ~up THEN Nothing ELSE IF wire = << >> THEN truth ELSE Head(wire).before

(* At every moment of a session the live book is exactly what the server had
   up to the last frame handled, for every source whose frames could be read
   (the last resync or store_cleared makes good for earlier ones that could
   not) and whose store is listened to: nothing lost, nothing stale, nothing
   left over from the sessions before, although the stores keep it. *)
MirrorsServer ==
  \A k \in Sources : k \notin garbled /\ ~Deaf(k) => Slice(book, k) = Slice(Expected, k)

(* The book never holds another version of an event than the store, even when
   frames were lost: on_prices_updated may take the store's version for the
   book's. *)
BookWithinStores ==
  \A s \in SportEventIds :
    book[s] # None /\ ~Deaf(SourceOf[s]) =>
      stores[SourceOf[s]] # None /\ stores[SourceOf[s]].held[s] = book[s]

(* An application that follows the public events and empties its copy when the
   connection goes has exactly the live book, and an odds:changed quote is the
   one the book answers: no change of the book goes unannounced. *)
EventsTellBook ==
  /\ replica = book
  /\ \A n \in emitted : n.type = "odds:changed" =>
       /\ book[EventOf[n.selection]] # None
       /\ book[EventOf[n.selection]].quotes[n.selection] = n.quote

(* sportEvent:added is only said of an event that was not in the book, and
   sportEvent:updated only of one that was; but for a source with a frame that
   was not understood, whose store may still have an event the book has not. *)
AddedOnce ==
  [][\A n \in emitted' :
       /\ n.type = "sportEvent:added" => book[n.data.id] = None
       /\ n.type = "sportEvent:updated" /\ SourceOf[n.data.id] \notin garbled =>
            book[n.data.id] # None]_vars

(* What the documentation says and the code does not do. *)

(* README: the live book is mutated in place as wire messages arrive, so the
   client listens to every store the gateway fills. *)
StoresAreHeard == \A k \in Sources : ~Deaf(k)
=============================================================================
