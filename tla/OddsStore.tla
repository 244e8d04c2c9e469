------------------------------ MODULE OddsStore ------------------------------
(***************************************************************************)
(* OddsStore (_store/odds_store.py): the versions of the events of one     *)
(* source, an index of them by kind, and an emitter of its own.  Only the  *)
(* gateway changes it, and never from a listener, so that a change waits   *)
(* for the end of the emission before.                                     *)
(*                                                                         *)
(* A version of an event is its kind and a mark that stands for the rest.  *)
(***************************************************************************)
EXTENDS Emitter

CONSTANTS SportEventIds, Kinds, Marks

VARIABLES
  sportEvents,     \* _sport_events
  byKind,          \* _by_kind; no entry and an empty dict are the same
  moved            \* history: events that came under two kinds since the store
                   \* was emptied

storeVars == <<sportEvents, byKind, moved>>

Versions == [id : SportEventIds, kind : Kinds, mark : Marks]

NoEvents == [s \in SportEventIds |-> None]

StoreEvents == {"sportEvent:upserted", "prices:updated", "sportEvent:removed", "store:cleared"}

ASSUME EventNames == Events = StoreEvents

ASSUME NoneIsNoVersion == None \notin Versions

StoreInit ==
  /\ EmitterInit
  /\ sportEvents = NoEvents
  /\ byKind = [k \in Kinds |-> NoEvents]
  /\ moved = {}

IndexedMutant(index, e) == [index EXCEPT ![e.kind] = [s \in SportEventIds |-> e]]
Indexed(index, e)       == [index EXCEPT ![e.kind][e.id] = e]

MovesKind(e) == sportEvents[e.id] # None /\ sportEvents[e.id].kind # e.kind

UpsertSportEvent(e) ==
  /\ sportEvents' = [sportEvents EXCEPT ![e.id] = e]
  /\ byKind' = Indexed(byKind, e)
  /\ moved' = IF MovesKind(e) THEN moved \cup {e.id} ELSE moved
  /\ Emit("sportEvent:upserted")
  /\ UNCHANGED registry

\* The copy SportEvent._with_updated_prices makes keeps id and kind.
UpdatePrices(s, mark) ==
  /\ sportEvents[s] # None
  /\ LET updated == [sportEvents[s] EXCEPT !.mark = mark]
     IN  /\ sportEvents' = [sportEvents EXCEPT ![s] = updated]
         /\ byKind' = Indexed(byKind, updated)
         /\ Emit("prices:updated")
  /\ UNCHANGED <<moved, registry>>

RemoveSportEvent(s) ==
  /\ sportEvents[s] # None
  /\ sportEvents' = [sportEvents EXCEPT ![s] = None]
  /\ byKind' = [byKind EXCEPT ![sportEvents[s].kind][s] = None]
  /\ Emit("sportEvent:removed")
  /\ UNCHANGED <<moved, registry>>

EmptiedMutant == UNCHANGED byKind
Emptied       == byKind' = [k \in Kinds |-> NoEvents]

ClearStore ==
  /\ sportEvents' = NoEvents
  /\ Emptied
  /\ moved' = {}
  /\ Emit("store:cleared")
  /\ UNCHANGED registry

Snapshots == {f \in [SportEventIds -> Versions \cup {None}] :
                \A s \in SportEventIds : f[s] # None => f[s].id = s}

(* What the list of a resync leaves, put in one after the other: of each id the
   last version in the list, and by kind the last of that kind.  A list may
   have an id several times, under several kinds. *)
Resyncs ==
  {r \in [held : Snapshots, index : [Kinds -> Snapshots]] :
     \A s \in SportEventIds :
       /\ \A k \in Kinds :
            r.index[k][s] # None => r.index[k][s].kind = k /\ r.held[s] # None
       /\ r.held[s] # None => r.index[r.held[s].kind][s] = r.held[s]}

\* Nothing is emitted.
ReplaceWithSnapshot(r) ==
  /\ emission = None
  /\ sportEvents' = r.held
  /\ byKind' = r.index
  /\ moved' = {s \in SportEventIds : \E k \in Kinds : r.index[k][s] \notin {None, r.held[s]}}
  /\ UNCHANGED emitterVars

StoreNext ==
  \/ \E e \in Versions : UpsertSportEvent(e)
  \/ \E s \in SportEventIds, mark \in Marks : UpdatePrices(s, mark)
  \/ \E s \in SportEventIds : RemoveSportEvent(s)
  \/ ClearStore
  \/ \E r \in Resyncs : ReplaceWithSnapshot(r)
  \/ (CallNext \/ EmitReturns \/ RegistryStep) /\ UNCHANGED storeVars

StoreSpec == StoreInit /\ [][StoreNext]_<<emitterVars, storeVars>>
-----------------------------------------------------------------------------
StoreTypeOK ==
  /\ registry \in [Events -> Seq(Listeners)]
  /\ sportEvents \in Snapshots
  /\ \A k \in Kinds : byKind[k] \in Snapshots
  /\ emission = None \/ emission.event \in Events

\* get_sport_events_by_kind.
OfKind(k) == {byKind[k][s] : s \in SportEventIds} \ {None}

(* The index by kind has every event of the store under its own kind, in its
   current version, and nothing else, whatever is sent again, repriced, removed or
   resynced: but for events that were sent once under another kind, of which the
   old version stays there until the store is emptied. *)
KindIndexExact ==
  \A k \in Kinds :
    LET held == {e \in {sportEvents[s] : s \in SportEventIds} \ {None} : e.kind = k}
    IN  held \subseteq OfKind(k) /\ \A e \in OfKind(k) \ held : e.id \in moved
=============================================================================
