----------------------------- MODULE StoreProofs -----------------------------
(***************************************************************************)
(* For all listeners, events and kinds: an emission calls exactly the      *)
(* listeners that were registered when it began, and the index by kind of  *)
(* a store is exact but for events that moved to another kind.             *)
(***************************************************************************)
EXTENDS OddsStore, TLAPS

allVars == <<emitterVars, storeVars>>
-----------------------------------------------------------------------------
(* The emission has called a prefix of its list, which is what was registered. *)
Emission == [event : Events, list : Seq(Listeners), called : Seq(Listeners),
             began : Seq(Listeners)]

Prefixed(m) ==
  /\ m \in Emission
  /\ m.began = m.list
  /\ Len(m.called) <= Len(m.list)
  /\ \A i \in 1 .. Len(m.called) : m.called[i] = m.list[i]

EInv ==
  /\ registry \in [Events -> Seq(Listeners)]
  /\ emission # None => Prefixed(emission)

(* Emitting keeps the invariant, whatever is emitted. *)
LEMMA EmitKeeps ==
  ASSUME EInv, NEW e \in Events, Emit(e), UNCHANGED registry
  PROVE  EInv'
<1>1. registry[e] \in Seq(Listeners)
  BY DEF EInv
<1>2. ASSUME emission' # None PROVE Prefixed(emission')
  <2>1. emission' = [event |-> e, list |-> registry[e], called |-> << >>, began |-> registry[e]]
    BY <1>2 DEF Emit
  <2> QED BY <2>1, <1>1 DEF Prefixed, Emission
<1> QED BY <1>2 DEF EInv

(* The next call extends the prefix. *)
LEMMA CallKeeps ==
  ASSUME EInv, CallNext
  PROVE  EInv'
<1> DEFINE n == Len(emission.called) + 1
<1>1. Prefixed(emission)
  BY DEF EInv, CallNext
<1>2. n \in 1 .. Len(emission.list) /\ emission.list[n] \in Listeners
  BY <1>1 DEF CallNext, Prefixed, Iterated, Emission
<1>3. emission' = [emission EXCEPT !.called = Append(@, emission.list[n])]
  BY DEF CallNext, Iterated
<1> DEFINE called == Append(emission.called, emission.list[n])
<1>4. called \in Seq(Listeners) /\ Len(called) = n
  BY <1>1, <1>2 DEF Prefixed, Emission
<1>5. \A i \in 1 .. n : called[i] = emission.list[i]
  <2> TAKE i \in 1 .. n
  <2>1. CASE i = n
    BY <2>1, <1>1, <1>2 DEF Prefixed, Emission
  <2>2. CASE i # n
    BY <2>2, <1>1, <1>2 DEF Prefixed, Emission
  <2> QED BY <2>1, <2>2
<1>6. Prefixed(emission')
  <2>1. emission' \in Emission
    BY <1>1, <1>3, <1>4 DEF Prefixed, Emission
  <2>2. emission'.called = called /\ emission'.list = emission.list
          /\ emission'.began = emission.began
    BY <1>1, <1>3 DEF Prefixed, Emission
  <2> HIDE DEF called
  <2>3. Len(emission'.called) <= Len(emission'.list)
    BY <2>2, <1>1, <1>2, <1>4 DEF Prefixed, Emission
  <2> QED BY <2>1, <2>2, <2>3, <1>1, <1>4, <1>5 DEF Prefixed
<1> QED BY <1>6 DEF EInv, CallNext

(* Changes of the registry leave the emission alone. *)
LEMMA RegistryKeeps ==
  ASSUME EInv, RegistryStep
  PROVE  EInv'
<1>1. UNCHANGED emission
  BY DEF RegistryStep, On, Off, RemoveAll
<1>2. registry' \in [Events -> Seq(Listeners)]
  <2>1. ASSUME NEW e \in Events, NEW l \in Listeners, On(e, l)
        PROVE  registry' \in [Events -> Seq(Listeners)]
    BY <2>1 DEF EInv, On
  <2>2. ASSUME NEW e \in Events, NEW l \in Listeners, Off(e, l)
        PROVE  registry' \in [Events -> Seq(Listeners)]
    <3>1. PICK i \in DOMAIN registry[e] : registry' = [registry EXCEPT ![e] = RemoveAt(@, i)]
      BY <2>2 DEF Off
    <3>2. registry[e] \in Seq(Listeners) /\ i \in 1 .. Len(registry[e])
      BY DEF EInv
    <3>3. RemoveAt(registry[e], i) \in Seq(Listeners)
      BY <3>2 DEF RemoveAt
    <3> QED BY <3>1, <3>3 DEF EInv
  <2>3. ASSUME NEW E, RemoveAll(E)
        PROVE  registry' \in [Events -> Seq(Listeners)]
    BY <2>3 DEF EInv, RemoveAll
  <2> QED BY <2>1, <2>2, <2>3 DEF RegistryStep
<1> QED BY <1>1, <1>2 DEF EInv

LEMMA EventsNamed ==
  /\ "sportEvent:upserted" \in Events /\ "prices:updated" \in Events
  /\ "sportEvent:removed" \in Events /\ "store:cleared" \in Events
BY EventNames DEF StoreEvents

LEMMA EInvKept ==
  ASSUME EInv, [StoreNext]_allVars
  PROVE  EInv'
<1>1. ASSUME NEW e \in Versions, UpsertSportEvent(e) PROVE EInv'
  BY <1>1, EventsNamed, EmitKeeps DEF UpsertSportEvent
<1>2. ASSUME NEW s \in SportEventIds, NEW mark \in Marks, UpdatePrices(s, mark) PROVE EInv'
  BY <1>2, EventsNamed, EmitKeeps DEF UpdatePrices
<1>3. ASSUME NEW s \in SportEventIds, RemoveSportEvent(s) PROVE EInv'
  BY <1>3, EventsNamed, EmitKeeps DEF RemoveSportEvent
<1>4. ASSUME ClearStore PROVE EInv'
  BY <1>4, EventsNamed, EmitKeeps DEF ClearStore
<1>5. ASSUME NEW r \in Resyncs, ReplaceWithSnapshot(r) PROVE EInv'
  BY <1>5 DEF ReplaceWithSnapshot, emitterVars, EInv
<1>6. ASSUME CallNext PROVE EInv'
  BY <1>6, CallKeeps
<1>7. ASSUME EmitReturns PROVE EInv'
  BY <1>7 DEF EmitReturns, EInv
<1>8. ASSUME RegistryStep PROVE EInv'
  BY <1>8, RegistryKeeps
<1>9. ASSUME UNCHANGED allVars PROVE EInv'
  BY <1>9 DEF allVars, emitterVars, EInv
<1> QED BY <1>1, <1>2, <1>3, <1>4, <1>5, <1>6, <1>7, <1>8, <1>9 DEF StoreNext

(* The invariant of the emitter: an emission has called a prefix of the
   listeners that were registered when it began. *)
THEOREM EmitterInvariant == StoreSpec => []EInv
<1>1. StoreInit => EInv
  BY DEF StoreInit, EmitterInit, EInv
<1>2. EInv /\ [StoreNext]_allVars => EInv'
  BY EInvKept
<1> QED BY <1>1, <1>2, PTL DEF StoreSpec, allVars

(* emit() calls exactly the listeners registered when it began, in their order,
   for any number of them and whatever they do to the registry. *)
THEOREM EveryListenerCalled == StoreSpec => CalledAsRegistered
<1>1. ASSUME EInv, [StoreNext]_allVars PROVE [EmitReturns => emission.called = emission.began]_emitterVars
  <2> SUFFICES ASSUME EmitReturns PROVE emission.called = emission.began
    OBVIOUS
  <2>1. Prefixed(emission) /\ Len(emission.called) >= Len(emission.list)
    BY <1>1 DEF EInv, EmitReturns, Iterated
  <2>2. emission.called \in Seq(Listeners) /\ emission.list \in Seq(Listeners)
    BY <2>1 DEF Prefixed, Emission
  <2>3. Len(emission.called) = Len(emission.list)
    BY <2>1, <2>2 DEF Prefixed
  <2>4. emission.called = emission.list
    BY <2>1, <2>2, <2>3 DEF Prefixed
  <2> QED BY <2>1, <2>4 DEF Prefixed
<1> QED BY <1>1, EmitterInvariant, PTL DEF StoreSpec, CalledAsRegistered, allVars
-----------------------------------------------------------------------------
(* What the store holds is under its kind; what else lies in the index is an
   old version of an event that moved. *)
Indexes(held, index, gone) ==
  /\ held \in Snapshots
  /\ index \in [Kinds -> Snapshots]
  /\ \A k \in Kinds, s \in SportEventIds :
       /\ index[k][s] # None => index[k][s].kind = k
       /\ held[s] # None /\ held[s].kind = k => index[k][s] = held[s]
       /\ index[k][s] # None => index[k][s] = held[s] \/ s \in gone

IInv == Indexes(sportEvents, byKind, moved)

(* What a snapshot has at an id. *)
LEMMA HeldHasId ==
  ASSUME NEW held \in Snapshots, NEW s \in SportEventIds, held[s] # None
  PROVE  held[s] \in Versions /\ held[s].id = s
BY DEF Snapshots

(* Putting a version into the store keeps what a snapshot is. *)
LEMMA PutSnapshot ==
  ASSUME NEW held \in Snapshots, NEW e \in Versions
  PROVE  [held EXCEPT ![e.id] = e] \in Snapshots
BY DEF Snapshots, Versions

LEMMA DropSnapshot ==
  ASSUME NEW held \in Snapshots, NEW s \in SportEventIds
  PROVE  [held EXCEPT ![s] = None] \in Snapshots
BY DEF Snapshots

(* A version stored under its kind, with the event noted when that is new. *)
LEMMA PutKeeps ==
  ASSUME NEW held, NEW index, NEW gone, NEW gone2, NEW e \in Versions,
         Indexes(held, index, gone), gone \subseteq gone2,
         held[e.id] # None /\ held[e.id].kind # e.kind => e.id \in gone2
  PROVE  Indexes([held EXCEPT ![e.id] = e], Indexed(index, e), gone2)
<1> DEFINE held2 == [held EXCEPT ![e.id] = e]
           index2 == Indexed(index, e)
<1>1. e.id \in SportEventIds /\ e.kind \in Kinds
  BY DEF Versions
<1>2. held \in Snapshots /\ index \in [Kinds -> Snapshots]
  BY DEF Indexes
<1>3. held2 \in Snapshots
  BY <1>2, PutSnapshot
<1>4. index2 \in [Kinds -> Snapshots]
  <2>1. [index[e.kind] EXCEPT ![e.id] = e] \in Snapshots
    BY <1>1, <1>2, PutSnapshot
  <2> QED BY <2>1, <1>1, <1>2 DEF Indexed
<1>5. ASSUME NEW k \in Kinds, NEW s \in SportEventIds
      PROVE  /\ held2[s] = IF s = e.id THEN e ELSE held[s]
             /\ index2[k][s] = IF k = e.kind /\ s = e.id THEN e ELSE index[k][s]
  BY <1>1, <1>2 DEF Indexed, Snapshots
<1>6. ASSUME NEW k \in Kinds, NEW s \in SportEventIds
      PROVE  /\ index2[k][s] # None => index2[k][s].kind = k
             /\ held2[s] # None /\ held2[s].kind = k => index2[k][s] = held2[s]
             /\ index2[k][s] # None => index2[k][s] = held2[s] \/ s \in gone2
  <2> HIDE DEF held2, index2
  <2>1. /\ index[k][s] # None => index[k][s].kind = k
        /\ held[s] # None /\ held[s].kind = k => index[k][s] = held[s]
        /\ index[k][s] # None => index[k][s] = held[s] \/ s \in gone
    BY DEF Indexes
  <2>2. CASE s = e.id
    BY <2>1, <2>2, <1>5
  <2>3. CASE s # e.id
    BY <2>1, <2>3, <1>5
  <2> QED BY <2>2, <2>3
<1> HIDE DEF held2, index2
<1> QED BY <1>3, <1>4, <1>6 DEF Indexes, held2, index2

LEMMA IInvKept ==
  ASSUME IInv, [StoreNext]_allVars
  PROVE  IInv'
<1> USE DEF IInv
<1>1. ASSUME NEW e \in Versions, UpsertSportEvent(e) PROVE IInv'
  <2>1. e.id \in SportEventIds
    BY DEF Versions
  <2>2. moved \subseteq moved' /\ (MovesKind(e) => e.id \in moved')
    BY <1>1 DEF UpsertSportEvent
  <2> QED BY <2>1, <2>2, <1>1, PutKeeps DEF UpsertSportEvent, MovesKind
<1>2. ASSUME NEW s \in SportEventIds, NEW mark \in Marks, UpdatePrices(s, mark) PROVE IInv'
  <2> DEFINE e == [sportEvents[s] EXCEPT !.mark = mark]
  <2>1. sportEvents[s] \in Versions /\ sportEvents[s].id = s
    BY <1>2, HeldHasId DEF UpdatePrices, Indexes
  <2>2. e \in Versions /\ e.id = s /\ e.kind = sportEvents[s].kind
    BY <2>1 DEF Versions
  <2>3. sportEvents' = [sportEvents EXCEPT ![e.id] = e] /\ byKind' = Indexed(byKind, e) /\ moved' = moved
    BY <1>2, <2>2 DEF UpdatePrices
  <2> HIDE DEF e
  <2> QED BY <2>2, <2>3, PutKeeps
<1>3. ASSUME NEW s \in SportEventIds, RemoveSportEvent(s) PROVE IInv'
  <2> DEFINE k == sportEvents[s].kind
  <2>1. sportEvents \in Snapshots /\ byKind \in [Kinds -> Snapshots]
    BY DEF Indexes
  <2>2. k \in Kinds
    BY <1>3, <2>1, HeldHasId DEF RemoveSportEvent, Versions
  <2>3. /\ sportEvents' = [sportEvents EXCEPT ![s] = None]
        /\ byKind' = [byKind EXCEPT ![k] = [byKind[k] EXCEPT ![s] = None]]
        /\ moved' = moved
    BY <1>3 DEF RemoveSportEvent
  <2>4. [byKind[k] EXCEPT ![s] = None] \in Snapshots
    BY <2>1, <2>2, DropSnapshot
  <2>5. sportEvents' \in Snapshots /\ byKind' \in [Kinds -> Snapshots]
    BY <2>1, <2>2, <2>3, <2>4, DropSnapshot
  <2>6. ASSUME NEW j \in Kinds, NEW t \in SportEventIds
        PROVE  /\ sportEvents'[t] = IF t = s THEN None ELSE sportEvents[t]
               /\ byKind'[j][t] = IF j = k /\ t = s THEN None ELSE byKind[j][t]
    BY <2>1, <2>2, <2>3 DEF Snapshots
  <2> HIDE DEF k
  <2>7. ASSUME NEW j \in Kinds, NEW t \in SportEventIds
        PROVE  /\ byKind'[j][t] # None => byKind'[j][t].kind = j
               /\ sportEvents'[t] # None /\ sportEvents'[t].kind = j => byKind'[j][t] = sportEvents'[t]
               /\ byKind'[j][t] # None => byKind'[j][t] = sportEvents'[t] \/ t \in moved'
    <3>1. /\ byKind[j][t] # None => byKind[j][t].kind = j
          /\ sportEvents[t] # None /\ sportEvents[t].kind = j => byKind[j][t] = sportEvents[t]
          /\ byKind[j][t] # None => byKind[j][t] = sportEvents[t] \/ t \in moved
      BY DEF Indexes
    <3>2. t = s /\ byKind[j][t] # None /\ byKind[j][t] = sportEvents[t] => j = k
      BY <3>1 DEF k
    <3> QED BY <3>1, <3>2, <2>3, <2>6
  <2> QED BY <2>5, <2>7 DEF Indexes
<1>4. ASSUME ClearStore PROVE IInv'
  <2>1. NoEvents \in Snapshots
    BY DEF NoEvents, Snapshots
  <2> QED BY <1>4, <2>1 DEF ClearStore, Emptied, NoEvents, Indexes
<1>5. ASSUME NEW r \in Resyncs, ReplaceWithSnapshot(r) PROVE IInv'
  <2>1. /\ sportEvents' = r.held /\ byKind' = r.index
        /\ r.held \in Snapshots /\ r.index \in [Kinds -> Snapshots]
    BY <1>5 DEF ReplaceWithSnapshot, Resyncs
  <2>2. ASSUME NEW k \in Kinds, NEW s \in SportEventIds
        PROVE  /\ r.index[k][s] # None => r.index[k][s].kind = k
               /\ r.held[s] # None /\ r.held[s].kind = k => r.index[k][s] = r.held[s]
    BY DEF Resyncs
  <2>3. \A k \in Kinds, s \in SportEventIds :
          r.index[k][s] # None => r.index[k][s] = r.held[s] \/ s \in moved'
    BY <1>5 DEF ReplaceWithSnapshot
  <2> QED BY <2>1, <2>2, <2>3 DEF Indexes
<1>6. ASSUME UNCHANGED storeVars PROVE IInv'
  BY <1>6 DEF storeVars
<1>7. CASE StoreNext
  BY <1>7, <1>1, <1>2, <1>3, <1>4, <1>5, <1>6 DEF StoreNext
<1> QED BY <1>6, <1>7 DEF allVars

(* The invariant of the index by kind, over any number of events and kinds. *)
THEOREM IndexInvariant == StoreSpec => []IInv
<1>1. StoreInit => IInv
  <2>1. NoEvents \in Snapshots
    BY DEF NoEvents, Snapshots
  <2> QED BY <2>1 DEF StoreInit, IInv, Indexes, NoEvents
<1>2. IInv /\ [StoreNext]_allVars => IInv'
  BY IInvKept
<1> QED BY <1>1, <1>2, PTL DEF StoreSpec, allVars

(* Registry, events and index keep their types. *)
THEOREM StoreTyped == StoreSpec => []StoreTypeOK
<1>1. EInv /\ IInv => StoreTypeOK
  BY DEF EInv, Prefixed, Emission, IInv, Indexes, StoreTypeOK
<1> QED BY <1>1, EmitterInvariant, IndexInvariant, PTL

(* get_sport_events_by_kind answers with every event of the kind, and else only
   with old versions of events that came under another kind. *)
THEOREM KindIndexAlwaysExact == StoreSpec => []KindIndexExact
<1>1. ASSUME IInv PROVE KindIndexExact
  <2> SUFFICES ASSUME NEW k \in Kinds,
                      NEW held, held = {e \in {sportEvents[s] : s \in SportEventIds} \ {None} : e.kind = k}
               PROVE  held \subseteq OfKind(k) /\ \A e \in OfKind(k) \ held : e.id \in moved
    BY DEF KindIndexExact
  <2>1. held \subseteq OfKind(k)
    BY <1>1 DEF IInv, Indexes, OfKind
  <2>2. ASSUME NEW e \in OfKind(k) \ held PROVE e.id \in moved
    <3>1. PICK s \in SportEventIds : e = byKind[k][s]
      BY <2>2 DEF OfKind
    <3>2. e # None /\ byKind[k] \in Snapshots
      BY <1>1, <2>2 DEF OfKind, IInv, Indexes
    <3>3. e.id = s
      BY <3>1, <3>2, HeldHasId
    <3> QED BY <1>1, <2>2, <3>1, <3>2, <3>3 DEF IInv, Indexes
  <2> QED BY <2>1, <2>2
<1> QED BY <1>1, IndexInvariant, PTL
=============================================================================
