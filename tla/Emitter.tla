------------------------------- MODULE Emitter -------------------------------
(***************************************************************************)
(* TypedEmitter (_emitter.py), the registry of listeners every part of the *)
(* SDK speaks through.  emit() calls its listeners one after the other, and*)
(* a listener may register, deregister or raise while it runs: an action is*)
(* the call of one listener or one change of the registry.                 *)
(*                                                                         *)
(* No listener of the SDK emits on the emitter that is calling it, so there*)
(* is one emission at a time.                                              *)
(***************************************************************************)
EXTENDS Naturals, Sequences, SequencesExt, FiniteSetsExt

CONSTANTS
  Events,          \* event names
  Listeners,
  MaxListeners,    \* bound: registrations at a time
  None

VARIABLES
  registry,        \* _listeners; no entry and an empty list are the same
  emission         \* the emit() under way, or None

emitterVars == <<registry, emission>>

EmitterInit ==
  /\ registry = [e \in Events |-> << >>]
  /\ emission = None
-----------------------------------------------------------------------------
(* emit() up to its first listener.  `list` is the tuple emit() makes of the
   listeners.  `began` keeps what was registered at the start for the property
   below; no code reads it.  Payloads are left out. *)
Emit(e) ==
  /\ emission = None
  /\ emission' = IF registry[e] = << >> THEN None
                 ELSE [event |-> e, list |-> registry[e],
                       called |-> << >>, began |-> registry[e]]

IteratedMutant(m) == registry[m.event]      \* the live list
Iterated(m)       == m.list

\* The next listener; the one before it has returned, or raised and been ignored.
CallNext ==
  /\ emission # None
  /\ Len(emission.called) < Len(Iterated(emission))
  /\ emission' = [emission EXCEPT !.called =
                    Append(@, Iterated(emission)[Len(emission.called) + 1])]
  /\ UNCHANGED registry

EmitReturns ==
  /\ emission # None
  /\ Len(emission.called) >= Len(Iterated(emission))
  /\ emission' = None
  /\ UNCHANGED registry
-----------------------------------------------------------------------------
\* Somebody runs who may change the registry: the application, or a listener.
InUserCode == emission # None => emission.called # << >>

Registrations == MapThenSumSet(LAMBDA e : Len(registry[e]), Events)

On(e, l) ==
  /\ InUserCode
  /\ Registrations < MaxListeners
  /\ registry' = [registry EXCEPT ![e] = Append(@, l)]
  /\ UNCHANGED emission

\* list.remove: the first of several registrations.
Off(e, l) ==
  /\ InUserCode
  /\ \E i \in DOMAIN registry[e] :
       /\ registry[e][i] = l
       /\ \A j \in 1 .. i - 1 : registry[e][j] # l
       /\ registry' = [registry EXCEPT ![e] = RemoveAt(@, i)]
  /\ UNCHANGED emission

RemoveAll(E) ==
  /\ InUserCode
  /\ registry' = [e \in Events |-> IF e \in E THEN << >> ELSE registry[e]]
  /\ UNCHANGED emission

RegistryStep ==
  \/ \E e \in Events, l \in Listeners : On(e, l) \/ Off(e, l)
  \/ \E e \in Events : RemoveAll({e})
  \/ RemoveAll(Events)
-----------------------------------------------------------------------------
(* An emission calls exactly the listeners that were registered when it began,
   in their order and as often as they were registered, whatever they register
   or deregister meanwhile: none is skipped because one before it left, and
   one that adds itself again is not called for ever. *)
CalledAsRegistered == [][EmitReturns => emission.called = emission.began]_emitterVars
=============================================================================
