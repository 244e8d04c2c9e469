------------------------------ MODULE LineMoves ------------------------------
(***************************************************************************)
(* LineMoveTracker (examples/line_move_alerts.py) as a listener of the     *)
(* public events of Feed: a baseline price per selection, and an alert     *)
(* when an announced price is too far from it.                             *)
(*                                                                         *)
(* The listener runs inside the step that emits, after the live book has   *)
(* been changed, so a step of the feed and what the tracker makes of its   *)
(* events are one action.  The program connects once and disconnects when  *)
(* it ends: it never gets a new gateway, and Renew is left out.            *)
(***************************************************************************)
EXTENDS Feed, Integers

CONSTANT DriftPercent     \* DRIFT_THRESHOLD, in percent

ASSUME TrackedPrices == Prices \subseteq Nat \ {0} /\ DriftPercent \in Nat \ {0}

VARIABLES
  baseline,    \* LineMoveTracker._baseline
  alerts,      \* the log lines of the last step
  quoted,      \* history: prices announced in this session, by selection
  unsaid,      \* history: selections whose price moved without odds:changed
  emptied,     \* history: selections whose source was cleared when the book had
               \* nothing of it left
  told         \* history: by selection, the price the program last told its user
               \* of, or the first one it heard since it forgot the source

history     == <<quoted, unsaid, emptied, told>>
trackerVars == <<baseline, alerts, history>>

NoPrices == [x \in SelectionIds |-> None]

TrackerInit ==
  /\ Init
  /\ baseline = NoPrices
  /\ alerts = {}
  /\ quoted = [x \in SelectionIds |-> {}]
  /\ unsaid = {} /\ emptied = {} /\ told = NoPrices
-----------------------------------------------------------------------------
Distance(a, b) == IF a < b THEN b - a ELSE a - b

Breaches(from, to) == 100 * Distance(from, to) >= DriftPercent * from

\* client.odds.find_context, on the book the listener sees.
Context(x) == IF book'[EventOf[x]] = None THEN None
              ELSE IF x \notin DOMAIN book'[EventOf[x]].quotes THEN None
              ELSE book'[EventOf[x]]

Ticks == {n \in emitted' : n.type = "odds:changed"}

Rebased(n) ==
  /\ baseline[n.selection] # None
  /\ Breaches(baseline[n.selection], n.quote)
  /\ Context(n.selection) # None

OnOddsChangedMutant ==                       \* rebases without a log line
  /\ baseline' = [x \in SelectionIds |->
       IF \E n \in Ticks : n.selection = x
         THEN (CHOOSE n \in Ticks : n.selection = x).quote
         ELSE baseline[x]]
  /\ alerts' = {[selection |-> n.selection, from |-> baseline[n.selection], to |-> n.quote]
                  : n \in {t \in Ticks : Rebased(t)}}

(* on_odds_changed, for all the ticks of a step: they are of different
   selections. *)
OnOddsChanged ==
  /\ baseline' = [x \in SelectionIds |->
       IF \E n \in Ticks : n.selection = x /\ (baseline[x] = None \/ Rebased(n))
         THEN (CHOOSE n \in Ticks : n.selection = x).quote
         ELSE baseline[x]]
  /\ alerts' = {[selection |-> n.selection, from |-> baseline[n.selection], to |-> n.quote]
                  : n \in {t \in Ticks : Rebased(t)}}

PurgedMutant(k) == baseline

\* What on_source_cleared leaves.
Purged(k) == [x \in SelectionIds |-> IF SourceOf[EventOf[x]] = k THEN None ELSE baseline[x]]

OnSourceCleared(k) == baseline' = Purged(k) /\ alerts' = {}

OnDisconnectedMutant == baseline' = [x \in SelectionIds |-> 0] /\ alerts' = {}
OnDisconnected       == baseline' = NoPrices /\ alerts' = {}
-----------------------------------------------------------------------------
PriceIn(v, x) == IF v[EventOf[x]] = None THEN None
                 ELSE IF x \notin DOMAIN v[EventOf[x]].quotes THEN None
                 ELSE v[EventOf[x]].quotes[x]

OfSource(k) == {x \in SelectionIds : SourceOf[EventOf[x]] = k}

\* The selections of the source the next frame clears.
ClearedNow == IF Head(wire).type = "store_cleared" THEN OfSource(Head(wire).source) ELSE {}

\* What the user was told of x: read off the events and the log lines, not off
\* the baseline.
Telling(x) ==
  LET ticks == {n \in Ticks : n.selection = x}
      lines == {a \in alerts' : a.selection = x}
  IN  IF \E n \in emitted' : n.type = "source:cleared" /\ x \in OfSource(n.source) THEN None
      ELSE IF told[x] = None /\ ticks # {} THEN (CHOOSE n \in ticks : TRUE).quote
      ELSE IF lines # {} THEN (CHOOSE a \in lines : TRUE).to
      ELSE told[x]

Remembers ==
  /\ quoted' = [x \in SelectionIds |->
       (IF x \in ClearedNow THEN {} ELSE quoted[x])
         \cup {n.quote : n \in {t \in Ticks : t.selection = x}}]
  /\ unsaid' = {x \in SelectionIds :
       /\ \A n \in Ticks : n.selection # x
       /\ x \in unsaid \/ PriceIn(book', x) # PriceIn(book, x)}
  /\ emptied' = IF ClearedNow = {} THEN emptied
                ELSE IF Slice(book, Head(wire).source) = {} THEN emptied \cup ClearedNow
                ELSE emptied \ ClearedNow
  /\ told' = [x \in SelectionIds |-> Telling(x)]

(* A frame, and what the tracker hears of it. *)
TrackedReceive ==
  /\ Receive
  /\ \/ (\A n \in emitted' : n.type # "source:cleared") /\ OnOddsChanged
     \/ \E n \in emitted' : n.type = "source:cleared" /\ OnSourceCleared(n.source)
  /\ Remembers

(* A lost session, of which the tracker is told. *)
TrackedLose ==
  /\ Lose
  /\ OnDisconnected
  /\ quoted' = [x \in SelectionIds |-> {}] /\ unsaid' = {} /\ emptied' = {}
  /\ told' = NoPrices

TrackedQuiet ==
  /\ \/ \E e \in SportEvents : Publish(e)
     \/ \E s \in SportEventIds : \E p \in QuotesOf(s) : Reprice(s, p)
     \/ \E s \in SportEventIds : Retire(s)
     \/ \E k \in Sources : Withdraw(k)
     \/ \E k \in Sources : \E S \in Batches(k) : Rebuild(k, S)
     \/ Greet
  /\ alerts' = {}
  /\ UNCHANGED <<baseline, history>>

TrackedNext == TrackedReceive \/ TrackedLose \/ TrackedQuiet

TrackedSpec == TrackerInit /\ [][TrackedNext]_<<vars, trackerVars>>
-----------------------------------------------------------------------------
TrackerTypeOK ==
  /\ baseline \in [SelectionIds -> Prices \cup {None}]
  /\ alerts \subseteq [selection : SelectionIds, from : Prices, to : Prices]

TooFar(from, to) == \/ 100 * to >= (100 + DriftPercent) * from
                    \/ 100 * to <= (100 - DriftPercent) * from

(* No announced move goes without its alert: a step that leaves a price in the
   live book too far from the one the user was last told of logs that move, and
   nothing else is ever logged.  So it is over drops, snapshots, cleared and
   rebuilt sources; small moves add up until they are told, for the tracker does
   not forget where it started.  Only a price whose last change was not
   announced as odds:changed (a new version of the event, a resync, a removal)
   is beyond it. *)
NoMissedMove ==
  [][/\ \A x \in SelectionIds :
          LET price == PriceIn(book', x)
          IN  /\ told[x] # None /\ price # None /\ x \notin unsaid'
              /\ TooFar(told[x], price)
              => [selection |-> x, from |-> told[x], to |-> price] \in alerts'
     /\ \A a \in alerts' :
          /\ a.from = told[a.selection] /\ a.to = PriceIn(book', a.selection)
          /\ TooFar(a.from, a.to)]_<<vars, trackerVars>>

(* A baseline is a price announced in this very session, since its source was
   last cleared: nothing is compared with a price of an earlier life of the
   source ("ghosts"), unless the source went away when the book had nothing of
   it, which source:cleared does not tell. *)
BaselinesCurrent ==
  \A x \in SelectionIds :
    baseline[x] # None => baseline[x] \in quoted[x] \/ x \in emptied
=============================================================================
