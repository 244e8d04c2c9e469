---------------------------- MODULE ClientProofs -----------------------------
(***************************************************************************)
(* Proofs about Client, for every set of gateways and callers and every    *)
(* reconnect policy.                                                       *)
(*                                                                         *)
(* Every step of a client is a step of one of its gateways or leaves them  *)
(* alone, so all that GatewayProofs shows of gateways holds of a client's. *)
(* The inductive invariant CInv adds what the client makes of them.        *)
(***************************************************************************)
EXTENDS Client, GatewayProofs

(* The coroutine that connects is the one whose future is pending. *)
ConnectorOwnsPending ==
  \A c \in Callers : pc[c] = "connecting" => client.pending = on[c]

\* A gateway whose disconnect() was given up will not connect again.
Stopped(g) == ~running[g] /\ openTask[g] # "none"

AbandonedStopped == \A g \in abandoned : Stopped(g)

CInv ==
  /\ ClientTypeOK
  /\ AbandonedStopped
  /\ BookFedBySession
  /\ ConnectedMeansGreeted
  /\ NoForgottenWaiter
  /\ ConnectorOwnsPending
-----------------------------------------------------------------------------
(* The gateways of a client. *)

LEMMA CallersStepGateways ==
  ASSUME NEW c \in Callers, CallerStep(c)
  PROVE  Next \/ UNCHANGED gwVars
<1>1. ASSUME NEW g \in Gateways, ConnectStarts(c, g) PROVE Next
  BY <1>1 DEF ConnectStarts, Next, Step
<1>2. ASSUME NEW g \in Gateways, DisconnectStarts(c, g) PROVE Next
  BY <1>2 DEF DisconnectStarts, Next, Step
<1>3. ASSUME NEW g \in Gateways, DisconnectReturns(c, g) PROVE Next
  BY <1>3 DEF DisconnectReturns, Next, Step
<1>4. ASSUME NEW g \in Gateways, DisconnectAbandoned(c, g) PROVE Next
  BY <1>4 DEF DisconnectAbandoned, Next, Step
<1>5. ASSUME \/ ConnectJoins(c) \/ ConnectReturns(c) \/ JoinReturns(c)
             \/ ConnectCancelled(c) \/ DisconnectWithoutGateway(c)
      PROVE  UNCHANGED gwVars
  BY <1>5 DEF ConnectJoins, ConnectReturns, JoinReturns, ConnectCancelled, DisconnectWithoutGateway
<1> QED BY <1>1, <1>2, <1>3, <1>4, <1>5 DEF CallerStep

LEMMA GatewayStepSteps ==
  ASSUME NEW g \in Gateways, GatewayStep(g)
  PROVE  Step(g)
BY DEF GatewayStep, Step

LEMMA ClientStepsGateways == [ClientNext]_vars => [Next]_gwVars
<1>1. ASSUME NEW g \in Gateways, GatewayStep(g) PROVE Next
  BY <1>1, GatewayStepSteps DEF Next
<1>2. UNCHANGED vars => UNCHANGED gwVars
  BY DEF vars
<1> QED BY <1>1, <1>2, CallersStepGateways DEF ClientNext

(* Whatever a client and its callers do, its gateways are gateways: every
   theorem about Gateway holds of them. *)
THEOREM ClientRunsGateways == ClientSpec => Spec
<1>1. ClientInit => Init
  BY DEF ClientInit
<1> QED BY <1>1, ClientStepsGateways, PTL DEF ClientSpec, Spec

(* The inductive invariant of gateways holds of those a client makes. *)
THEOREM ClientGatewaysSound == ClientSpec => []GInv
BY ClientRunsGateways, GatewayInvariant, PTL
-----------------------------------------------------------------------------
(* What the handlers do to the attributes, whichever events they are called
   for: the future of the pending connect() is settled or left alone, and no
   other is touched. *)
OnlySettles(k, l) ==
  /\ l \in Clients
  /\ l.pending = k.pending
  /\ \A h \in Gateways : l.future[h] = "waiting" => k.future[h] = "waiting"

LEMMA SettlesTwice ==
  ASSUME NEW k, NEW l, NEW m, OnlySettles(k, l), OnlySettles(l, m)
  PROVE  OnlySettles(k, m)
BY DEF OnlySettles

LEMMA StatusSettles ==
  ASSUME NEW k \in Clients, NEW s \in Statuses, NEW b \in SUBSET Gateways
  PROVE  /\ OnlySettles(k, WithStatus(k, s))
         /\ OnlySettles(k, [k EXCEPT !.book = b])
         /\ OnlySettles(k, WithStatus([k EXCEPT !.book = b], s))
         /\ WithStatus([k EXCEPT !.book = b], s).book = b
         /\ WithStatus([k EXCEPT !.book = b], s).status = s
BY DEF OnlySettles, WithStatus, Clients

LEMMA SettleSettles ==
  ASSUME NEW k \in Clients, NEW outcome \in {"result", "error"}
  PROVE  /\ OnlySettles(k, Settle(k, outcome))
         /\ Settle(k, outcome).book = k.book
         /\ Settle(k, outcome).status = k.status
         /\ Settle(k, outcome).gw = k.gw
<1>1. CASE InFlight(k)
  <2>1. Settle(k, outcome) = [k EXCEPT !.future = [@ EXCEPT ![k.pending] = outcome]]
    BY <1>1 DEF Settle, Clients
  <2>2. [k.future EXCEPT ![k.pending] = outcome] \in [Gateways -> Futures]
    BY DEF Clients, Futures
  <2> QED BY <2>1, <2>2 DEF Clients, OnlySettles
<1>2. CASE ~InFlight(k)
  BY <1>2 DEF Settle, OnlySettles
<1> QED BY <1>1, <1>2

LEMMA HandledConnected ==
  ASSUME NEW k \in Clients
  PROVE  /\ OnlySettles(k, OnGwConnected(k))
         /\ OnGwConnected(k).book = k.book
<1>1. OnlySettles(k, WithStatus(k, "connected")) /\ WithStatus(k, "connected").book = k.book
  BY StatusSettles DEF Statuses, WithStatus, Clients
<1> QED BY <1>1, SettleSettles, SettlesTwice DEF OnGwConnected, OnlySettles

LEMMA HandledFatal ==
  ASSUME NEW k \in Clients
  PROVE  /\ OnlySettles(k, OnGwFatal(k))
         /\ OnGwFatal(k).book = k.book
         /\ OnGwFatal(k).status = "disconnected"
<1>1. /\ OnlySettles(k, WithStatus(k, "disconnected"))
      /\ WithStatus(k, "disconnected").book = k.book
      /\ WithStatus(k, "disconnected").status = "disconnected"
  BY StatusSettles DEF Statuses, WithStatus, Clients
<1> QED BY <1>1, SettleSettles, SettlesTwice DEF OnGwFatal, OnlySettles

\* A loss always empties the book, and a final one ends the connection.
LEMMA HandledDisconnected ==
  ASSUME NEW k \in Clients, NEW again \in BOOLEAN, NEW auth \in BOOLEAN
  PROVE  /\ OnlySettles(k, OnGwDisconnected(k, again, auth))
         /\ OnGwDisconnected(k, again, auth).book = {}
         /\ OnGwDisconnected(k, again, auth).status \in {k.status, "disconnected"}
         /\ ~again => OnGwDisconnected(k, again, auth).status = "disconnected"
<1> DEFINE emptied == [k EXCEPT !.book = {}]
           final == WithStatus(emptied, "disconnected")
<1>1. /\ OnlySettles(k, emptied) /\ emptied.book = {} /\ emptied.status = k.status
      /\ OnlySettles(k, final) /\ final.book = {} /\ final.status = "disconnected"
  <2>1. /\ OnlySettles(k, emptied) /\ OnlySettles(k, final) /\ final.book = {}
        /\ final.status = "disconnected"
    BY DEF OnlySettles, WithStatus, Clients, Statuses
  <2> QED BY <2>1 DEF Clients
<1>2. OnGwDisconnected(k, again, auth) =
        IF auth THEN Settle(final, "error") ELSE IF ~again THEN final ELSE emptied
  BY DEF OnGwDisconnected
<1>3. /\ OnlySettles(k, Settle(final, "error")) /\ Settle(final, "error").book = {}
      /\ Settle(final, "error").status = "disconnected"
  <2> HIDE DEF final
  <2> QED BY <1>1, SettleSettles, SettlesTwice DEF OnlySettles
<1> HIDE DEF emptied, final
<1> QED BY <1>1, <1>2, <1>3

LEMMA HandlesEach ==
  ASSUME NEW k, NEW g
  PROVE  /\ Handle(k, g, Connected) = OnGwConnected(k)
         /\ Handle(k, g, Warning) = k
         /\ Handle(k, g, Scheduled) = OnGwReconnectScheduled(k)
         /\ Handle(k, g, Exhausted) = OnGwFatal(k)
         /\ Handle(k, g, Incompatible) = OnGwFatal(k)
         /\ Handle(k, g, DataEvents) = OnGwData(k, g)
         /\ \A again, kind :
              Handle(k, g, Disconnected(again, kind)) = OnGwDisconnected(k, again, kind = "auth")
BY DEF Handle, Connected, Warning, Scheduled, Exhausted, Incompatible, DataEvents, Disconnected

LEMMA HandlesNone ==
  ASSUME NEW k, NEW g, NEW events, events = << >>
  PROVE  HandleAll(k, g, events) = k
BY DEF HandleAll

LEMMA HandlesOne ==
  ASSUME NEW k, NEW g, NEW events, NEW d, events = <<d>>
  PROVE  HandleAll(k, g, events) = Handle(k, g, d)
<1>1. events # << >> /\ Len(events) = 1 /\ events[1] = d
  OBVIOUS
<1> QED BY <1>1 DEF HandleAll

LEMMA HandlesTwo ==
  ASSUME NEW k, NEW g, NEW events, NEW d, NEW e, events = <<d, e>>
  PROVE  HandleAll(k, g, events) = Handle(Handle(k, g, d), g, e)
<1>1. events # << >> /\ Len(events) = 2 /\ events[1] = d /\ events[2] = e
  OBVIOUS
<1> QED BY <1>1 DEF HandleAll

\* A loss, then what _schedule_reconnect says.
LEMMA HandlesLoss ==
  ASSUME NEW k, NEW g, NEW events, NEW again, NEW kind,
         NEW m, m = OnGwDisconnected(k, again, kind = "auth")
  PROVE  /\ events = <<Disconnected(again, kind)>> => HandleAll(k, g, events) = m
         /\ events = <<Disconnected(again, kind), Scheduled>>
              => HandleAll(k, g, events) = WithStatus(m, "reconnecting")
         /\ events = <<Disconnected(again, kind), Exhausted>>
              => HandleAll(k, g, events) = OnGwFatal(m)
<1>1. Handle(k, g, Disconnected(again, kind)) = m
  BY HandlesEach
<1>2. /\ Handle(m, g, Scheduled) = WithStatus(m, "reconnecting")
      /\ Handle(m, g, Exhausted) = OnGwFatal(m)
  BY HandlesEach DEF OnGwReconnectScheduled
<1>3. events = <<Disconnected(again, kind)>> => HandleAll(k, g, events) = m
  BY <1>1, HandlesOne
<1>4. events = <<Disconnected(again, kind), Scheduled>>
        => HandleAll(k, g, events) = Handle(Handle(k, g, Disconnected(again, kind)), g, Scheduled)
  BY HandlesTwo
<1>5. events = <<Disconnected(again, kind), Exhausted>>
        => HandleAll(k, g, events) = Handle(Handle(k, g, Disconnected(again, kind)), g, Exhausted)
  BY HandlesTwo
<1> QED BY <1>1, <1>2, <1>3, <1>4, <1>5

(* Whatever a gateway emits, the client settles what is pending and no more. *)
LEMMA EmissionsSettle ==
  ASSUME NEW k \in Clients, NEW g \in Gateways, NEW events \in Emissions
  PROVE  OnlySettles(k, HandleAll(k, g, events))
<1>0. OnlySettles(k, k)
  BY DEF OnlySettles
<1>1. CASE events = << >>
  BY <1>0, <1>1, HandlesNone
<1>2. CASE events = <<Connected>>
  <2>1. HandleAll(k, g, events) = Handle(k, g, Connected)
    BY <1>2, HandlesOne
  <2> QED BY <2>1, HandlesEach, HandledConnected
<1>3. CASE events = <<Warning, Connected>>
  <2>1. HandleAll(k, g, events) = Handle(Handle(k, g, Warning), g, Connected)
    BY <1>3, HandlesTwo
  <2> QED BY <2>1, HandlesEach, HandledConnected
<1>4. CASE events = <<Incompatible>>
  <2>1. HandleAll(k, g, events) = Handle(k, g, Incompatible)
    BY <1>4, HandlesOne
  <2> QED BY <2>1, HandlesEach, HandledFatal
<1>5. CASE events = <<DataEvents>>
  <2>1. HandleAll(k, g, events) = Handle(k, g, DataEvents)
    BY <1>5, HandlesOne
  <2>2. OnlySettles(k, OnGwData(k, g))
    BY DEF OnGwData, OnlySettles, Clients
  <2> QED BY <2>1, <2>2, HandlesEach
<1>6. ASSUME NEW l \in Losses, events \in {<<l>>, <<l, Scheduled>>, <<l, Exhausted>>}
      PROVE  OnlySettles(k, HandleAll(k, g, events))
  <2>1. PICK again \in BOOLEAN, kind \in {"auth", "error"} : l = Disconnected(again, kind)
    BY DEF Losses
  <2> DEFINE m == OnGwDisconnected(k, again, kind = "auth")
  <2>2. OnlySettles(k, m) /\ m \in Clients
    BY HandledDisconnected DEF OnlySettles
  <2>3. HandleAll(k, g, events) \in {m, WithStatus(m, "reconnecting"), OnGwFatal(m)}
    BY <1>6, <2>1, HandlesLoss
  <2> HIDE DEF m
  <2>4. OnlySettles(m, WithStatus(m, "reconnecting"))
    BY <2>2, StatusSettles DEF Statuses
  <2>5. OnlySettles(m, OnGwFatal(m))
    BY <2>2, HandledFatal
  <2> QED BY <2>2, <2>3, <2>4, <2>5, SettlesTwice
<1>7. \/ events \in {<< >>, <<Connected>>, <<Warning, Connected>>, <<Incompatible>>, <<DataEvents>>}
      \/ \E l \in Losses : events \in {<<l>>, <<l, Scheduled>>, <<l, Exhausted>>}
  BY DEF Emissions
<1> QED BY <1>1, <1>2, <1>3, <1>4, <1>5, <1>6, <1>7
-----------------------------------------------------------------------------
(* A stopped gateway stays stopped, whatever step it takes. *)
LEMMA StoppedStays ==
  ASSUME TypeOK, NEW g \in Gateways, Step(g), NEW h \in Gateways, Stopped(h)
  PROVE  Stopped(h)'
<1>1. CASE h # g
  BY <1>1, OthersUntouched DEF Stopped, UntouchedIn
<1>2. CASE h = g
  <2> USE <1>2 DEF TypeOK, Stopped, flagVars, taskVars
  <2>1. ~Connect(g)
    BY DEF Connect
  <2>2. ASSUME NEW c \in Callers,
               DisconnectBegins(g, c) \/ DisconnectEnds(g, c) \/ DisconnectCancelled(g, c)
        PROVE  Stopped(g)'
    BY <2>2 DEF DisconnectBegins, DisconnectEnds, DisconnectCancelled
  <2>3. ASSUME OpenSucceeds(g) \/ ReconnectSucceeds(g) PROVE Stopped(g)'
    BY <2>3 DEF OpenSucceeds, ReconnectSucceeds, SocketOpens
  <2>4. ASSUME NEW kind, NEW nextTask, OnClose(g, kind, nextTask) PROVE ~running'[g]
    BY <2>4 DEF OnClose, WillReconnect
  <2>5. ASSUME OpenFails(g) \/ ReconnectFails(g) \/ MalformedHello(g) PROVE Stopped(g)'
    BY <2>4, <2>5 DEF OpenFails, ReconnectFails, MalformedHello
  <2>6. ASSUME RecvEnds(g) PROVE Stopped(g)'
    BY <2>4, <2>6 DEF RecvEnds
  <2>7. ASSUME ReconnectWakes(g) \/ Hello(g) \/ Refuse(g) \/ Data(g) PROVE Stopped(g)'
    BY <2>7 DEF ReconnectWakes, Hello, Refuse, Data
  <2>8. ASSUME NEW kind \in CloseKinds, SocketCloses(g, kind) PROVE Stopped(g)'
    BY <2>8 DEF SocketCloses
  <2> QED BY <2>1, <2>2, <2>3, <2>5, <2>6, <2>7, <2>8 DEF Step
<1> QED BY <1>1, <1>2

LEMMA AbandonedKept ==
  ASSUME GInv, ClientTypeOK, AbandonedStopped, ClientNext
  PROVE  AbandonedStopped'
<1>1. TypeOK /\ abandoned \subseteq Gateways
  BY DEF GInv, ClientTypeOK
<1>2. ASSUME abandoned' \subseteq abandoned, [Next]_gwVars PROVE AbandonedStopped'
  <2>1. ASSUME NEW h \in abandoned PROVE Stopped(h)'
    <3>1. h \in Gateways /\ Stopped(h)
      BY <1>1, <2>1 DEF AbandonedStopped
    <3>2. CASE Next
      BY <1>1, <3>1, <3>2, StoppedStays DEF Next
    <3>3. CASE UNCHANGED gwVars
      BY <3>1, <3>3 DEF Stopped, gwVars
    <3> QED BY <1>2, <3>2, <3>3
  <2> QED BY <1>2, <2>1 DEF AbandonedStopped
<1>3. [Next]_gwVars
  BY CallersStepGateways, GatewayStepSteps DEF ClientNext, Next
<1>4. ASSUME NEW g \in Gateways, GatewayStep(g) PROVE AbandonedStopped'
  BY <1>2, <1>3, <1>4 DEF GatewayStep
<1>5. ASSUME NEW c \in Callers, NEW g \in Gateways, DisconnectAbandoned(c, g)
      PROVE  AbandonedStopped'
  <2>1. closers[g] # {} /\ UNCHANGED <<flagVars, taskVars>> /\ abandoned' = abandoned \cup {g}
    BY <1>5 DEF DisconnectAbandoned, DisconnectCancelled
  <2>2. Over(g)
    BY <2>1 DEF GInv, Sound
  <2>3. \A h : Stopped(h) => Stopped(h)'
    BY <2>1 DEF Stopped, flagVars, taskVars
  <2>4. Stopped(g)
    BY <2>2 DEF Stopped, Over
  <2> QED BY <2>1, <2>3, <2>4 DEF AbandonedStopped
<1>6. ASSUME NEW c \in Callers, CallerStep(c), \A g \in Gateways : ~DisconnectAbandoned(c, g)
      PROVE  AbandonedStopped'
  <2>1. abandoned' \subseteq abandoned
    BY <1>6
    DEF CallerStep, ConnectStarts, DisconnectStarts, DisconnectReturns, ConnectJoins,
        ConnectReturns, JoinReturns, ConnectCancelled, DisconnectWithoutGateway
  <2> QED BY <1>2, <1>3, <2>1
<1> QED BY <1>4, <1>5, <1>6 DEF ClientNext
-----------------------------------------------------------------------------
(* Which gateways may have fed the book: what the book and the status mean of
   the gateways. *)
Fed(g) == Live(g) \/ BeingClosed(g) \/ CleanlyClosed(g)

LEMMA FedElsewhere ==
  ASSUME NEW h \in Gateways, UntouchedIn(h), abandoned \subseteq abandoned', Fed(h)
  PROVE  Fed(h)'
BY DEF Fed, Live, BeingClosed, CleanlyClosed, Receiving, UntouchedIn

(* A step of the gateway's own that ends no session, and connect(), leave a
   gateway that was fed from, fed from. *)
LEMMA FedKept ==
  ASSUME TypeOK, NEW g \in Gateways, Sound(g), Fed(g), abandoned \subseteq abandoned',
         \/ Connect(g)
         \/ OpenSucceeds(g) \/ ReconnectWakes(g) \/ ReconnectSucceeds(g)
         \/ Hello(g) \/ Refuse(g) \/ Data(g)
         \/ RecvEnds(g) /\ ws[g] = "ok"
         \/ \E kind \in CloseKinds : SocketCloses(g, kind)
  PROVE  Fed(g)'
<1>1. CASE g \in abandoned'
  BY <1>1 DEF Fed, BeingClosed
<1>2. CASE g \notin abandoned'
  <2> USE DEF TypeOK, Sound, Fed, Live, BeingClosed, CleanlyClosed, Receiving, Opening,
              Reconnecting, Over, flagVars, taskVars
  <2>1. ~Connect(g)
    BY <1>2 DEF Connect
  <2>2. ~OpenSucceeds(g) /\ ~ReconnectSucceeds(g)
    BY <1>2 DEF OpenSucceeds, ReconnectSucceeds
  <2>3. ReconnectWakes(g) \/ Data(g) => Fed(g)'
    BY <1>2 DEF ReconnectWakes, Data
  <2>4. Hello(g) => Fed(g)'
    BY DEF Hello
  <2>5. ~Refuse(g)
    BY <1>2 DEF Refuse
  <2>6. RecvEnds(g) /\ ws[g] = "ok" => Fed(g)'
    BY <1>2 DEF RecvEnds
  <2>7. ASSUME NEW kind \in CloseKinds, SocketCloses(g, kind) PROVE Fed(g)'
    BY <1>2, <2>7 DEF SocketCloses, CloseKinds
  <2> QED BY <1>2, <2>1, <2>2, <2>3, <2>4, <2>5, <2>6, <2>7
<1> QED BY <1>1, <1>2

(* What the client makes of a close: its book is empty, and unless its status
   says so too, the gateway was not the one it was connected through. *)
LEMMA CloseHandled ==
  ASSUME TypeOK, NEW g \in Gateways, Sound(g), NEW k \in Clients,
         NEW kind \in {"auth", "error"}, NEW nextTask, OnClose(g, kind, nextTask),
         AbandonedStopped
  PROVE  /\ HandleAll(k, g, emitted').book = {}
         /\ HandleAll(k, g, emitted').status = "connected" => ~Fed(g) /\ k.status = "connected"
<1> DEFINE again == WillReconnect(g, kind)
           l == Disconnected(again, kind)
           m == OnGwDisconnected(k, again, kind = "auth")
<1>1. again \in BOOLEAN /\ (again => running[g])
  BY DEF TypeOK, WillReconnect
<1>2. /\ m \in Clients /\ m.book = {} /\ m.status \in {k.status, "disconnected"}
      /\ ~again => m.status = "disconnected"
  BY <1>1, HandledDisconnected DEF OnlySettles
<1>4. CASE emitted' = <<l, Scheduled>>
  <2>1. HandleAll(k, g, emitted') = WithStatus(m, "reconnecting")
    BY <1>4, HandlesLoss
  <2> HIDE DEF m
  <2>2. /\ WithStatus(m, "reconnecting").book = {}
        /\ WithStatus(m, "reconnecting").status = "reconnecting"
    BY <1>2 DEF WithStatus, Clients
  <2> QED BY <2>1, <2>2
<1>5. CASE emitted' = <<l, Exhausted>>
  <2>1. HandleAll(k, g, emitted') = OnGwFatal(m)
    BY <1>5, HandlesLoss
  <2> HIDE DEF m
  <2> QED BY <1>2, <2>1, HandledFatal
<1>6. CASE emitted' = <<l>>
  <2>1. HandleAll(k, g, emitted') = m
    BY <1>6, HandlesLoss
  <2>2. again => ~Fed(g)
    <3> SUFFICES ASSUME again, Fed(g) PROVE FALSE
      OBVIOUS
    <3>1. running[g] /\ ~BeingClosed(g)
      BY <1>1 DEF Sound, Over, BeingClosed, AbandonedStopped, Stopped
    <3>4. ~Reconnecting(g) /\ attempt[g] = 0
      BY <3>1 DEF Sound, Opening, Fed, Live, CleanlyClosed
    <3>2. ~Overflows(g)
      BY <3>4, DelayedAttemptsAssumption DEF Overflows
    <3>3. emitted' \in {<<l, Exhausted>>, <<l, Scheduled>>}
      BY <3>4, <3>2 DEF OnClose
    <3> QED BY <1>6, <3>3
  <2> HIDE DEF m
  <2> QED BY <1>2, <2>1, <2>2
<1>7. emitted' \in {<<l>>, <<l, Scheduled>>, <<l, Exhausted>>}
  BY DEF OnClose
<1> QED BY <1>4, <1>5, <1>6, <1>7
-----------------------------------------------------------------------------
(* Only sessions feed the book, and only a session makes the client connected:
   one step of a gateway, and then the callers. *)
FedInv == BookFedBySession /\ ConnectedMeansGreeted

\* Nothing that fed the client has gone, and what is new feeds it.
LEMMA FedStays ==
  ASSUME client' \in Clients, FedInv, \A h \in Gateways : Fed(h) => Fed(h)',
         \A h \in client'.book : h \in client.book \/ Fed(h)',
         client'.status = "connected" => client.status = "connected" \/ \E h \in Gateways : Fed(h)'
  PROVE  FedInv'
<1>1. \A h \in client'.book : Fed(h)'
  <2>1. client'.book \subseteq Gateways
    BY DEF Clients
  <2>2. \A h \in client.book : Fed(h)
    BY DEF FedInv, BookFedBySession, Fed
  <2> QED BY <2>1, <2>2
<1>2. client'.status = "connected" => \E h \in Gateways : Fed(h)'
  BY DEF FedInv, ConnectedMeansGreeted, Fed
<1> QED BY <1>1, <1>2 DEF FedInv, BookFedBySession, ConnectedMeansGreeted, Fed

LEMMA FedByGateway ==
  ASSUME GInv, client \in Clients, client' \in Clients, FedInv, AbandonedStopped,
         NEW g \in Gateways, GatewayStep(g)
  PROVE  FedInv'
<1>1. /\ Step(g) /\ client' = HandleAll(client, g, emitted') /\ TypeOK /\ Sound(g)
      /\ abandoned' = abandoned
  BY GatewayStepSteps DEF GatewayStep, GInv
<1>2. ASSUME NEW h \in Gateways, h # g PROVE Fed(h) => Fed(h)'
  BY <1>1, <1>2, OthersUntouched, FedElsewhere
<1>3. ASSUME \/ OpenSucceeds(g) \/ ReconnectWakes(g) \/ ReconnectSucceeds(g)
             \/ RecvEnds(g) /\ ws[g] = "ok"
             \/ \E kind \in CloseKinds : SocketCloses(g, kind)
      PROVE  FedInv'
  <2>1. emitted' = << >>
    BY <1>3 DEF OpenSucceeds, SocketOpens, ReconnectWakes, ReconnectSucceeds, RecvEnds, SocketCloses
  <2>2. client' = client
    BY <1>1, <2>1, HandlesNone
  <2>3. Fed(g) => Fed(g)'
    BY <1>1, <1>3, FedKept
  <2> QED BY <1>2, <2>2, <2>3, FedStays
<1>4. ASSUME Hello(g) PROVE FedInv'
  <2>1. \/ client' = Handle(client, g, Connected)
        \/ client' = Handle(Handle(client, g, Warning), g, Connected)
    BY <1>1, <1>4, HandlesOne, HandlesTwo DEF Hello
  <2>2. client'.book = client.book
    BY <2>1, HandlesEach, HandledConnected
  <2>3. Fed(g)'
    BY <1>1, <1>4 DEF Hello, Fed, Live, Receiving, taskVars, TypeOK
  <2> QED BY <1>2, <2>2, <2>3, FedStays
<1>5. ASSUME Refuse(g) PROVE FedInv'
  <2>1. client' = Handle(client, g, Incompatible)
    BY <1>1, <1>5, HandlesOne DEF Refuse
  <2>2. client'.book = client.book /\ client'.status = "disconnected"
    BY <2>1, HandlesEach, HandledFatal
  <2>3. Fed(g) => Fed(g)'
    BY <1>1, <1>5, FedKept
  <2> QED BY <1>2, <2>2, <2>3, FedStays
<1>6. ASSUME Data(g) PROVE FedInv'
  <2>1. client' = Handle(client, g, DataEvents)
    BY <1>1, <1>6, HandlesOne DEF Data
  <2>2. client'.book = client.book \cup {g} /\ client'.status = client.status
    BY <2>1, HandlesEach DEF OnGwData, Clients
  <2>3. Fed(g)'
    BY <1>6 DEF Data, Fed, Live, Receiving, flagVars, taskVars
  <2> QED BY <1>2, <2>2, <2>3, FedStays
<1>7. ASSUME NEW kind \in {"auth", "error"}, NEW nextTask, OnClose(g, kind, nextTask)
      PROVE  FedInv'
  <2>1. client'.book = {} /\ (client'.status = "connected" => ~Fed(g) /\ client.status = "connected")
    BY <1>1, <1>7, CloseHandled
  <2> QED BY <1>2, <2>1 DEF FedInv, BookFedBySession, ConnectedMeansGreeted, Fed
<1>8. ASSUME OpenFails(g) \/ ReconnectFails(g) \/ MalformedHello(g) PROVE FedInv'
  BY <1>7, <1>8 DEF OpenFails, ReconnectFails, MalformedHello
<1>9. ASSUME RecvEnds(g), ws[g] # "ok" PROVE FedInv'
  BY <1>7, <1>9 DEF RecvEnds, CloseKinds
<1> QED BY <1>3, <1>4, <1>5, <1>6, <1>8, <1>9 DEF GatewayStep

\* The attributes a caller's step leaves the client with.
LEMMA CallerTyped ==
  ASSUME ClientTypeOK, NEW c \in Callers, CallerStep(c)
  PROVE  ClientTypeOK'
<1> USE DEF ClientTypeOK, Waits, Returns
<1>1. ASSUME NEW g \in Gateways, ConnectStarts(c, g) PROVE ClientTypeOK'
  <2>1. client' = [client EXCEPT !.status = "connecting", !.gw = g, !.pending = g,
                                 !.future = [@ EXCEPT ![g] = "waiting"]]
    BY <1>1 DEF ConnectStarts
  <2>2. [client.future EXCEPT ![g] = "waiting"] \in [Gateways -> Futures]
    BY DEF Clients, Futures
  <2>3. client' \in Clients
    BY <2>1, <2>2 DEF Clients, Statuses
  <2> QED BY <1>1, <2>3 DEF ConnectStarts
<1>2. ASSUME NEW k \in Clients PROVE Cleared(k) \in Clients
  BY <1>2 DEF Cleared, Clients, Statuses
<1>3. Settle(client, "error") \in Clients
  BY SettleSettles DEF OnlySettles
<1>4. ASSUME NEW g \in Gateways, DisconnectStarts(c, g) PROVE ClientTypeOK'
  BY <1>2, <1>3, <1>4 DEF DisconnectStarts
<1>5. ASSUME NEW g \in Gateways, DisconnectReturns(c, g) PROVE ClientTypeOK'
  BY <1>2, <1>5 DEF DisconnectReturns
<1>6. ASSUME NEW g \in Gateways, DisconnectAbandoned(c, g) PROVE ClientTypeOK'
  BY <1>6 DEF DisconnectAbandoned
<1>7. ASSUME ConnectJoins(c) PROVE ClientTypeOK'
  BY <1>7 DEF ConnectJoins, Clients
<1>8. ASSUME ConnectReturns(c) PROVE ClientTypeOK'
  BY <1>8 DEF ConnectReturns, Clients
<1>9. ASSUME JoinReturns(c) PROVE ClientTypeOK'
  BY <1>9 DEF JoinReturns
<1>10. ASSUME ConnectCancelled(c) PROVE ClientTypeOK'
  <2>1. client' = [client EXCEPT !.future = [@ EXCEPT ![on[c]] = "error"]]
    BY <1>10 DEF ConnectCancelled
  <2>2. [client.future EXCEPT ![on[c]] = "error"] \in [Gateways -> Futures]
    BY DEF Clients, Futures
  <2>3. client' \in Clients
    BY <2>1, <2>2 DEF Clients
  <2> QED BY <1>10, <2>3 DEF ConnectCancelled
<1>11. ASSUME DisconnectWithoutGateway(c) PROVE ClientTypeOK'
  BY <1>2, <1>3, <1>11 DEF DisconnectWithoutGateway
<1> QED BY <1>1, <1>4, <1>5, <1>6, <1>7, <1>8, <1>9, <1>10, <1>11 DEF CallerStep

LEMMA FedByCaller ==
  ASSUME GInv, ClientTypeOK, client' \in Clients, FedInv, NEW c \in Callers, CallerStep(c)
  PROVE  FedInv'
<1>1. TypeOK /\ client \in Clients
  BY DEF GInv, ClientTypeOK
<1>2. ASSUME NEW g \in Gateways,
             \/ Connect(g)
             \/ DisconnectBegins(g, c) /\ ws[g] # "none"
             \/ DisconnectCancelled(g, c) /\ g \in abandoned',
             abandoned \subseteq abandoned'
      PROVE  \A h \in Gateways : Fed(h) => Fed(h)'
  <2>1. Step(g) /\ Sound(g)
    BY <1>2 DEF Step, GInv
  <2>2. ASSUME Fed(g) PROVE Fed(g)'
    <3>1. CASE Connect(g)
      BY <1>1, <1>2, <2>1, <2>2, <3>1, FedKept
    <3>2. CASE DisconnectBegins(g, c) /\ ws[g] # "none"
      <4>1. closers'[g] = closers[g] \cup {c}
        BY <1>1, <3>2 DEF DisconnectBegins, TypeOK
      <4> QED BY <4>1 DEF Fed, BeingClosed
    <3>3. CASE DisconnectCancelled(g, c) /\ g \in abandoned'
      BY <3>3 DEF Fed, BeingClosed
    <3> QED BY <1>2, <3>1, <3>2, <3>3
  <2>3. ASSUME NEW h \in Gateways, h # g PROVE Fed(h) => Fed(h)'
    BY <1>1, <1>2, <2>1, <2>3, OthersUntouched, FedElsewhere
  <2> QED BY <2>2, <2>3
<1>3. ASSUME NEW k \in Clients, client' = Cleared(k) PROVE FedInv'
  <2>1. client'.book = {} /\ client'.status = "disconnected"
    BY <1>3 DEF Cleared, Clients
  <2> QED BY <2>1 DEF FedInv, BookFedBySession, ConnectedMeansGreeted
<1>4. /\ Settle(client, "error") \in Clients
      /\ Settle(client, "error").book = client.book
      /\ Settle(client, "error").status = client.status
  BY <1>1, SettleSettles DEF OnlySettles
<1>5. ASSUME NEW g \in Gateways, ConnectStarts(c, g) PROVE FedInv'
  <2>1. client'.book = client.book /\ client'.status = "connecting"
    BY <1>1, <1>5 DEF ConnectStarts, Clients
  <2> QED BY <1>2, <1>5, <2>1, FedStays DEF ConnectStarts
<1>6. ASSUME NEW g \in Gateways, DisconnectStarts(c, g) PROVE FedInv'
  <2>1. CASE ws[g] = "none"
    BY <1>3, <1>4, <1>6, <2>1 DEF DisconnectStarts
  <2>2. CASE ws[g] # "none"
    <3>1. client' = Settle(client, "error") /\ abandoned' = abandoned /\ DisconnectBegins(g, c)
      BY <1>6, <2>2 DEF DisconnectStarts
    <3>2. \A h \in Gateways : Fed(h) => Fed(h)'
      BY <1>2, <2>2, <3>1
    <3> QED BY <1>1, <1>4, <3>1, <3>2, FedStays
  <2> QED BY <2>1, <2>2
<1>7. ASSUME NEW g \in Gateways, DisconnectReturns(c, g) PROVE FedInv'
  BY <1>1, <1>3, <1>7 DEF DisconnectReturns
<1>8. ASSUME NEW g \in Gateways, DisconnectAbandoned(c, g) PROVE FedInv'
  BY <1>1, <1>2, <1>8, FedStays DEF DisconnectAbandoned
<1>9. ASSUME ConnectJoins(c) \/ ConnectReturns(c) \/ JoinReturns(c) \/ ConnectCancelled(c)
      PROVE  FedInv'
  <2>1. UNCHANGED gwVars
    BY <1>9 DEF ConnectJoins, ConnectReturns, JoinReturns, ConnectCancelled
  <2>2. \A h \in Gateways : Fed(h)' = Fed(h)
    <3>1. abandoned' = abandoned
      BY <1>9 DEF ConnectJoins, ConnectReturns, JoinReturns, ConnectCancelled
    <3> QED BY <2>1, <3>1 DEF gwVars, Fed, Live, BeingClosed, CleanlyClosed, Receiving
  <2>3. client'.book = client.book /\ client'.status = client.status
    BY <1>1, <1>9 DEF ConnectJoins, ConnectReturns, JoinReturns, ConnectCancelled, Clients
  <2> QED BY <2>2, <2>3, FedStays
<1>10. ASSUME DisconnectWithoutGateway(c) PROVE FedInv'
  BY <1>3, <1>4, <1>10 DEF DisconnectWithoutGateway
<1> QED BY <1>5, <1>6, <1>7, <1>8, <1>9, <1>10 DEF CallerStep
-----------------------------------------------------------------------------
(* Nobody is forgotten.  A new connect() finds nothing pending, so whoever
   still waits then waits for a future that is settled already. *)
Waiters == NoForgottenWaiter /\ ConnectorOwnsPending

LEMMA WaitersKept ==
  ASSUME Waiters, OnlySettles(client, client'), pc' = pc, on' = on, ClientTypeOK
  PROVE  Waiters'
BY DEF Waiters, NoForgottenWaiter, ConnectorOwnsPending, OnlySettles, ClientTypeOK, Clients

LEMMA WaitersByCaller ==
  ASSUME ClientTypeOK, Waiters, NEW c \in Callers, CallerStep(c)
  PROVE  Waiters'
<1> USE NoneAssumption DEF ClientTypeOK
<1>1. ASSUME NEW g \in Gateways, ConnectStarts(c, g) PROVE Waiters'
  <2>1. /\ client.pending = None /\ client'.pending = g
        /\ client'.future = [client.future EXCEPT ![g] = "waiting"]
        /\ pc' = [pc EXCEPT ![c] = "connecting"] /\ on' = [on EXCEPT ![c] = g]
    BY <1>1 DEF ConnectStarts, MayConnect, Waits, Clients
  <2>2. ASSUME NEW d \in Callers, d # c
        PROVE  /\ pc'[d] = pc[d] /\ on'[d] = on[d] /\ pc[d] # "connecting"
               /\ pc[d] = "joining" => on[d] \in Gateways /\ client.future[on[d]] # "waiting"
    BY <2>1, <2>2 DEF Waiters, NoForgottenWaiter, ConnectorOwnsPending
  <2>3. pc'[c] = "connecting" /\ on'[c] = g
    BY <2>1
  <2>4. ASSUME NEW d \in Callers, pc'[d] \in {"connecting", "joining"}
        PROVE  /\ on'[d] # None
               /\ client'.future[on'[d]] = "waiting" => client'.pending = on'[d]
    <3>1. CASE d = c
      BY <2>1, <2>3, <3>1
    <3>2. CASE d # c
      BY <2>1, <2>2, <2>4, <3>2 DEF Clients
    <3> QED BY <3>1, <3>2
  <2> QED BY <2>1, <2>2, <2>3, <2>4 DEF Waiters, NoForgottenWaiter, ConnectorOwnsPending
<1>2. ASSUME NEW k \in Clients, OnlySettles(client, k), client' = k \/ client' = Cleared(k),
             pc[c] = "idle" \/ pc[c] = "disconnecting", pc'[c] = "idle" \/ pc'[c] = "disconnecting",
             \A d \in Callers : d # c => pc'[d] = pc[d] /\ on'[d] = on[d]
      PROVE  Waiters'
  <2>1. client'.pending = k.pending /\ client'.future = k.future
    BY <1>2 DEF Cleared, Clients
  <2>2. /\ client'.pending = client.pending
        /\ \A h \in Gateways : client'.future[h] = "waiting" => client.future[h] = "waiting"
    BY <1>2, <2>1 DEF OnlySettles
  <2> QED BY <1>2, <2>2 DEF Waiters, NoForgottenWaiter, ConnectorOwnsPending
<1>3. OnlySettles(client, client) /\ OnlySettles(client, Settle(client, "error"))
      /\ Settle(client, "error") \in Clients
  BY SettleSettles DEF OnlySettles
<1>4. ASSUME NEW g \in Gateways, DisconnectStarts(c, g) PROVE Waiters'
  <2>1. /\ pc[c] = "idle" /\ pc'[c] \in {"idle", "disconnecting"}
        /\ \A d \in Callers : d # c => pc'[d] = pc[d] /\ on'[d] = on[d]
    BY <1>4 DEF DisconnectStarts, Waits
  <2>2. client' \in {Settle(client, "error"), Cleared(Settle(client, "error"))}
    BY <1>4 DEF DisconnectStarts
  <2> QED BY <1>2, <1>3, <2>1, <2>2
<1>5. ASSUME NEW g \in Gateways, DisconnectReturns(c, g) \/ DisconnectAbandoned(c, g)
      PROVE  Waiters'
  BY <1>2, <1>3, <1>5 DEF DisconnectReturns, DisconnectAbandoned, Returns
<1>6. ASSUME DisconnectWithoutGateway(c) PROVE Waiters'
  BY <1>2, <1>3, <1>6 DEF DisconnectWithoutGateway
<1>7. ASSUME ConnectJoins(c) PROVE Waiters'
  <2>1. /\ client' = client /\ client.pending # None
        /\ pc' = [pc EXCEPT ![c] = "joining"] /\ on' = [on EXCEPT ![c] = client.pending]
        /\ pc[c] = "idle"
    BY <1>7 DEF ConnectJoins, InFlight, Waits
  <2> QED BY <2>1 DEF Waiters, NoForgottenWaiter, ConnectorOwnsPending
<1>8. ASSUME ConnectReturns(c) PROVE Waiters'
  <2>1. /\ client'.pending = None /\ client'.future = client.future
        /\ pc[c] = "connecting" /\ client.future[on[c]] # "waiting"
        /\ pc'[c] = "idle"
        /\ \A d \in Callers : d # c => pc'[d] = pc[d] /\ on'[d] = on[d]
    BY <1>8 DEF ConnectReturns, Returns, Clients
  <2>2. client.pending = on[c] /\ \A d \in Callers : d # c => pc[d] # "connecting"
    BY <2>1 DEF Waiters, NoForgottenWaiter, ConnectorOwnsPending
  <2>3. ASSUME NEW d \in Callers, pc'[d] \in {"connecting", "joining"}
        PROVE  d # c /\ pc[d] = "joining" /\ on'[d] # None /\ client'.future[on'[d]] # "waiting"
    BY <2>1, <2>2, <2>3 DEF Waiters, NoForgottenWaiter
  <2> QED BY <2>1, <2>2, <2>3 DEF Waiters, NoForgottenWaiter, ConnectorOwnsPending
<1>9. ASSUME JoinReturns(c) PROVE Waiters'
  <2>1. /\ client' = client /\ pc[c] = "joining" /\ pc'[c] = "idle"
        /\ \A d \in Callers : d # c => pc'[d] = pc[d] /\ on'[d] = on[d]
    BY <1>9 DEF JoinReturns, Returns
  <2> QED BY <2>1 DEF Waiters, NoForgottenWaiter, ConnectorOwnsPending
<1>10. ASSUME ConnectCancelled(c) PROVE Waiters'
  <2>1. client'.future = [client.future EXCEPT ![on[c]] = "error"] /\ client'.pending = client.pending
    BY <1>10 DEF ConnectCancelled, Clients
  <2>2. \A h \in Gateways : client'.future[h] = "waiting" => client.future[h] = "waiting"
    BY <2>1 DEF Clients
  <2> QED BY <1>10, <2>1, <2>2 DEF ConnectCancelled, Waiters, NoForgottenWaiter, ConnectorOwnsPending
<1> QED BY <1>1, <1>4, <1>5, <1>6, <1>7, <1>8, <1>9, <1>10 DEF CallerStep
-----------------------------------------------------------------------------
LEMMA CInvInit == ClientInit => CInv
<1> SUFFICES ASSUME ClientInit PROVE CInv
  OBVIOUS
<1>1. ClientTypeOK
  BY DEF ClientInit, ClientTypeOK, Clients, Statuses, Futures
<1>2. BookFedBySession /\ ConnectedMeansGreeted
  BY DEF ClientInit, BookFedBySession, ConnectedMeansGreeted
<1>3. NoForgottenWaiter /\ ConnectorOwnsPending
  BY DEF ClientInit, NoForgottenWaiter, ConnectorOwnsPending
<1>4. AbandonedStopped
  BY DEF ClientInit, AbandonedStopped
<1> QED BY <1>1, <1>2, <1>3, <1>4 DEF CInv

LEMMA CInvStep == CInv /\ GInv /\ GInv' /\ [ClientNext]_vars => CInv'
<1> SUFFICES ASSUME CInv, GInv, GInv', [ClientNext]_vars PROVE CInv'
  OBVIOUS
<1>1. ClientTypeOK /\ AbandonedStopped /\ FedInv /\ Waiters
  BY DEF CInv, FedInv, Waiters
<1>2. ASSUME NEW g \in Gateways, GatewayStep(g) PROVE ClientTypeOK' /\ FedInv' /\ Waiters'
  <2>1. emitted' \in Emissions
    BY DEF GInv, TypeOK
  <2>2. OnlySettles(client, client') /\ pc' = pc /\ on' = on
    BY <1>1, <1>2, <2>1, EmissionsSettle DEF GatewayStep, ClientTypeOK
  <2>3. client \in Clients /\ client' \in Clients
    BY <1>1, <2>2 DEF OnlySettles, ClientTypeOK
  <2>4. ClientTypeOK'
    BY <1>1, <1>2, <2>2, <2>3 DEF ClientTypeOK, GatewayStep
  <2> QED BY <1>1, <1>2, <2>2, <2>3, <2>4, FedByGateway, WaitersKept
<1>3. ASSUME NEW c \in Callers, CallerStep(c) PROVE ClientTypeOK' /\ FedInv' /\ Waiters'
  <2>1. ClientTypeOK'
    BY <1>1, <1>3, CallerTyped
  <2> QED BY <1>1, <1>3, <2>1, FedByCaller, WaitersByCaller DEF ClientTypeOK
<1>4. CASE UNCHANGED vars
  BY <1>4
  DEF vars, gwVars, CInv, ClientTypeOK, AbandonedStopped, Stopped, BookFedBySession,
      ConnectedMeansGreeted, Live, BeingClosed, CleanlyClosed, Receiving,
      NoForgottenWaiter, ConnectorOwnsPending
<1>5. ASSUME ClientNext PROVE AbandonedStopped'
  BY <1>1, <1>5, AbandonedKept
<1> QED BY <1>2, <1>3, <1>4, <1>5 DEF ClientNext, CInv, FedInv, Waiters

(* The inductive invariant of the client: its attributes, its book and its
   callers belong together whatever the coroutines do between their awaits. *)
THEOREM ClientInvariant == ClientSpec => []CInv
BY CInvInit, CInvStep, ClientGatewaysSound, PTL DEF ClientSpec

(* The attributes of the client and what its callers await keep their types:
   the status is one of the four documented whatever the gateways emit. *)
THEOREM ClientTyped == ClientSpec => []ClientTypeOK
<1>1. CInv => ClientTypeOK
  BY DEF CInv
<1> QED BY <1>1, ClientInvariant, PTL

(* The live book holds nothing of a session that is gone, but for the three
   cases BookFedBySession names. *)
THEOREM BookAlwaysFed == ClientSpec => []BookFedBySession
<1>1. CInv => BookFedBySession
  BY DEF CInv
<1> QED BY <1>1, ClientInvariant, PTL

(* A client that calls itself connected has a gateway that was greeted and
   whose socket a loop reads, with the same three exceptions. *)
THEOREM ConnectedAlwaysGreeted == ClientSpec => []ConnectedMeansGreeted
<1>1. CInv => ConnectedMeansGreeted
  BY DEF CInv
<1> QED BY <1>1, ClientInvariant, PTL

(* No caller of connect() is left waiting for a future nobody will settle. *)
THEOREM NobodyForgotten == ClientSpec => []NoForgottenWaiter
<1>1. CInv => NoForgottenWaiter
  BY DEF CInv
<1> QED BY <1>1, ClientInvariant, PTL

(* A disconnect() that runs to its end leaves its gateway over: the coroutines
   of disconnect() only ever wait on a gateway that is over already, and with
   no socket to wait for it is over at once. *)
THEOREM DisconnectAlwaysStops == ClientSpec => DisconnectStops
<1>1. ASSUME GInv, NEW c \in Callers, NEW g \in Gateways, DisconnectReturns(c, g)
      PROVE  Over(g)'
  <2>1. closers[g] # {} /\ Sound(g) /\ UNCHANGED <<flagVars, taskVars>>
    BY <1>1 DEF DisconnectReturns, DisconnectEnds, GInv
  <2> QED BY <2>1 DEF Sound, Over, Receiving, Reconnecting, flagVars, taskVars
<1>2. ASSUME GInv, NEW c \in Callers, NEW g \in Gateways, DisconnectStarts(c, g),
             openTask[g] = "done"
      PROVE  Over(g)'
  BY <1>2
  DEF DisconnectStarts, DisconnectBegins, CancelReconnect, CancelRecv, GInv, TypeOK,
      Over, Receiving, Reconnecting
<1>3. GInv => (\A c \in Callers, g \in Gateways :
                 \/ DisconnectReturns(c, g)
                 \/ DisconnectStarts(c, g) /\ ws[g] = "none" /\ openTask[g] = "done"
                 => Over(g)')
  BY <1>1, <1>2
<1> QED BY <1>3, ClientGatewaysSound, PTL DEF DisconnectStops
=============================================================================
