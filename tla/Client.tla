------------------------------- MODULE Client --------------------------------
(***************************************************************************)
(* Client (src/realtimeodds/client.py) over the gateways it creates: the   *)
(* connection state, the future of a connect() in flight, the live book,   *)
(* and the coroutines that call connect() and disconnect().                *)
(*                                                                         *)
(* A step of a gateway and the handlers it triggers are one action: the    *)
(* emitter calls the Client's handlers before emit() returns.  The handlers*)
(* of every gateway ever created stay attached and do not ask which gateway*)
(* is speaking.                                                            *)
(*                                                                         *)
(* Of the live book only whose data it holds is kept: the set of gateways  *)
(* that have put something in since it was last cleared.  What the book    *)
(* does with the data is the subject of OddsBook.                          *)
(***************************************************************************)
EXTENDS Gateway

CONSTANT None

ASSUME NoneAssumption == None \notin Gateways

VARIABLES
  client,    \* the attributes of the Client
  pc, on,    \* per caller: what it awaits, and of which gateway
  abandoned  \* history: gateways whose disconnect() was given up, none having
             \* run to its end since

vars == <<gwVars, client, pc, on, abandoned>>

Statuses == {"connecting", "connected", "disconnected", "reconnecting"}

(* The future of the connect() that created a gateway. *)
Futures == {"none", "waiting", "result", "error"}     \* a cancelled one is an error

Clients == [status  : Statuses,
            gw      : Gateways \cup {None},
            pending : Gateways \cup {None},     \* the gateway whose future is _pending's
            future  : [Gateways -> Futures],
            book    : SUBSET Gateways]

ClientInit ==
  /\ Init
  /\ client = [status |-> "disconnected", gw |-> None, pending |-> None,
               future |-> [g \in Gateways |-> "none"], book |-> {}]
  /\ pc = [c \in Callers |-> "idle"]
  /\ on = [c \in Callers |-> None]
  /\ abandoned = {}
-----------------------------------------------------------------------------
(* The handlers, from client to client. *)

InFlight(k) == k.pending # None /\ k.future[k.pending] = "waiting"

\* _fail_pending, and its counterpart in _on_gw_connected.
Settle(k, outcome) ==
  IF InFlight(k) THEN [k EXCEPT !.future[k.pending] = outcome] ELSE k

WithStatus(k, s) == [k EXCEPT !.status = s]

OnGwConnected(k) == Settle(WithStatus(k, "connected"), "result")

OnGwDisconnectedMutant(k, again, auth) ==     \* keeps the book for the reconnect
  IF auth        THEN Settle(WithStatus([k EXCEPT !.book = {}], "disconnected"), "error")
  ELSE IF ~again THEN WithStatus([k EXCEPT !.book = {}], "disconnected")
  ELSE k

OnGwDisconnected(k, again, auth) ==
  LET emptied == [k EXCEPT !.book = {}]
  IN  IF auth        THEN Settle(WithStatus(emptied, "disconnected"), "error")
      ELSE IF ~again THEN WithStatus(emptied, "disconnected")
      ELSE emptied

OnGwReconnectScheduled(k) == WithStatus(k, "reconnecting")

OnGwFatalMutant(k)     == WithStatus(k, "disconnected")               \* settles nothing
OnGwFatalTypeMutant(k) == Settle(WithStatus(k, "failed"), "error")    \* no such status

\* _on_gw_exhausted and _on_gw_incompatible.
OnGwFatal(k) == Settle(WithStatus(k, "disconnected"), "error")

OnGwData(k, g) == [k EXCEPT !.book = @ \cup {g}]

Handle(k, g, e) ==
  CASE e.event = "connected"           -> OnGwConnected(k)
    [] e.event = "disconnected"        -> OnGwDisconnected(k, e.willReconnect, e.authCode)
    [] e.event = "reconnect_scheduled" -> OnGwReconnectScheduled(k)
    [] e.event = "exhausted"           -> OnGwFatal(k)
    [] e.event = "incompatible"        -> OnGwFatal(k)
    [] e.event = "data"                -> OnGwData(k, g)
    [] e.event = "warning"             -> k          \* nobody listens

\* A step emits at most two events.
HandleAll(k, g, events) ==
  IF events = << >>        THEN k
  ELSE IF Len(events) = 1  THEN Handle(k, g, events[1])
  ELSE Handle(Handle(k, g, events[1]), g, events[2])
-----------------------------------------------------------------------------
Waits(c, what, g) == pc' = [pc EXCEPT ![c] = what] /\ on' = [on EXCEPT ![c] = g]

Returns(c) == pc' = [pc EXCEPT ![c] = "idle"] /\ on' = [on EXCEPT ![c] = None]

(* A step of a gateway that no caller takes. *)
GatewayStep(g) ==
  /\ \/ OpenSucceeds(g) \/ OpenFails(g)
     \/ ReconnectWakes(g) \/ ReconnectSucceeds(g) \/ ReconnectFails(g)
     \/ Hello(g) \/ Refuse(g) \/ MalformedHello(g) \/ Data(g) \/ RecvEnds(g)
     \/ \E kind \in CloseKinds : SocketCloses(g, kind)
  /\ client' = HandleAll(client, g, emitted')
  /\ UNCHANGED <<pc, on, abandoned>>

MayConnectMutant(k) == k.status # "connected"
MayConnect(k)       == k.pending = None /\ k.status # "connected"

(* connect() with nothing pending and the status not "connected" (else it
   returns at once): a new gateway, whatever became of the one before. *)
ConnectStarts(c, g) ==
  /\ pc[c] = "idle"
  /\ MayConnect(client)
  /\ Connect(g)
  /\ client' = [client EXCEPT !.status = "connecting", !.gw = g,
                              !.pending = g, !.future[g] = "waiting"]
  /\ Waits(c, "connecting", g)
  /\ UNCHANGED abandoned

(* connect() while another one is in flight.  On a future already settled it
   returns without waiting. *)
ConnectJoins(c) ==
  /\ pc[c] = "idle"
  /\ InFlight(client)
  /\ Waits(c, "joining", client.pending)
  /\ UNCHANGED <<gwVars, client, abandoned>>

\* The coroutine that made the future resumes, and clears _pending.
ConnectReturns(c) ==
  /\ pc[c] = "connecting"
  /\ client.future[on[c]] # "waiting"
  /\ client' = [client EXCEPT !.pending = None]
  /\ Returns(c)
  /\ UNCHANGED <<gwVars, abandoned>>

JoinReturns(c) ==
  /\ pc[c] = "joining"
  /\ client.future[on[c]] # "waiting"
  /\ Returns(c)
  /\ UNCHANGED <<gwVars, client, abandoned>>

(* A task that awaits the future is cancelled, by asyncio.wait_for for one:
   that cancels the future itself, under everyone who awaits it.  The gateway
   is not told. *)
ConnectCancelled(c) ==
  /\ pc[c] \in {"connecting", "joining"}
  /\ client.future[on[c]] = "waiting"
  /\ client' = [client EXCEPT !.future[on[c]] = "error"]
  /\ UNCHANGED <<gwVars, pc, on, abandoned>>

ClearedMutant(k) == [k EXCEPT !.gw = None, !.book = {}]

\* What disconnect() does after its await.
Cleared(k) == [k EXCEPT !.gw = None, !.book = {}, !.status = "disconnected"]

(* disconnect(), up to the await of ws.close() or, when there is no socket to
   close, to its end. *)
DisconnectStarts(c, g) ==
  /\ pc[c] = "idle"
  /\ client.gw = g
  /\ DisconnectBegins(g, c)
  /\ LET failed == Settle(client, "error")
     IN  IF ws[g] = "none"
           THEN client' = Cleared(failed) /\ abandoned' = {} /\ UNCHANGED <<pc, on>>
           ELSE client' = failed /\ Waits(c, "disconnecting", g) /\ UNCHANGED abandoned

DisconnectWithoutGateway(c) ==
  /\ pc[c] = "idle"
  /\ client.gw = None
  /\ client' = Cleared(Settle(client, "error"))
  /\ abandoned' = {}
  /\ UNCHANGED <<gwVars, pc, on>>

DisconnectReturns(c, g) ==
  /\ pc[c] = "disconnecting" /\ on[c] = g
  /\ DisconnectEnds(g, c)
  /\ client' = Cleared(client)
  /\ abandoned' = {}
  /\ Returns(c)

(* wait_for gives up on a disconnect(): neither the gateway's nor the Client's
   part after the await is run. *)
DisconnectAbandoned(c, g) ==
  /\ pc[c] = "disconnecting" /\ on[c] = g
  /\ DisconnectCancelled(g, c)
  /\ Returns(c)
  /\ abandoned' = abandoned \cup {g}
  /\ UNCHANGED client
-----------------------------------------------------------------------------
CallerStep(c) ==
  \/ \E g \in Gateways : \/ ConnectStarts(c, g)
                         \/ DisconnectStarts(c, g)
                         \/ DisconnectReturns(c, g)
                         \/ DisconnectAbandoned(c, g)
  \/ ConnectJoins(c) \/ ConnectReturns(c) \/ JoinReturns(c)
  \/ ConnectCancelled(c)
  \/ DisconnectWithoutGateway(c)

ClientNext == \/ \E g \in Gateways : GatewayStep(g)
              \/ \E c \in Callers : CallerStep(c)

ClientSpec == ClientInit /\ [][ClientNext]_vars

(* The coroutines whose await is over are resumed by the loop. *)
FairClientSpec ==
  /\ ClientSpec
  /\ \A g \in Gateways : /\ WF_vars(GatewayStep(g) /\ OpenEnds(g))
                         /\ WF_vars(GatewayStep(g) /\ ReconnectWakes(g))
                         /\ WF_vars(GatewayStep(g) /\ ReconnectEnds(g))
                         /\ WF_vars(GatewayStep(g) /\ RecvEnds(g))
                         /\ WF_vars(GatewayStep(g) /\ ClosingEnds(g))
                         /\ WF_vars(GatewayStep(g) /\ Greeting(g))
  /\ \A c \in Callers : /\ WF_vars(ConnectReturns(c))
                        /\ WF_vars(JoinReturns(c))
                        /\ WF_vars(\E g \in Gateways : DisconnectReturns(c, g))
-----------------------------------------------------------------------------
ClientTypeOK ==
  /\ client \in Clients
  /\ pc \in [Callers -> {"idle", "connecting", "joining", "disconnecting"}]
  /\ on \in [Callers -> Gateways \cup {None}]
  /\ abandoned \subseteq Gateways

\* The session of g is up, and a loop reads its socket.
Live(g) == handshakeDone[g] /\ Receiving(g)

\* A disconnect() of g awaits ws.close(), or was given up there.
BeingClosed(g) == closers[g] # {} \/ g \in abandoned

\* The peer ended a session of g with a clean close, of which nobody is told.
CleanlyClosed(g) == handshakeDone[g] /\ ~Receiving(g) /\ ws[g] = "ok"

(* Everything in the live book comes from a gateway whose session is up and
   whose socket a loop reads, so that somebody keeps it current: a drop, a
   refusal or a second gateway leaves nothing behind.  Three things do, and
   they are all: a disconnect() keeps the book until ws.close() has returned,
   although its docstring says "emptied immediately", one that is given up there keeps it until another runs
   to its end, and a clean close of the socket keeps it (see ConnectedIsReal). *)
BookFedBySession ==
  \A g \in client.book : Live(g) \/ BeingClosed(g) \/ CleanlyClosed(g)

(* The client calls itself connected only while some gateway has been greeted
   on a socket that its loop reads; whatever gateways come and go and whichever
   of them spoke last.  The exceptions are those of BookFedBySession. *)
ConnectedMeansGreeted ==
  client.status = "connected" =>
    \E g \in Gateways : Live(g) \/ BeingClosed(g) \/ CleanlyClosed(g)

(* Whoever waits in connect() waits for the future the client will settle, and
   the coroutine that will clear it is there: no caller is left with a future
   that was forgotten when another gateway took over. *)
NoForgottenWaiter ==
  /\ \A c \in Callers : pc[c] \in {"connecting", "joining"} =>
       /\ on[c] # None
       /\ client.future[on[c]] = "waiting" => client.pending = on[c]
  /\ client.pending # None =>
       \E c \in Callers : pc[c] = "connecting" /\ on[c] = client.pending
  /\ \A c, d \in Callers : pc[c] = "connecting" /\ pc[d] = "connecting" => c = d

(* A disconnect() that runs to its end leaves its gateway with nothing that
   will ever run again, unless it came before the first socket was open. *)
DisconnectStops ==
  [][\A c \in Callers, g \in Gateways :
       \/ DisconnectReturns(c, g)
       \/ DisconnectStarts(c, g) /\ ws[g] = "none" /\ openTask[g] = "done"
       => Over(g)']_vars

(* connect() returns, with a result or an error, unless a gateway stalls. *)
ConnectEnds ==
  \A c \in Callers :
    pc[c] \in {"connecting", "joining"} ~> (pc[c] = "idle" \/ \E g \in Gateways : Stalled(g))

(* disconnect() returns whatever the peer does, two at a time included. *)
DisconnectEndsEventually ==
  \A c \in Callers : pc[c] = "disconnecting" ~> pc[c] = "idle"
-----------------------------------------------------------------------------
(* What the documentation says of the client and the code does not do. *)

(* README: disconnect() closes and stops reconnecting, so a client without a
   gateway is not connected. *)
ConnectedHasGateway == client.status = "connected" => client.gw # None

(* README and connect(): transient errors keep retrying, so a client that
   calls itself reconnecting has an attempt scheduled or under way. *)
ReconnectingIsReal ==
  client.status = "reconnecting" =>
    \E g \in Gateways : Opening(g) \/ Receiving(g)

(* create_client(): the client reconnects on transient drops, so one that
   calls itself connected has a loop that reads its socket, unless somebody
   closes it. *)
ConnectedIsReal ==
  client.status = "connected" =>
    \E g \in Gateways : Receiving(g) \/ BeingClosed(g)
=============================================================================
