---------------------------- MODULE GatewayProofs ----------------------------
(***************************************************************************)
(* Proofs about Gateway, for every set of gateways and callers and every   *)
(* maximum of reconnect attempts.                                          *)
(*                                                                         *)
(* The inductive invariant is GInv: the types, and Sound for each gateway. *)
(* OneConnector is not inductive alone.  That no attempt completes while a *)
(* socket is held needs that a gateway not yet told to connect has touched *)
(* nothing, that a live timer belongs to a running gateway (so that        *)
(* disconnect() has killed it) and that the coroutines of disconnect() only*)
(* ever wait on a gateway that is over, since they reset its socket.       *)
(***************************************************************************)
EXTENDS Gateway, TLAPS

Sound(g) ==
  /\ ~ (openTask[g] = "connecting" /\ Reconnecting(g))
  /\ Opening(g) => ~Receiving(g) /\ ws[g] = "none"
  /\ Receiving(g) => ws[g] # "none"
  /\ handshakeDone[g] => ws[g] # "none"
  /\ openTask[g] = "none" =>
       /\ ~running[g] /\ ~handshakeDone[g] /\ ws[g] = "none"
       /\ recvTask[g] = "none" /\ reconnectTask[g] = "none" /\ closers[g] = {}
       /\ attempt[g] = 0
  /\ handshakeDone[g] => attempt[g] = 0
  /\ closers[g] # {} => Over(g) /\ ~handshakeDone[g]
  /\ running[g] => attempt[g] <= MaxAttempts
  /\ Reconnecting(g) => running[g]

GInv == TypeOK /\ \A g \in Gateways : Sound(g)
-----------------------------------------------------------------------------
(* A step of g touches no other gateway. *)
UntouchedIn(h) ==
  /\ running'[h] = running[h] /\ handshakeDone'[h] = handshakeDone[h]
  /\ attempt'[h] = attempt[h] /\ ws'[h] = ws[h]
  /\ openTask'[h] = openTask[h] /\ recvTask'[h] = recvTask[h]
  /\ reconnectTask'[h] = reconnectTask[h] /\ closers'[h] = closers[h]

LEMMA OthersUntouched ==
  ASSUME TypeOK, NEW g \in Gateways, Step(g), NEW h \in Gateways, h # g
  PROVE  UntouchedIn(h)
  <1> USE DEF TypeOK, flagVars, taskVars
  <1>1. ASSUME Connect(g)
        PROVE  UntouchedIn(h)
    BY <1>1 DEF UntouchedIn, Connect
  <1>2. ASSUME NEW c \in Callers, DisconnectBegins(g, c)
        PROVE  UntouchedIn(h)
    BY <1>2 DEF UntouchedIn, DisconnectBegins, ResetHandshake, CancelReconnect, CancelRecv, CloseFrame
  <1>3. ASSUME NEW c \in Callers, DisconnectEnds(g, c)
        PROVE  UntouchedIn(h)
    BY <1>3 DEF UntouchedIn, DisconnectEnds
  <1>4. ASSUME NEW c \in Callers, DisconnectCancelled(g, c)
        PROVE  UntouchedIn(h)
    BY <1>4 DEF UntouchedIn, DisconnectCancelled
  <1>5. ASSUME OpenSucceeds(g)
        PROVE  UntouchedIn(h)
    BY <1>5 DEF UntouchedIn, OpenSucceeds, SocketOpens, ResetHandshake
  <1>6. ASSUME OpenFails(g)
        PROVE  UntouchedIn(h)
    BY <1>6 DEF UntouchedIn, OpenFails, OnClose, ResetHandshake
  <1>7. ASSUME ReconnectWakes(g)
        PROVE  UntouchedIn(h)
    BY <1>7 DEF UntouchedIn, ReconnectWakes
  <1>8. ASSUME ReconnectSucceeds(g)
        PROVE  UntouchedIn(h)
    BY <1>8 DEF UntouchedIn, ReconnectSucceeds, SocketOpens, ResetHandshake
  <1>9. ASSUME ReconnectFails(g)
        PROVE  UntouchedIn(h)
    BY <1>9 DEF UntouchedIn, ReconnectFails, OnClose, ResetHandshake
  <1>10. ASSUME Hello(g)
        PROVE  UntouchedIn(h)
    BY <1>10 DEF UntouchedIn, Hello
  <1>11. ASSUME Refuse(g)
        PROVE  UntouchedIn(h)
    BY <1>11 DEF UntouchedIn, Refuse, CloseFrame
  <1>12. ASSUME MalformedHello(g)
        PROVE  UntouchedIn(h)
    BY <1>12 DEF UntouchedIn, MalformedHello, OnClose, ResetHandshake
  <1>13. ASSUME Data(g)
        PROVE  UntouchedIn(h)
    BY <1>13 DEF UntouchedIn, Data
  <1>14. ASSUME RecvEnds(g)
        PROVE  UntouchedIn(h)
    BY <1>14 DEF UntouchedIn, RecvEnds, OnClose, ResetHandshake
  <1>15. ASSUME NEW kind \in CloseKinds, SocketCloses(g, kind)
        PROVE  UntouchedIn(h)
    BY <1>15 DEF UntouchedIn, SocketCloses
  <1> QED BY <1>1, <1>2, <1>3, <1>4, <1>5, <1>6, <1>7, <1>8, <1>9, <1>10,
             <1>11, <1>12, <1>13, <1>14, <1>15 DEF Step

LEMMA SoundElsewhere ==
  ASSUME NEW h \in Gateways, Sound(h), UntouchedIn(h)
  PROVE  Sound(h)'
  BY DEF UntouchedIn, Sound, Opening, Receiving, Reconnecting, Over

(* _on_close on a gateway that has attempts left. *)
LEMMA OnCloseTyped ==
  ASSUME TypeOK, NEW g \in Gateways, Sound(g), NEW kind \in {"auth", "error"},
         NEW nextTask \in {"none", "sleeping", "connecting", "done"},
         OnClose(g, kind, nextTask)
  PROVE  /\ running'       \in [Gateways -> BOOLEAN]
         /\ handshakeDone' \in [Gateways -> BOOLEAN]
         /\ attempt'       \in [Gateways -> 0 .. MaxAttempts + 1]
         /\ ws'            \in [Gateways -> Sockets]
         /\ reconnectTask' \in [Gateways -> {"none", "sleeping", "connecting", "done"}]
         /\ closers'       \in [Gateways -> SUBSET Callers]
         /\ emitted'       \in Emissions
  <1> USE MaxAttemptsAssumption
      DEF TypeOK, OnClose, ResetHandshake, WillReconnect, Exhausts
  <1>1. attempt' \in [Gateways -> 0 .. MaxAttempts + 1]
    BY DEF Sound
  <1>2. ws' \in [Gateways -> Sockets]
    BY DEF Sockets
  <1>3. \A again \in BOOLEAN : Disconnected(again, kind) \in Losses
    BY DEF Losses
  <1>4. emitted' \in Emissions
    <2> DEFINE l == Disconnected(WillReconnect(g, kind), kind)
    <2>1. l \in Losses
      <3>1. WillReconnect(g, kind) \in BOOLEAN
        OBVIOUS
      <3> QED BY <1>3, <3>1
    <2>2. emitted' \in {<<l>>, <<l, Scheduled>>, <<l, Exhausted>>}
      OBVIOUS
    <2> HIDE DEF l
    <2>3. {<<l>>, <<l, Scheduled>>, <<l, Exhausted>>} \subseteq Emissions
      BY <2>1 DEF Emissions
    <2> QED BY <2>2, <2>3
  <1>5. running' \in [Gateways -> BOOLEAN] /\ handshakeDone' \in [Gateways -> BOOLEAN]
    OBVIOUS
  <1>6. reconnectTask' \in [Gateways -> {"none", "sleeping", "connecting", "done"}]
    OBVIOUS
  <1>7. closers' \in [Gateways -> SUBSET Callers]
    OBVIOUS
  <1> QED BY <1>1, <1>2, <1>4, <1>5, <1>6, <1>7

LEMMA TypesKept ==
  ASSUME TypeOK, NEW g \in Gateways, Sound(g), Step(g)
  PROVE  TypeOK'
  <1> USE MaxAttemptsAssumption DEF TypeOK, flagVars, taskVars
  <1>1. ASSUME Connect(g) PROVE TypeOK'
    BY <1>1 DEF Connect, Emissions
  <1>2. ASSUME NEW c \in Callers, DisconnectBegins(g, c) PROVE TypeOK'
    BY <1>2 DEF DisconnectBegins, ResetHandshake, CancelReconnect, CancelRecv, CloseFrame, Emissions, Sockets
  <1>3. ASSUME NEW c \in Callers, DisconnectEnds(g, c) PROVE TypeOK'
    BY <1>3 DEF DisconnectEnds, Emissions, Sockets
  <1>4. ASSUME NEW c \in Callers, DisconnectCancelled(g, c) PROVE TypeOK'
    BY <1>4 DEF DisconnectCancelled, Emissions
  <1>5. ASSUME OpenSucceeds(g) PROVE TypeOK'
    BY <1>5 DEF OpenSucceeds, SocketOpens, ResetHandshake, Emissions, Sockets
  <1>6. ASSUME OpenFails(g) PROVE TypeOK'
    BY <1>6, OnCloseTyped DEF OpenFails
  <1>7. ASSUME ReconnectWakes(g) PROVE TypeOK'
    BY <1>7 DEF ReconnectWakes, Emissions
  <1>8. ASSUME ReconnectSucceeds(g) PROVE TypeOK'
    BY <1>8 DEF ReconnectSucceeds, SocketOpens, ResetHandshake, Emissions, Sockets
  <1>9. ASSUME ReconnectFails(g) PROVE TypeOK'
    BY <1>9, OnCloseTyped DEF ReconnectFails
  <1>10. ASSUME Hello(g) PROVE TypeOK'
    BY <1>10 DEF Hello, Emissions
  <1>11. ASSUME Refuse(g) PROVE TypeOK'
    BY <1>11 DEF Refuse, CloseFrame, Emissions, Sockets
  <1>12. ASSUME MalformedHello(g) PROVE TypeOK'
    BY <1>12, OnCloseTyped DEF MalformedHello
  <1>13. ASSUME Data(g) PROVE TypeOK'
    BY <1>13 DEF Data, Emissions
  <1>14. ASSUME RecvEnds(g) PROVE TypeOK'
    <2>1. CASE ws[g] = "ok"
      BY <1>14, <2>1 DEF RecvEnds, Emissions
    <2>2. CASE ws[g] # "ok"
      <3>1. ws[g] \in {"auth", "error"} /\ OnClose(g, ws[g], reconnectTask[g])
        BY <1>14, <2>2 DEF RecvEnds, CloseKinds
      <3>2. openTask' = openTask /\ recvTask' \in [Gateways -> {"none", "running", "done"}]
        BY <1>14 DEF RecvEnds
      <3> QED BY <3>1, <3>2, OnCloseTyped
    <2> QED BY <2>1, <2>2
  <1>15. ASSUME NEW kind \in CloseKinds, SocketCloses(g, kind) PROVE TypeOK'
    BY <1>15 DEF SocketCloses, Emissions, Sockets, CloseKinds
  <1> QED BY <1>1, <1>2, <1>3, <1>4, <1>5, <1>6, <1>7, <1>8, <1>9, <1>10,
             <1>11, <1>12, <1>13, <1>14, <1>15 DEF Step

LEMMA SoundKept ==
  ASSUME TypeOK, TypeOK', NEW g \in Gateways, Sound(g), Step(g)
  PROVE  Sound(g)'
  <1> USE MaxAttemptsAssumption
      DEF TypeOK, Sound, Opening, Receiving, Reconnecting, Over, flagVars, taskVars
  <1>1. ASSUME Connect(g) PROVE Sound(g)'
    BY <1>1 DEF Connect
  <1>2. ASSUME NEW c \in Callers, DisconnectBegins(g, c) PROVE Sound(g)'
    BY <1>2 DEF DisconnectBegins, ResetHandshake, CancelReconnect, CancelRecv, CloseFrame
  <1>3. ASSUME NEW c \in Callers, DisconnectEnds(g, c) PROVE Sound(g)'
    BY <1>3 DEF DisconnectEnds
  <1>4. ASSUME NEW c \in Callers, DisconnectCancelled(g, c) PROVE Sound(g)'
    BY <1>4 DEF DisconnectCancelled
  <1>5. ASSUME OpenSucceeds(g) PROVE Sound(g)'
    BY <1>5 DEF OpenSucceeds, SocketOpens, ResetHandshake
  <1>6. ASSUME OpenFails(g) PROVE Sound(g)'
    BY <1>6 DEF OpenFails, OnClose, ResetHandshake, WillReconnect, Exhausts
  <1>7. ASSUME ReconnectWakes(g) PROVE Sound(g)'
    BY <1>7 DEF ReconnectWakes
  <1>8. ASSUME ReconnectSucceeds(g) PROVE Sound(g)'
    BY <1>8 DEF ReconnectSucceeds, SocketOpens, ResetHandshake
  <1>9. ASSUME ReconnectFails(g) PROVE Sound(g)'
    BY <1>9 DEF ReconnectFails, OnClose, ResetHandshake, WillReconnect, Exhausts
  <1>10. ASSUME Hello(g) PROVE Sound(g)'
    BY <1>10 DEF Hello
  <1>11. ASSUME Refuse(g) PROVE Sound(g)'
    BY <1>11 DEF Refuse, CloseFrame
  <1>12. ASSUME MalformedHello(g) PROVE Sound(g)'
    BY <1>12 DEF MalformedHello, OnClose, ResetHandshake, WillReconnect, Exhausts
  <1>13. ASSUME Data(g) PROVE Sound(g)'
    BY <1>13 DEF Data
  <1>14. ASSUME RecvEnds(g) PROVE Sound(g)'
    <2>1. CASE ws[g] = "ok"
      BY <1>14, <2>1 DEF RecvEnds
    <2>2. CASE ws[g] # "ok"
      <3>1. OnClose(g, ws[g], reconnectTask[g])
        BY <1>14, <2>2 DEF RecvEnds
      <3>2. openTask'[g] = openTask[g] /\ recvTask'[g] = "done" /\ recvTask[g] = "running"
        BY <1>14 DEF RecvEnds
      <3>3. PICK kind \in {"auth", "error"} : OnClose(g, kind, reconnectTask[g])
        BY <1>14, <2>2, <3>1 DEF RecvEnds, CloseKinds
      <3>4. ~handshakeDone'[g] /\ ws'[g] = "none" /\ closers'[g] = closers[g]
        BY <3>3 DEF OnClose, ResetHandshake
      <3>5. openTask[g] = "done" /\ ~Reconnecting(g) /\ closers[g] = {}
        BY <3>2
      <3>6. /\ running'[g] => attempt'[g] <= MaxAttempts
            /\ reconnectTask'[g] \in {"sleeping", "connecting"} => running'[g]
        <4>1. running[g] \in BOOLEAN /\ attempt[g] \in Nat
          OBVIOUS
        <4>2. CASE ~WillReconnect(g, kind)
          BY <3>3, <3>5, <4>2 DEF OnClose
        <4>3. CASE WillReconnect(g, kind) /\ Exhausts(g)
          BY <3>3, <3>5, <4>3 DEF OnClose
        <4>4. CASE WillReconnect(g, kind) /\ ~Exhausts(g)
          <5>1. attempt'[g] = attempt[g] + 1 /\ running'[g]
            BY <3>3, <3>5, <4>4 DEF OnClose
          <5> QED BY <4>1, <4>4, <5>1 DEF Exhausts
        <4> QED BY <4>2, <4>3, <4>4
      <3> QED BY <3>2, <3>4, <3>5, <3>6
    <2> QED BY <2>1, <2>2
  <1>15. ASSUME NEW kind \in CloseKinds, SocketCloses(g, kind) PROVE Sound(g)'
    BY <1>15 DEF SocketCloses, CloseKinds
  <1> QED BY <1>1, <1>2, <1>3, <1>4, <1>5, <1>6, <1>7, <1>8, <1>9, <1>10,
             <1>11, <1>12, <1>13, <1>14, <1>15 DEF Step

LEMMA GInvInit == Init => GInv
  BY MaxAttemptsAssumption
  DEF Init, GInv, TypeOK, Sound, Opening, Receiving, Reconnecting, Over, Sockets, Emissions

LEMMA GInvStep == GInv /\ [Next]_gwVars => GInv'
  <1> SUFFICES ASSUME GInv, [Next]_gwVars PROVE GInv'
    OBVIOUS
  <1>1. CASE Next
    <2>1. PICK g \in Gateways : Step(g)
      BY <1>1 DEF Next
    <2>2. TypeOK'
      BY <2>1, TypesKept DEF GInv
    <2>3. ASSUME NEW h \in Gateways PROVE Sound(h)'
      <3>1. CASE h = g
        BY <3>1, <2>1, <2>2, SoundKept DEF GInv
      <3>2. CASE h # g
        BY <3>2, <2>1, OthersUntouched, SoundElsewhere DEF GInv
      <3> QED BY <3>1, <3>2
    <2> QED BY <2>2, <2>3 DEF GInv
  <1>2. CASE UNCHANGED gwVars
    BY <1>2 DEF gwVars, GInv, TypeOK, Sound, Opening, Receiving, Reconnecting, Over
  <1> QED BY <1>1, <1>2

(* The inductive invariant: of each gateway, flags, socket, tasks and the
   callers of disconnect() go together as the code between two awaits leaves
   them. *)
THEOREM GatewayInvariant == Spec => []GInv
  BY GInvInit, GInvStep, PTL DEF Spec

(* The flags, the counter, the socket and the tasks of every gateway keep
   their types; in particular the counter never exceeds max_attempts + 1. *)
THEOREM GatewayTyped == Spec => []TypeOK
  <1>1. GInv => TypeOK
    BY DEF GInv
  <1> QED BY <1>1, GatewayInvariant, PTL

(* A gateway never has two attempts, or an attempt and a receive loop, and
   never completes an attempt while it holds a socket. *)
THEOREM NeverTwoConnectors == Spec => []OneConnector
  <1>1. GInv => OneConnector
    BY DEF GInv, Sound, OneConnector
  <1> QED BY <1>1, GatewayInvariant, PTL

(* A gateway that has done the handshake holds a socket. *)
THEOREM GreetingNeedsSocket == Spec => []GreetedHasSocket
  <1>1. GInv => GreetedHasSocket
    BY DEF GInv, Sound, GreetedHasSocket
  <1> QED BY <1>1, GatewayInvariant, PTL

(* The counter of attempts falls only in the step that greets.  Connect sets it
   to zero too, but on a gateway that has not counted yet. *)
THEOREM CounterOnlyGrows == Spec => BackoffGrows
  <1>1. ASSUME GInv, NEW g \in Gateways, Step(g), attempt'[g] < attempt[g]
        PROVE  handshakeDone'[g]
    <2> USE <1>1 DEF GInv, TypeOK, Sound, flagVars, taskVars
    <2>1. ASSUME Connect(g) PROVE FALSE
      BY <2>1 DEF Connect
    <2>2. ASSUME NEW c \in Callers,
                 DisconnectBegins(g, c) \/ DisconnectEnds(g, c) \/ DisconnectCancelled(g, c)
          PROVE  FALSE
      BY <2>2 DEF DisconnectBegins, DisconnectEnds, DisconnectCancelled
    <2>3. ASSUME OpenSucceeds(g) \/ ReconnectSucceeds(g) PROVE FALSE
      BY <2>3 DEF OpenSucceeds, ReconnectSucceeds, SocketOpens
    <2>4. ASSUME NEW kind, NEW nextTask, OnClose(g, kind, nextTask) PROVE FALSE
      BY <2>4 DEF OnClose
    <2>5. ASSUME OpenFails(g) \/ ReconnectFails(g) \/ MalformedHello(g) PROVE FALSE
      BY <2>4, <2>5 DEF OpenFails, ReconnectFails, MalformedHello
    <2>6. ASSUME ReconnectWakes(g) \/ Refuse(g) \/ Data(g) PROVE FALSE
      BY <2>6 DEF ReconnectWakes, Refuse, Data
    <2>7. ASSUME RecvEnds(g) PROVE FALSE
      BY <2>4, <2>7 DEF RecvEnds
    <2>8. ASSUME NEW kind \in CloseKinds, SocketCloses(g, kind) PROVE FALSE
      BY <2>8 DEF SocketCloses
    <2>9. ASSUME Hello(g) PROVE handshakeDone'[g]
      BY <2>9 DEF Hello
    <2> QED BY <2>1, <2>2, <2>3, <2>5, <2>6, <2>7, <2>8, <2>9 DEF Step
  <1>2. GInv /\ [Next]_gwVars =>
          [\A g \in Gateways : attempt'[g] < attempt[g] => handshakeDone'[g]]_gwVars
    <2> SUFFICES ASSUME GInv, Next, NEW g \in Gateways, attempt'[g] < attempt[g]
                 PROVE  handshakeDone'[g]
      OBVIOUS
    <2>1. PICK h \in Gateways : Step(h)
      BY DEF Next
    <2>2. CASE h = g
      BY <1>1, <2>1, <2>2
    <2>3. CASE h # g
      <3>1. attempt'[g] = attempt[g]
        BY <2>1, <2>3, OthersUntouched DEF GInv, UntouchedIn
      <3> QED BY <3>1 DEF GInv, TypeOK
    <2> QED BY <2>2, <2>3
  <1> QED BY <1>2, GatewayInvariant, PTL DEF Spec, BackoffGrows
-----------------------------------------------------------------------------
(* Gateway implements GatewaySession: what a step does to the phase of its
   gateway, and then which step of GatewaySession that is. *)

LEMMA PhaseUntouched ==
  ASSUME NEW h \in Gateways, UntouchedIn(h)
  PROVE  Phase(h)' = Phase(h)
  BY DEF UntouchedIn, Phase, Over, Receiving, Reconnecting

(* The phases of the other gateways stay as they are. *)
LEMMA PhaseMoves ==
  ASSUME TypeOK, NEW g \in Gateways, Step(g), NEW p, Phase(g)' = p
  PROVE  Session!Moves(g, p)
  <1>1. ASSUME NEW h \in Gateways, h # g PROVE Phase(h)' = Phase(h)
    BY <1>1, OthersUntouched, PhaseUntouched
  <1> QED BY <1>1 DEF Session!Moves

LEMMA PhaseStays ==
  ASSUME TypeOK, NEW g \in Gateways, Step(g), Phase(g)' = Phase(g)
  PROVE  UNCHANGED [h \in Gateways |-> Phase(h)]
  <1>1. ASSUME NEW h \in Gateways PROVE Phase(h)' = Phase(h)
    BY OthersUntouched, PhaseUntouched
  <1> QED BY <1>1

(* The delay that cannot be computed is never the first after a greeting. *)
LEMMA GreetedHasDelay ==
  ASSUME NEW g \in Gateways, Sound(g), Overflows(g), Phase(g) \in {"down", "up"}
  PROVE  Phase(g) = "down"
  BY DelayedAttemptsAssumption DEF Sound, Overflows, Phase

(* Whatever closes a connection ends the gateway or leaves it down, and says
   so; an attempt of the reconnect task and one whose delay cannot be computed
   schedule no other. *)
LEMMA OnCloseSpeaks ==
  ASSUME TypeOK, NEW g \in Gateways, Sound(g), Step(g),
         NEW kind \in {"auth", "error"}, NEW nextTask, OnClose(g, kind, nextTask),
         nextTask \notin {"sleeping", "connecting"},
         Phase(g) \in {"down", "up"},
         Reconnecting(g) => Phase(g) = "down",
         openTask'[g] = "done", recvTask'[g] # "running"
  PROVE  Session!Lose(g) \/ Session!End(g)
  <1> DEFINE again == WillReconnect(g, kind)
  <1>1. running[g] \in BOOLEAN /\ again \in BOOLEAN
    BY DEF TypeOK, WillReconnect
  <1>2. ~handshakeDone'[g]
    BY DEF TypeOK, OnClose, ResetHandshake
  <1>3. again => kind # "auth"
    BY DEF WillReconnect
  <1>4. CASE ~again
    <2>1. ~running'[g] /\ reconnectTask'[g] = nextTask /\ emitted' = <<Disconnected(FALSE, kind)>>
      BY <1>1, <1>4 DEF TypeOK, OnClose
    <2>2. Phase(g)' = "over"
      BY <2>1 DEF Phase, Over, Receiving, Reconnecting
    <2>3. emitted' = <<Session!Loss(FALSE, kind = "auth")>>
      BY <2>1 DEF Disconnected, Session!Loss
    <2>4. Session!Moves(g, "over")
      BY <2>2, PhaseMoves
    <2> QED BY <2>3, <2>4 DEF Session!End
  <1>5. CASE again /\ (Reconnecting(g) \/ (~Exhausts(g) /\ Overflows(g)))
    <2>1. running'[g] /\ emitted' = <<Disconnected(TRUE, kind)>>
      BY <1>1, <1>5 DEF TypeOK, OnClose
    <2>0. Phase(g) = "down"
      BY <1>5, GreetedHasDelay
    <2>2. Phase(g)' = "down"
      BY <1>2, <2>1 DEF Phase, Over
    <2>3. emitted' = <<Session!Loss(TRUE, FALSE)>>
      BY <1>3, <1>5, <2>1 DEF Disconnected, Session!Loss
    <2>4. Session!Moves(g, "down")
      BY <2>2, PhaseMoves
    <2> QED BY <2>0, <2>3, <2>4 DEF Session!Lose
  <1>6. CASE again /\ ~Reconnecting(g) /\ Exhausts(g)
    <2>1. /\ ~running'[g] /\ reconnectTask'[g] = nextTask
          /\ emitted' = <<Disconnected(TRUE, kind), Exhausted>>
      BY <1>1, <1>6 DEF TypeOK, OnClose
    <2>2. Phase(g)' = "over"
      BY <2>1 DEF Phase, Over, Receiving, Reconnecting
    <2>3. emitted' = <<Session!Loss(TRUE, FALSE), Session!Event("exhausted")>>
      BY <1>3, <1>6, <2>1 DEF Disconnected, Exhausted, Session!Loss, Session!Event
    <2>4. Session!Moves(g, "over")
      BY <2>2, PhaseMoves
    <2> QED BY <2>3, <2>4 DEF Session!End
  <1>7. CASE again /\ ~Reconnecting(g) /\ ~Exhausts(g) /\ ~Overflows(g)
    <2>1. running'[g] /\ emitted' = <<Disconnected(TRUE, kind), Scheduled>>
      BY <1>1, <1>7 DEF TypeOK, OnClose
    <2>2. Phase(g)' = "down"
      BY <1>2, <2>1 DEF Phase, Over
    <2>3. emitted' = <<Session!Loss(TRUE, FALSE), Session!Event("reconnect_scheduled")>>
      BY <1>3, <1>7, <2>1 DEF Disconnected, Scheduled, Session!Loss, Session!Event
    <2>4. Session!Moves(g, "down")
      BY <2>2, PhaseMoves
    <2> QED BY <2>3, <2>4 DEF Session!Lose
  <1> QED BY <1>4, <1>5, <1>6, <1>7

LEMMA StepSpeaks ==
  ASSUME TypeOK, TypeOK', NEW g \in Gateways, Sound(g), Step(g)
  PROVE  Session!Next
  <1> USE DEF Phase, Over, Receiving, Reconnecting
  <1> DEFINE Speaks == \/ Session!Start(g) \/ Session!Greet(g) \/ Session!Deliver(g)
                       \/ Session!Refuse(g) \/ Session!Lose(g) \/ Session!End(g)
                       \/ Session!Stop(g)
  <1>a. ASSUME Phase(g)' = Phase(g), emitted' = << >> PROVE Session!Quiet
    BY <1>a, PhaseStays DEF Session!Quiet
  <1>1. ASSUME Connect(g) PROVE Session!Start(g)
    <2>1. Phase(g) = "idle" /\ Phase(g)' = "down" /\ emitted' = << >>
      BY <1>1 DEF Connect, TypeOK, Sound
    <2> QED BY <2>1, PhaseMoves DEF Session!Start
  <1>2. ASSUME NEW c \in Callers, DisconnectBegins(g, c) PROVE Session!Stop(g) \/ Session!Quiet
    <2>1. emitted' = << >> /\ openTask'[g] = openTask[g] /\ openTask[g] # "none"
      BY <1>2 DEF DisconnectBegins
    <2>2. ~running'[g] /\ ~handshakeDone'[g] /\ recvTask'[g] # "running"
          /\ reconnectTask'[g] \notin {"sleeping", "connecting"}
      BY <1>2 DEF DisconnectBegins, TypeOK, ResetHandshake, CancelRecv, CancelReconnect
    <2>3. CASE openTask[g] = "connecting"
      <3>1. Phase(g) = "down" /\ Phase(g)' = "down"
        BY <2>1, <2>2, <2>3 DEF TypeOK, Sound, Opening
      <3> QED BY <2>1, <3>1, <1>a
    <2>4. CASE openTask[g] = "done"
      <3>1. Phase(g)' = "over"
        BY <2>1, <2>2, <2>4
      <3>2. CASE Phase(g) = "over"
        BY <2>1, <3>1, <3>2, <1>a
      <3>3. CASE Phase(g) # "over"
        <4>1. Phase(g) \in {"down", "up"}
          BY <2>1, <3>3
        <4>2. Session!Moves(g, "over")
          BY <3>1, PhaseMoves
        <4> QED BY <2>1, <4>1, <4>2 DEF Session!Stop
      <3> QED BY <3>2, <3>3
    <2> QED BY <2>1, <2>3, <2>4 DEF TypeOK
  <1>3. ASSUME NEW c \in Callers, DisconnectEnds(g, c) \/ DisconnectCancelled(g, c) PROVE Session!Quiet
    BY <1>3, <1>a DEF DisconnectEnds, DisconnectCancelled, flagVars, taskVars
  <1>4. ASSUME OpenSucceeds(g) PROVE Session!Quiet
    <2>1. Phase(g) = "down" /\ Phase(g)' = "down" /\ emitted' = << >>
      BY <1>4 DEF OpenSucceeds, SocketOpens, ResetHandshake, TypeOK, Sound, Opening
    <2> QED BY <2>1, <1>a
  <1>5. ASSUME OpenFails(g) PROVE Session!Lose(g) \/ Session!End(g)
    <2>1. OnClose(g, "error", reconnectTask[g]) /\ Phase(g) = "down" /\ ~Reconnecting(g)
          /\ openTask'[g] = "done" /\ recvTask'[g] # "running"
      BY <1>5 DEF OpenFails, TypeOK, Sound, Opening
    <2> QED BY <2>1, OnCloseSpeaks
  <1>6. ASSUME ReconnectWakes(g) PROVE Session!Quiet
    <2>1. Phase(g) = "down" /\ Phase(g)' = "down" /\ emitted' = << >>
      BY <1>6 DEF ReconnectWakes, flagVars, TypeOK, Sound, Opening
    <2> QED BY <2>1, <1>a
  <1>7. ASSUME ReconnectSucceeds(g) PROVE Session!Quiet
    <2>1. Phase(g) = "down" /\ Phase(g)' = "down" /\ emitted' = << >>
      BY <1>7 DEF ReconnectSucceeds, SocketOpens, ResetHandshake, TypeOK, Sound, Opening
    <2> QED BY <2>1, <1>a
  <1>8. ASSUME ReconnectFails(g) PROVE Session!Lose(g) \/ Session!End(g)
    <2>1. OnClose(g, "error", "done") /\ Phase(g) = "down"
          /\ openTask'[g] = "done" /\ recvTask'[g] # "running"
      BY <1>8 DEF ReconnectFails, TypeOK, Sound, Opening
    <2> QED BY <2>1, OnCloseSpeaks
  <1>9. ASSUME Hello(g) PROVE Session!Greet(g)
    <2>1. /\ Phase(g) = "down" /\ Phase(g)' = "up"
          /\ emitted' \in {<<Connected>>, <<Warning, Connected>>}
      BY <1>9 DEF Hello, taskVars, TypeOK, Sound, Opening
    <2>2. Session!Moves(g, "up")
      BY <2>1, PhaseMoves
    <2> QED BY <2>1, <2>2 DEF Session!Greet, Session!Event, Connected, Warning
  <1>10. ASSUME Refuse(g) PROVE Session!Refuse(g)
    <2>1. Phase(g) = "down" /\ Phase(g)' = Phase(g) /\ emitted' = <<Incompatible>>
      BY <1>10 DEF Refuse, taskVars, TypeOK, Sound, Opening
    <2>2. UNCHANGED [h \in Gateways |-> Phase(h)]
      BY <2>1, PhaseStays
    <2> QED BY <2>1, <2>2 DEF Session!Refuse, Session!Event, Incompatible
  <1>11. ASSUME MalformedHello(g) PROVE Session!Lose(g) \/ Session!End(g)
    <2>1. OnClose(g, "error", reconnectTask[g]) /\ Phase(g) = "down" /\ ~Reconnecting(g)
          /\ openTask'[g] = "done" /\ recvTask'[g] # "running"
      BY <1>11 DEF MalformedHello, TypeOK, Sound, Opening
    <2> QED BY <2>1, OnCloseSpeaks
  <1>12. ASSUME Data(g) PROVE Session!Deliver(g)
    <2>1. Phase(g) = "up" /\ Phase(g)' = Phase(g) /\ emitted' = <<DataEvents>>
      BY <1>12 DEF Data, flagVars, taskVars, TypeOK, Sound, Opening
    <2>2. UNCHANGED [h \in Gateways |-> Phase(h)]
      BY <2>1, PhaseStays
    <2> QED BY <2>1, <2>2 DEF Session!Deliver, Session!Event, DataEvents
  <1>13. ASSUME RecvEnds(g) PROVE Session!Next
    <2>1. Phase(g) \in {"down", "up"} /\ ~Reconnecting(g)
          /\ openTask'[g] = "done" /\ recvTask'[g] # "running"
      BY <1>13 DEF RecvEnds, TypeOK, Sound, Opening
    <2>2. CASE ws[g] = "ok"
      <3>1. emitted' = << >> /\ running'[g] = running[g] /\ handshakeDone'[g] = handshakeDone[g]
            /\ reconnectTask'[g] = reconnectTask[g] /\ openTask[g] = "done"
        BY <1>13, <2>1, <2>2 DEF RecvEnds, flagVars
      <3>2. CASE running[g]
        <4>1. Phase(g)' = Phase(g)
          BY <2>1, <3>1, <3>2
        <4> QED BY <3>1, <4>1, <1>a DEF Session!Next
      <3>3. CASE ~running[g]
        <4>1. Phase(g)' = "over"
          BY <2>1, <3>1, <3>3
        <4>2. Session!Moves(g, "over")
          BY <4>1, PhaseMoves
        <4>3. Session!Stop(g)
          BY <2>1, <3>1, <4>2 DEF Session!Stop
        <4> QED BY <4>3 DEF Session!Next
      <3> QED BY <3>2, <3>3
    <2>3. CASE ws[g] # "ok"
      <3>1. PICK kind \in {"auth", "error"} : OnClose(g, kind, reconnectTask[g])
        BY <1>13, <2>3 DEF RecvEnds, CloseKinds
      <3>2. Session!Lose(g) \/ Session!End(g)
        BY <2>1, <3>1, OnCloseSpeaks
      <3> QED BY <3>2 DEF Session!Next
    <2> QED BY <2>2, <2>3
  <1>14. ASSUME NEW kind \in CloseKinds, SocketCloses(g, kind) PROVE Session!Quiet
    BY <1>14, <1>a DEF SocketCloses, flagVars, taskVars
  <1> QED BY <1>1, <1>2, <1>3, <1>4, <1>5, <1>6, <1>7, <1>8, <1>9, <1>10,
             <1>11, <1>12, <1>13, <1>14 DEF Step, Session!Next

(* A gateway emits its events in the order GatewaySession promises: data only
   in a session, no second greeting without a loss, and nothing after the end. *)
THEOREM GatewayImplementsSession == Spec => SessionSpec
  <1>1. Init => Session!Init
    BY DEF Init, Session!Init, Phase
  <1>2. GInv /\ GInv' /\ [Next]_gwVars =>
          [Session!Next]_<<[g \in Gateways |-> Phase(g)], emitted>>
    <2> SUFFICES ASSUME GInv, GInv', [Next]_gwVars
                 PROVE  [Session!Next]_<<[g \in Gateways |-> Phase(g)], emitted>>
      OBVIOUS
    <2>1. CASE Next
      <3>1. PICK g \in Gateways : Step(g)
        BY <2>1 DEF Next
      <3> QED BY <3>1, StepSpeaks DEF GInv
    <2>2. CASE UNCHANGED gwVars
      BY <2>2 DEF gwVars, Phase, Over, Receiving, Reconnecting
    <2> QED BY <2>1, <2>2
  <1> QED BY <1>1, <1>2, GatewayInvariant, PTL DEF Spec, SessionSpec, Session!Spec
=============================================================================
