------------------------------- MODULE Gateway -------------------------------
(***************************************************************************)
(* GatewayClient (src/realtimeodds/_gateway/client.py): opens the socket,  *)
(* greets, hands frames on, and schedules reconnects.  One asyncio loop    *)
(* runs everything, so an action is the code between two awaits of one     *)
(* task; the interleavings are those of the tasks of a gateway (the        *)
(* initial open, the receive loop, the reconnect timer) with the callers   *)
(* of disconnect() and with what the peer does to the socket.              *)
(*                                                                         *)
(* The state is kept per gateway because a Client makes a new gateway for  *)
(* every connect() that is not joined to another, and an old one may still *)
(* be alive by then.  `emitted` holds the events the last step emitted: the*)
(* emitter calls its listeners in that very step.                          *)
(*                                                                         *)
(* The socket itself is the websockets library, modelled from its use.     *)
(***************************************************************************)
EXTENDS Integers, Sequences

CONSTANTS
  Gateways,      \* every GatewayClient the program may create
  Callers,       \* the coroutines that may call disconnect()
  MaxAttempts,   \* ReconnectPolicy.max_attempts
  DelayedAttempts   \* the attempts compute_backoff_delay_ms has a delay for

ASSUME MaxAttemptsAssumption == MaxAttempts \in Nat

(* `factor ** (attempt - 1)` is a float power, which raises OverflowError once
   it leaves the range of floats: with the default factor at attempt 1025.  At
   the first attempt it is 1. *)
ASSUME DelayedAttemptsAssumption == DelayedAttempts \in Nat \ {0}

VARIABLES
  running, handshakeDone, attempt,     \* the flags and the counter
  ws,                                  \* the socket
  openTask, recvTask, reconnectTask,   \* the three tasks
  closers,                             \* callers suspended in ws.close()
  emitted                              \* the events of the last step

flagVars == <<running, handshakeDone, attempt>>
taskVars == <<openTask, recvTask, reconnectTask>>
gwVars   == <<running, handshakeDone, attempt, ws,
              openTask, recvTask, reconnectTask, closers, emitted>>
-----------------------------------------------------------------------------
(* How a socket ends.  "ok": codes 1000, 1001 and no code, after which
   `async for` over the socket simply ends.  "auth": codes 4001, 4002, 4003.
   "error": any other code, or no close frame at all. *)
CloseKinds == {"ok", "auth", "error"}

(* "closing": a close frame of ours is sent and the answer has not come. *)
Sockets == {"none", "open", "closing"} \cup CloseKinds

Connected    == [event |-> "connected"]
Warning      == [event |-> "warning"]
Scheduled    == [event |-> "reconnect_scheduled"]
Exhausted    == [event |-> "exhausted"]
Incompatible == [event |-> "incompatible"]
DataEvents   == [event |-> "data"]     \* all that one frame makes the stores emit
Disconnected(again, kind) ==
  [event |-> "disconnected", willReconnect |-> again, authCode |-> kind = "auth"]

Losses == {Disconnected(again, kind) : again \in BOOLEAN, kind \in {"auth", "error"}}

Emissions == {<< >>, <<Connected>>, <<Warning, Connected>>, <<Incompatible>>, <<DataEvents>>}
               \cup {<<l>> : l \in Losses}
               \cup {<<l, e>> : l \in Losses, e \in {Scheduled, Exhausted}}

Reconnecting(g) == reconnectTask[g] \in {"sleeping", "connecting"}

Init ==
  /\ running       = [g \in Gateways |-> FALSE]
  /\ handshakeDone = [g \in Gateways |-> FALSE]
  /\ attempt       = [g \in Gateways |-> 0]
  /\ ws            = [g \in Gateways |-> "none"]
  /\ openTask      = [g \in Gateways |-> "none"]
  /\ recvTask      = [g \in Gateways |-> "none"]
  /\ reconnectTask = [g \in Gateways |-> "none"]
  /\ closers       = [g \in Gateways |-> {}]
  /\ emitted       = << >>
-----------------------------------------------------------------------------
(* What several handlers do.  As in OddsBook, a -Mutant form is a plausible
   slip that some property must notice; nothing refers to it. *)
ResetHandshakeMutant(g) == UNCHANGED handshakeDone
ResetHandshake(g)       == handshakeDone' = [handshakeDone EXCEPT ![g] = FALSE]

CloseFrameMutant(g) == UNCHANGED ws
CloseFrame(g)       == ws' = [ws EXCEPT ![g] = IF @ = "open" THEN "closing" ELSE @]

CancelRecvMutant(g) == UNCHANGED recvTask
CancelRecv(g)       == recvTask' = [recvTask EXCEPT ![g] = IF @ = "running" THEN "done" ELSE @]

CancelReconnectMutant(g) == UNCHANGED reconnectTask
CancelReconnect(g) ==
  reconnectTask' = [reconnectTask EXCEPT ![g] = IF Reconnecting(g) THEN "done" ELSE @]

(* will_reconnect: the auth codes clear _running before it is read. *)
WillReconnectMutant(g, kind) == running[g]
WillReconnect(g, kind)       == running[g] /\ kind # "auth"

(* The incremented counter exceeds the maximum. *)
ExhaustsMutant(g) == attempt[g] > MaxAttempts
Exhausts(g)       == attempt[g] + 1 > MaxAttempts

\* compute_backoff_delay_ms raises.
Overflows(g) == attempt[g] + 1 > DelayedAttempts

(* _on_close and the _schedule_reconnect it may call.  The task that runs them
   is still alive meanwhile: when that is the reconnect task itself, the
   schedule finds it not done and returns.  A delay that cannot be computed
   ends the task, with _running still set and nothing scheduled.  `nextTask` is
   what becomes of the reconnect task when nothing is scheduled. *)
OnClose(g, kind, nextTask) ==
  LET again     == WillReconnect(g, kind)
      schedules == again /\ ~Reconnecting(g)
      exhausts  == schedules /\ Exhausts(g)
      delays    == schedules /\ ~Exhausts(g) /\ ~Overflows(g)
  IN  /\ running'       = [running EXCEPT ![g] = again /\ ~exhausts]
      /\ ResetHandshake(g)
      /\ ws'            = [ws EXCEPT ![g] = "none"]
      /\ attempt'       = [attempt EXCEPT ![g] = IF schedules THEN @ + 1 ELSE @]
      /\ reconnectTask' = [reconnectTask EXCEPT ![g] =
                             IF delays THEN "sleeping" ELSE nextTask]
      /\ emitted'       = IF exhausts    THEN <<Disconnected(again, kind), Exhausted>>
                          ELSE IF delays THEN <<Disconnected(again, kind), Scheduled>>
                          ELSE <<Disconnected(again, kind)>>
      /\ UNCHANGED closers

(* GatewayClient.connect(); a Client calls it once, on a gateway it just made. *)
Connect(g) ==
  /\ openTask[g] = "none"
  /\ running'  = [running EXCEPT ![g] = TRUE]
  /\ attempt'  = [attempt EXCEPT ![g] = 0]
  /\ openTask' = [openTask EXCEPT ![g] = "connecting"]
  /\ emitted'  = << >>
  /\ UNCHANGED <<handshakeDone, ws, recvTask, reconnectTask, closers>>

(* disconnect() up to its await.  The cancelled tasks never run again.  The
   initial open is not cancelled.  Without a socket there is nothing to await.
   A Client only ever holds gateways it has connected. *)
DisconnectBegins(g, c) ==
  /\ openTask[g] # "none"
  /\ running' = [running EXCEPT ![g] = FALSE]
  /\ ResetHandshake(g)
  /\ CancelReconnect(g)
  /\ CancelRecv(g)
  /\ CloseFrame(g)
  /\ closers' = [closers EXCEPT ![g] = IF ws[g] = "none" THEN @ ELSE @ \cup {c}]
  /\ emitted' = << >>
  /\ UNCHANGED <<attempt, openTask>>

(* The rest of disconnect(), once ws.close() has returned. *)
DisconnectEnds(g, c) ==
  /\ c \in closers[g]
  /\ ws[g] \notin {"open", "closing"}
  /\ ws'      = [ws EXCEPT ![g] = "none"]
  /\ closers' = [closers EXCEPT ![g] = @ \ {c}]
  /\ emitted' = << >>
  /\ UNCHANGED <<flagVars, taskVars>>

(* The caller of disconnect() is cancelled while it awaits ws.close(): the
   CancelledError is no Exception, so the assignment after it never runs. *)
DisconnectCancelled(g, c) ==
  /\ c \in closers[g]
  /\ closers' = [closers EXCEPT ![g] = @ \ {c}]
  /\ emitted' = << >>
  /\ UNCHANGED <<flagVars, taskVars, ws>>
-----------------------------------------------------------------------------
SocketOpensMutant(g) ==                 \* the counter starts anew before a greeting
  /\ ws'       = [ws EXCEPT ![g] = "open"]
  /\ ResetHandshake(g)
  /\ attempt'  = [attempt EXCEPT ![g] = 0]
  /\ recvTask' = [recvTask EXCEPT ![g] = "running"]
  /\ emitted'  = << >>
  /\ UNCHANGED <<running, closers>>

(* _open_socket.  Nothing after its await asks whether the gateway is still
   running. *)
SocketOpens(g) ==
  /\ ws'       = [ws EXCEPT ![g] = "open"]
  /\ ResetHandshake(g)
  /\ recvTask' = [recvTask EXCEPT ![g] = "running"]
  /\ emitted'  = << >>
  /\ UNCHANGED <<running, attempt, closers>>

OpenSucceeds(g) ==
  /\ openTask[g] = "connecting"
  /\ SocketOpens(g)
  /\ openTask' = [openTask EXCEPT ![g] = "done"]
  /\ UNCHANGED reconnectTask

OpenFails(g) ==
  /\ openTask[g] = "connecting"
  /\ OnClose(g, "error", reconnectTask[g])
  /\ openTask' = [openTask EXCEPT ![g] = "done"]
  /\ UNCHANGED recvTask

(* _reconnect_after. *)
ReconnectWakes(g) ==
  /\ reconnectTask[g] = "sleeping"
  /\ reconnectTask' = [reconnectTask EXCEPT ![g] =
                         IF running[g] THEN "connecting" ELSE "done"]
  /\ emitted' = << >>
  /\ UNCHANGED <<flagVars, ws, openTask, recvTask, closers>>

ReconnectSucceeds(g) ==
  /\ reconnectTask[g] = "connecting"
  /\ SocketOpens(g)
  /\ reconnectTask' = [reconnectTask EXCEPT ![g] = "done"]
  /\ UNCHANGED openTask

ReconnectFails(g) ==
  /\ reconnectTask[g] = "connecting"
  /\ OnClose(g, "error", "done")
  /\ UNCHANGED <<openTask, recvTask>>
-----------------------------------------------------------------------------
(* _recv_loop: the frames.  A frame may still be in the buffer of a socket the
   peer has closed. *)
Receiving(g) == recvTask[g] = "running"

\* A hello with a version this SDK accepts, or accepts with a warning (see
\* Protocol); `_running` is not looked at.
Hello(g) ==
  /\ Receiving(g) /\ ~handshakeDone[g]
  /\ handshakeDone' = [handshakeDone EXCEPT ![g] = TRUE]
  /\ attempt'       = [attempt EXCEPT ![g] = 0]
  /\ emitted' \in {<<Connected>>, <<Warning, Connected>>}
  /\ UNCHANGED <<running, ws, taskVars, closers>>

\* Any other first frame, or a version it refuses.  The loop goes on reading.
Refuse(g) ==
  /\ Receiving(g) /\ ~handshakeDone[g]
  /\ running' = [running EXCEPT ![g] = FALSE]
  /\ CloseFrame(g)
  /\ emitted' = <<Incompatible>>
  /\ UNCHANGED <<handshakeDone, attempt, taskVars, closers>>

\* A hello whose data is no object raises out of _handle_raw and ends the loop.
MalformedHello(g) ==
  /\ Receiving(g) /\ ~handshakeDone[g]
  /\ OnClose(g, "error", reconnectTask[g])
  /\ recvTask' = [recvTask EXCEPT ![g] = "done"]
  /\ UNCHANGED openTask

Data(g) ==
  /\ Receiving(g) /\ handshakeDone[g]
  /\ emitted' = <<DataEvents>>
  /\ UNCHANGED <<flagVars, ws, taskVars, closers>>

\* The loop meets the end of its socket.
RecvEnds(g) ==
  /\ Receiving(g) /\ ws[g] \in CloseKinds
  /\ recvTask' = [recvTask EXCEPT ![g] = "done"]
  /\ UNCHANGED openTask
  /\ \/ /\ ws[g] = "ok"
        /\ emitted' = << >>
        /\ UNCHANGED <<flagVars, ws, reconnectTask, closers>>
     \/ /\ ws[g] # "ok"
        /\ OnClose(g, ws[g], reconnectTask[g])

(* The peer, the network or the library ends the socket.  After a close frame
   of ours the end is never a clean one for the reader: the code we sent is
   4000, or the reader was cancelled. *)
SocketCloses(g, kind) ==
  /\ \/ ws[g] = "open"
     \/ ws[g] = "closing" /\ kind # "ok"
  /\ ws'      = [ws EXCEPT ![g] = kind]
  /\ emitted' = << >>
  /\ UNCHANGED <<flagVars, taskVars, closers>>
-----------------------------------------------------------------------------
Step(g) ==
  \/ Connect(g)
  \/ \E c \in Callers : DisconnectBegins(g, c) \/ DisconnectEnds(g, c) \/ DisconnectCancelled(g, c)
  \/ OpenSucceeds(g) \/ OpenFails(g)
  \/ ReconnectWakes(g) \/ ReconnectSucceeds(g) \/ ReconnectFails(g)
  \/ Hello(g) \/ Refuse(g) \/ MalformedHello(g) \/ Data(g) \/ RecvEnds(g)
  \/ \E kind \in CloseKinds : SocketCloses(g, kind)

Next == \E g \in Gateways : Step(g)

Spec == Init /\ [][Next]_gwVars

(* What ends of itself: a connection attempt (the library's open_timeout and
   the TCP stack see to it), the timer, the loop over a closed socket, the
   closing handshake (close_timeout).  Of the server only that it greets or
   hangs up: the code has no timeout on the greeting. *)
OpenEnds(g)      == OpenSucceeds(g) \/ OpenFails(g)
ReconnectEnds(g) == ReconnectSucceeds(g) \/ ReconnectFails(g)
ClosingEnds(g)   == ws[g] = "closing" /\ \E kind \in CloseKinds : SocketCloses(g, kind)
Greeting(g)      == \/ ws[g] = "open" /\ (Hello(g) \/ Refuse(g) \/ MalformedHello(g))
                    \/ /\ ws[g] = "open" /\ Receiving(g) /\ ~handshakeDone[g]
                       /\ \E kind \in CloseKinds : SocketCloses(g, kind)
-----------------------------------------------------------------------------
TypeOK ==
  /\ running       \in [Gateways -> BOOLEAN]
  /\ handshakeDone \in [Gateways -> BOOLEAN]
  /\ attempt       \in [Gateways -> 0 .. MaxAttempts + 1]
  /\ ws            \in [Gateways -> Sockets]
  /\ openTask      \in [Gateways -> {"none", "connecting", "done"}]
  /\ recvTask      \in [Gateways -> {"none", "running", "done"}]
  /\ reconnectTask \in [Gateways -> {"none", "sleeping", "connecting", "done"}]
  /\ closers       \in [Gateways -> SUBSET Callers]
  /\ emitted       \in Emissions

Opening(g) == openTask[g] = "connecting" \/ Reconnecting(g)

(* Whatever drops, refusals, reconnects and disconnect() calls do, a gateway
   never has two connection attempts or an attempt and a receive loop going at
   once, and no attempt can complete while the gateway still holds a socket:
   _open_socket never overwrites a socket that nobody else would close, and no
   two loops feed the same stores. *)
OneConnector ==
  \A g \in Gateways :
    /\ ~ (openTask[g] = "connecting" /\ Reconnecting(g))
    /\ Opening(g) => ~Receiving(g) /\ ws[g] = "none"
    /\ Receiving(g) => ws[g] # "none"

(* A gateway that has done the handshake holds the socket it did it on. *)
GreetedHasSocket == \A g \in Gateways : handshakeDone[g] => ws[g] # "none"

(* The counter of attempts, and with it the delay between them, starts anew
   only with a greeting: a server that takes the socket and hangs up before it
   greets is met with ever longer delays. *)
BackoffGrows ==
  [][\A g \in Gateways : attempt'[g] < attempt[g] => handshakeDone'[g]]_gwVars

(* A gateway that will never do anything again of its own accord. *)
Over(g) == /\ openTask[g] = "done" /\ ~running[g]
           /\ ~Receiving(g) /\ ~Reconnecting(g)

(* What the listeners of a gateway rely on. *)
Phase(g) == IF openTask[g] = "none"      THEN "idle"
            ELSE IF Over(g)              THEN "over"
            ELSE IF handshakeDone[g]     THEN "up"
            ELSE "down"

(* The events of a gateway come in the order GatewaySession promises: data
   only between a `connected` and the next `disconnected`, never two
   `connected` without a loss between them, and nothing after a final
   `disconnected`, after `exhausted` or after a disconnect() that found the
   socket open. *)
Session == INSTANCE GatewaySession WITH phase <- [g \in Gateways |-> Phase(g)]
SessionSpec == Session!Spec

(* Running, with no task left to run: the next attempt was never scheduled, its
   delay could not be computed, or the loop ended on a clean close. *)
Stalled(g) == running[g] /\ ~Opening(g) /\ ~Receiving(g) /\ openTask[g] = "done"

(* Once told to connect, and whenever it has lost its session, a gateway
   reaches the server or gives up for good, for it has only so many attempts;
   unless it stalls. *)
DownIsLeft ==
  \A g \in Gateways : Phase(g) = "down" ~> (Phase(g) \in {"up", "over"} \/ Stalled(g))
=============================================================================
