--------------------------- MODULE GatewaySession ---------------------------
(***************************************************************************)
(* The order of the events a GatewayClient emits, as the Client that       *)
(* listens to them may rely on it.  A gateway is idle until it is told to  *)
(* connect, then down or up, and finally over.                             *)
(***************************************************************************)
EXTENDS Sequences

CONSTANT Gateways

VARIABLES phase, emitted

Event(name) == [event |-> name]

Loss(again, auth) ==
  [event |-> "disconnected", willReconnect |-> again, authCode |-> auth]

Moves(g, p) == phase' = [phase EXCEPT ![g] = p]

Init == phase = [g \in Gateways |-> "idle"] /\ emitted = << >>

Start(g)   == phase[g] = "idle" /\ Moves(g, "down") /\ emitted' = << >>

(* A server of a newer minor version is greeted with a warning. *)
Greet(g) ==
  /\ phase[g] = "down"
  /\ Moves(g, "up")
  /\ emitted' \in {<<Event("connected")>>, <<Event("warning"), Event("connected")>>}

Deliver(g) == phase[g] = "up" /\ UNCHANGED phase /\ emitted' = <<Event("data")>>

Refuse(g)  == phase[g] = "down" /\ UNCHANGED phase /\ emitted' = <<Event("incompatible")>>

(* The connection is lost and will be tried again.  Only a gateway that was
   not greeted may leave the next attempt unannounced. *)
Lose(g) ==
  /\ phase[g] \in {"down", "up"}
  /\ Moves(g, "down")
  /\ \/ emitted' = <<Loss(TRUE, FALSE), Event("reconnect_scheduled")>>
     \/ phase[g] = "down" /\ emitted' = <<Loss(TRUE, FALSE)>>

(* The last events of a gateway. *)
End(g) ==
  /\ phase[g] \in {"down", "up"}
  /\ Moves(g, "over")
  /\ \/ \E auth \in BOOLEAN : emitted' = <<Loss(FALSE, auth)>>
     \/ emitted' = <<Loss(TRUE, FALSE), Event("exhausted")>>

(* disconnect() ends a gateway in silence, unless its first connection attempt
   is still under way; so does the clean end of a socket that was refused. *)
Stop(g) ==
  /\ phase[g] \in {"down", "up"}
  /\ \/ Moves(g, "over")
     \/ phase[g] = "down" /\ UNCHANGED phase
  /\ emitted' = << >>

\* Everything that happens inside a gateway.
Quiet == UNCHANGED phase /\ emitted' = << >>

Next == \/ Quiet
        \/ \E g \in Gateways : \/ Start(g) \/ Greet(g) \/ Deliver(g) \/ Refuse(g)
                               \/ Lose(g) \/ End(g) \/ Stop(g)

Spec == Init /\ [][Next]_<<phase, emitted>>
=============================================================================
