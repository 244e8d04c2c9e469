------------------------------ MODULE Protocol ------------------------------
(***************************************************************************)
(* What the client makes of the first frame of a session, before Gateway   *)
(* greets, warns, refuses or stumbles (_gateway/protocol.py).              *)
(*                                                                         *)
(* The text of a version is the sequence of what stands between its dots,  *)
(* each a number or some other Word.                                       *)
(***************************************************************************)
EXTENDS Naturals, Sequences

CONSTANTS
  Word,       \* a part of a version that is not a number
  NoText      \* a protocolVersion that is not a string, or data that is null

ParseVersion(text) ==
  IF Len(text) = 2 /\ text[1] # Word /\ text[2] # Word
    THEN {[major |-> text[1], minor |-> text[2]]} ELSE {}

NewerMutant(server, sdk) == sdk.minor > server.minor
Newer(server, sdk)       == server.minor > sdk.minor

(* check_protocol_compatibility, for a well formed SDK version. *)
CheckCompatibility(text, sdk) ==
  IF \E server \in ParseVersion(text) : server.major = sdk.major
    THEN IF \E server \in ParseVersion(text) : Newer(server, sdk)
           THEN "warning" ELSE "compatible"
    ELSE "incompatible"

(* _handle_handshake.  A frame that raises ends the session as an error does. *)
Handshake(frame, sdk) ==
  IF frame.type # "hello" THEN "incompatible"
  ELSE IF frame.version = NoText THEN "raises"
  ELSE CheckCompatibility(frame.version, sdk)
-----------------------------------------------------------------------------
Order(outcome) ==
  CASE outcome = "incompatible" -> 0 [] outcome = "raises" -> 0
    [] outcome = "warning"      -> 1 [] outcome = "compatible" -> 2

(* Within a major version an upgrade of the SDK never makes a server worse,
   a server that could be used stays so, and the SDK of the server's own
   version has nothing to be warned of. *)
UpgradeIsSafe(frame, sdk, upgraded) ==
  sdk.major = upgraded.major /\ sdk.minor <= upgraded.minor =>
    /\ Order(Handshake(frame, sdk)) <= Order(Handshake(frame, upgraded))
    /\ Handshake(frame, sdk) \in {"incompatible", "raises"} <=>
         Handshake(frame, upgraded) \in {"incompatible", "raises"}
    /\ frame.type = "hello" /\ frame.version = <<upgraded.major, upgraded.minor>> =>
         Handshake(frame, upgraded) = "compatible"
=============================================================================
