------------------------------ MODULE MCClient -------------------------------
(***************************************************************************)
(* Safety: a client that may create two gateways, so that an old one can   *)
(* speak while a new one is in use, and two coroutines, so that one can    *)
(* join, cancel, disconnect or overtake what the other awaits.  Gateways   *)
(* and callers are interchangeable.  The delay of a second attempt to      *)
(* reconnect overflows.                                                    *)
(*                                                                         *)
(* Liveness: one gateway and three callers, without symmetry.  Two attempts*)
(* to reconnect have a delay, the third exhausts the gateway.              *)
(***************************************************************************)
EXTENDS Client, TLC

Symmetry == Permutations(Gateways) \cup Permutations(Callers)
=============================================================================
