------------------------------- MODULE Backoff -------------------------------
(***************************************************************************)
(* The delay before a reconnect (_gateway/reconnect.py), exactly: jitter   *)
(* is in tenths and random.random() in parts of Grain, factors are whole.  *)
(* The attempt at which the float power overflows is Gateway's Overflows.  *)
(***************************************************************************)
EXTENDS Integers

CONSTANT Grain

Smaller(a, b) == IF a < b THEN a ELSE b

Power(factor) ==
  LET power[n \in Nat] == IF n = 0 THEN 1 ELSE factor * power[n - 1] IN power

CappedMutant(policy, grown) == grown
Capped(policy, grown)       == Smaller(grown, policy.maxDelay)

Base(attempt, policy) ==
  Capped(policy, policy.initialDelay * Power(policy.factor)[attempt - 1])

\* int() cuts towards zero, and max() lets nothing negative through.
Delay(attempt, policy, random) ==
  LET parts == (10 - policy.jitter) * Grain + 2 * random * policy.jitter
  IN  IF parts < 0 THEN 0 ELSE (Base(attempt, policy) * parts) \div (10 * Grain)

Least(attempt, policy)    == Delay(attempt, policy, 0)
Greatest(attempt, policy) == Delay(attempt, policy, Grain - 1)
-----------------------------------------------------------------------------
(* The waits of a policy with factor >= 1: they grow, up to the cap and its
   jitter; and below the cap, when the factor outweighs the jitter as it does
   by default (2 against 30%), each wait is at least as long as any wait of the
   attempt before, whatever the dice say. *)
DelaysBack(attempt, policy) ==
  /\ Least(attempt, policy) <= Least(attempt + 1, policy)
  /\ Greatest(attempt, policy) <= Greatest(attempt + 1, policy)
  /\ 10 * Greatest(attempt, policy) <= policy.maxDelay * (10 + policy.jitter)
  /\ Base(attempt + 1, policy) < policy.maxDelay
       /\ policy.factor * (10 - policy.jitter) >= 10 + policy.jitter =>
         Greatest(attempt, policy) <= Least(attempt + 1, policy)
=============================================================================
