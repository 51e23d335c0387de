------------------------------ MODULE MCBreaker ------------------------------
(* Instances of Breaker for TLC.                                             *)
EXTENDS Breaker, TLC

CONSTANTS a, b

Setup(gated, trust, maxOpen, limit, callers, overrides, closes, maxOutages) ==
  [gated |-> gated, trust |-> trust, maxOpen |-> maxOpen, maxInflight |-> limit,
   callers |-> callers, overrides |-> overrides, closes |-> closes, maxOutages |-> maxOutages]

(* Two callers, a bulkhead of one, and an operator who forces calls through. *)
Crowded == Setup(FALSE, FALSE, 0, 1, {a, b}, {0, 2}, FALSE, 1)

(* A health check that is trusted to close the circuit, which may open while *)
(* a prober leaves; an operator who forces it open, and Close.               *)
Trusted == Setup(TRUE, TRUE, 0, 0, {b}, {0, 1}, TRUE, 2)

(* No health check, for two callers; and, for one, a health check that lets  *)
(* a canary through, without and with the timer to fall back on.             *)
Cautious == {Setup(FALSE, FALSE, 0, 0, {a, b}, {}, FALSE, 1), Setup(TRUE, FALSE, 0, 0, {b}, {}, FALSE, 1),
             Setup(TRUE, FALSE, 1, 0, {b}, {}, FALSE, 1)}

Uses == {Crowded, Trusted} \cup Cautious
=============================================================================
