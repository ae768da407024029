-------------------------- MODULE MCCircuitBreaker --------------------------
(***************************************************************************)
(* CircuitBreaker for TLC: callers 1 and 2 belong to worker w1, caller 3   *)
(* to worker w2.                                                           *)
(***************************************************************************)
EXTENDS CircuitBreaker, TLC

TwoWorkers == [c \in Callers |-> IF c = 3 THEN "w2" ELSE "w1"]

=============================================================================
