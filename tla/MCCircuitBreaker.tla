-------------------------- MODULE MCCircuitBreaker --------------------------
(***************************************************************************)
(* Instances of CircuitBreaker for TLC.                                    *)
(***************************************************************************)
EXTENDS CircuitBreaker, TLC

\* Callers are alike, and so are health checker tasks.
Tasks == Permutations(Callers) \cup Permutations(Checkers)

=============================================================================
