----------------------------- MODULE MCPurging ------------------------------
(***************************************************************************)
(* Instances of Purging for TLC.                                           *)
(***************************************************************************)
EXTENDS Purging, TLC

OneUri == [k \in Keys |-> CHOOSE u \in Uris : TRUE]

\* What the environment may do wrong.
AllFaults == FaultKinds

Callers == Permutations(Admins)

=============================================================================
