------------------------------ MODULE MCRules -------------------------------
(***************************************************************************)
(* Instances of Rules for TLC.                                             *)
(***************************************************************************)
EXTENDS Rules, TLC

OneUri == [k \in Keys |-> CHOOSE u \in Uris : TRUE]

=============================================================================
