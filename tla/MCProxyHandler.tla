--------------------------- MODULE MCProxyHandler ---------------------------
(***************************************************************************)
(* Instances of ProxyHandler for TLC.                                      *)
(***************************************************************************)
EXTENDS ProxyHandler, TLC

\* Clients with different headers ask for one URI: several keys, one window.
OneUri == [k \in Keys |-> CHOOSE u \in Uris : TRUE]

\* What the environment may do wrong in a run.
Disconnects   == {"disconnect"}
BrokenBodies  == {"body"}
Restarts      == {"crash"}

\* Handlers are alike, and so are keys of one URI.
Alike == Permutations(Requests) \cup Permutations(Keys)

=============================================================================
