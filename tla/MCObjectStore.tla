--------------------------- MODULE MCObjectStore ----------------------------
(***************************************************************************)
(* Instances of ObjectStore for TLC.                                       *)
(***************************************************************************)
EXTENDS ObjectStore, TLC

AllBackends == {"gcs", "azure", "local"}

\* Self's clients ask for every key, the others' for one of them.
OneForOthers ==
  [a \in Apps |-> IF a = Self THEN Keys ELSE {CHOOSE k \in Keys : TRUE}]

\* Every other app_id lies below Self's.
OthersInside == {<<a, Self>> : a \in Apps \ {Self}}

AllFaults == {"call", "crash"}

=============================================================================
