------------------------------ MODULE MCS3Store -----------------------------
(***************************************************************************)
(* Instances of S3Store for TLC.                                           *)
(***************************************************************************)
EXTENDS S3Store

AllFaults == {"call", "crash"}
NoFaults  == {}
BadCalls  == {"call"}

=============================================================================
