------------------------------ MODULE MCClient ------------------------------
(***************************************************************************)
(* Instances of Client for TLC.                                            *)
(***************************************************************************)
EXTENDS Client

\* Each call takes another id, so that a repeated answer is told from an own one.
ASSUME DistinctIDs == Cardinality(Calls) <= MaxID
=============================================================================
