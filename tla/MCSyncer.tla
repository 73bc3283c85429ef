------------------------------ MODULE MCSyncer ------------------------------
(***************************************************************************)
(* Instances of Syncer for TLC, and what the documentation says of a pass  *)
(* that the code does not keep.                                            *)
(***************************************************************************)
EXTENDS Syncer

\* README.md:184, each sync "uploads every desired local file to --target": after
\* a clean full pass every desired file is on the host the process was given.
EveryTargetServed ==
    settled => \A n \in Names : IsDesired(n) => remote[target][n] \in {local[n], Edited}
=============================================================================
