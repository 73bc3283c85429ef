---------------------------- MODULE MCSyncWorker ----------------------------
(***************************************************************************)
(* Instances of SyncWorker for TLC.  Connections, files and loops are      *)
(* interchangeable; the runs that check liveness do without the symmetry.  *)
(***************************************************************************)
EXTENDS SyncWorker, TLC

Symmetry == Permutations(Names) \cup Permutations(Conns) \cup Permutations(Loops)
=============================================================================
