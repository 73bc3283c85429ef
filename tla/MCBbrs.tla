------------------------------- MODULE MCBbrs -------------------------------
(***************************************************************************)
(* Instances of Bbrs for TLC, and what the documentation says of a         *)
(* connection that the code does not keep.                                 *)
(***************************************************************************)
EXTENDS Bbrs

\* A world in which no call, read or walk fails and the watcher misses nothing.
FaultlessNext ==
    /\ Next
    /\ ~Refusal /\ ~CallFails /\ ~ContextDone /\ ~WatchEnds
    /\ missed' \subseteq missed
FaultlessSpec == Init /\ [][FaultlessNext]_vars

\* README.md:39, "on first connection, bbrs performs a full sync", and the test of
\* main_test.go:848 says it of a reconnect: where nothing fails, the game that is
\* connected holds the source once the jobs are done.
ConnectionMirrors == (Quiet /\ client) => game = local
=============================================================================
