----------------------------- MODULE ChangeLife -----------------------------
(***************************************************************************)
(* What becomes of a saved file between the watcher and the sync passes,   *)
(* as SyncWorker promises it: the changes of one pass at a time go to the  *)
(* game, they go there together, and none disappears but by being given    *)
(* up, openly, with its job.                                               *)
(***************************************************************************)
CONSTANT Names

VARIABLE life        \* of the last change of each name

Lives == {"synced", "waiting", "syncing", "given up"}

Init == life = [n \in Names |-> "synced"]

Are(state) == {n \in Names : life[n] = state}
Become(changed, state) ==
    life' = [n \in Names |-> IF n \in changed THEN state ELSE life[n]]

\* Whatever was going on with n, it is a new change that waits now.
Save(n) == Become({n}, "waiting")

\* A pass begins with changes that wait, when no other pass is under way.
Begin(changes) ==
    /\ Are("syncing") = {}
    /\ changes \subseteq Are("waiting")
    /\ Become(changes, "syncing")

Finish == Become(Are("syncing"), "synced")

\* The pass fails: a change waits if it was told again, or else is given up.
Fail ==
    \E again \in SUBSET Are("syncing") :
        life' = [n \in Names |-> IF n \in again THEN "waiting"
                                 ELSE IF life[n] = "syncing" THEN "given up"
                                 ELSE life[n]]

\* A job is dropped before its pass begins.
GiveUp(changes) == changes \subseteq Are("waiting") /\ Become(changes, "given up")

\* A full pass is due: what was given up waits again.
Revive == Become(Are("given up"), "waiting")

Next ==
    \/ \E n \in Names : Save(n)
    \/ \E changes \in SUBSET Names : Begin(changes) \/ GiveUp(changes)
    \/ Finish \/ Fail \/ Revive

Spec == Init /\ [][Next]_life
=============================================================================
