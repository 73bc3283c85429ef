\* One connection and one file, under the fairness of the scheduler.
CONSTANTS
    a = a
    c1 = c1
    l1 = l1
    l2 = l2
    Watcher = Watcher
    Nobody = Nobody
    Names = {a}
    Conns = {c1}
    Loops = {l1, l2}
SPECIFICATION FairSpec
INVARIANTS NoStrandedJob
PROPERTIES ChangeIsSynced MutexReleased DeadClientLeaves
