\* A second connection while the loop of the first one is ending.
CONSTANTS
    a = a
    c1 = c1
    c2 = c2
    l1 = l1
    l2 = l2
    Watcher = Watcher
    Nobody = Nobody
    Names = {a}
    Conns = {c1, c2}
    Loops = {l1, l2}
SPECIFICATION Spec
INVARIANTS NoStrandedJob
