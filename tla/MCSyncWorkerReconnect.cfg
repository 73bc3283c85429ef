\* Two connections, one after or beside the other, two files.
CONSTANTS
    a = a
    b = b
    c1 = c1
    c2 = c2
    l1 = l1
    l2 = l2
    Watcher = Watcher
    Nobody = Nobody
    Names = {a, b}
    Conns = {c1, c2}
    Loops = {l1, l2}
SPECIFICATION Spec
INVARIANTS TypeOK SingleLoop RunningHasLoop OneClient NoChangeForgotten
PROPERTIES ImplementsChangeLife
SYMMETRY Symmetry
