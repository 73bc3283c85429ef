\* A file that differs, and another that is saved before the game connects.
CONSTANTS
    a = a
    b = b
    Names = {a, b}
    MaxEdits = 2
SPECIFICATION FaultlessSpec
INVARIANTS ConnectionMirrors
CHECK_DEADLOCK FALSE
