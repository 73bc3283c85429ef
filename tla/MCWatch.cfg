\* One file in a directory that comes and goes, under the fairness of select.
CONSTANTS
    b = b
    Names = {b}
    Matched = {b}
    Ignored = {}
    Inner = {b}
    MaxVersion = 3
    MaxEvents = 3
SPECIFICATION FairSpec
INVARIANTS TypeOK QuietIsMirrored
PROPERTIES ChangeIsTold
CHECK_DEADLOCK FALSE
