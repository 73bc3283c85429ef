\* One file and one save besides what is there, under the fairness of timers and calls.
CONSTANTS
    a = a
    Names = {a}
    MaxEdits = 2
SPECIFICATION FairSpec
INVARIANTS TypeOK QuietIsMirrored
PROPERTIES ChangeIsMirrored VanishedGameNoticed
CHECK_DEADLOCK FALSE
