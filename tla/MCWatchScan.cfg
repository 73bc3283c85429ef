\* A file removed between the listing of its directory and its stat.
CONSTANTS
    a = a
    Names = {a}
    Matched = {a}
    Ignored = {}
    Inner = {}
    MaxVersion = 2
    MaxEvents = 2
SPECIFICATION Spec
PROPERTIES ScanKeepsWatching
CHECK_DEADLOCK FALSE
