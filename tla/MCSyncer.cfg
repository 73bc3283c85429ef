\* A file the patterns match and one they do not, on one host.
CONSTANTS
    a = a
    x = x
    home = home
    Names = {a, x}
    Matched = {a}
    Ignored = {}
    Links = {}
    Hosts = {home}
    MaxVersion = 2
SPECIFICATION Spec
INVARIANTS TypeOK CacheSound CleanMirrorConverges
PROPERTIES OnlyOwnedFiles MirrorNeverDeletesLive
