\* A restart with another --target.
CONSTANTS
    a = a
    home = home
    n00dles = n00dles
    Names = {a}
    Matched = {a}
    Ignored = {}
    Links = {}
    Hosts = {home, n00dles}
    MaxVersion = 2
SPECIFICATION Spec
INVARIANTS EveryTargetServed
