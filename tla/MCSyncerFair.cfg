\* A file that an ignore pattern matches and a symbolic link, under the fairness
\* of the calls.
CONSTANTS
    i = i
    l = l
    home = home
    Names = {i, l}
    Matched = {i, l}
    Ignored = {i}
    Links = {l}
    Hosts = {home}
    MaxVersion = 1
SPECIFICATION FairSpec
INVARIANTS CleanMirrorConverges
PROPERTIES PassEnds
