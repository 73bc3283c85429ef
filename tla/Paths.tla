------------------------------- MODULE Paths --------------------------------
(***************************************************************************)
(* internal/syncer: remote and relative paths, include and ignore          *)
(* patterns, the walk of the source tree and the plan of a full mirror.    *)
(*                                                                         *)
(* A path is the sequence of what is between its slashes, backslashes      *)
(* being slashes (NormalizeSlashes): "/a" is <<"", "a">> and "" is <<"">>; *)
(* a normalized path that is empty is <<>>.  A glob is the set of the      *)
(* paths it matches.                                                       *)
(***************************************************************************)
EXTENDS Naturals, Sequences, SequencesExt

CONSTANTS
    Drives,      \* segments like "C:"
    Invalid      \* the error instead of a path, or of a set of paths

Text == Seq(STRING)

ASSUME InvalidAssumption == Invalid \notin Text

\* Every part is a name, as in what filepath.Rel says of a file in a directory.
Normal(p) == p \in Text /\ \A i \in DOMAIN p : p[i] \notin {"", ".", ".."}

Drivelike(p) == p # <<>> /\ p[1] \in Drives

-----------------------------------------------------------------------------
(* paths.go *)

Rooted(p) == p # <<>> /\ (p[1] \in Drives \/ (p[1] = "" /\ Len(p) > 1))

\* Where the parts are that stay.
Kept(p) == {i \in DOMAIN p : p[i] \notin {"", "."}}
InOrder(S) == CHOOSE f \in [1..Cardinality(S) -> S] : \A i, j \in DOMAIN f : i < j => f[i] < f[j]
Parts(p) == LET place == InOrder(Kept(p)) IN [k \in DOMAIN place |-> p[place[k]]]

KeepEmptyParts(p) == IF Rooted(p) \/ ".." \in Range(p) THEN Invalid       \* mutant
                     ELSE SelectSeq(p, LAMBDA s : s # ".")
NormalizeRemotePath(p) == IF Rooted(p) \/ ".." \in Range(p) THEN Invalid ELSE Parts(p)

NormalizeRemoteFilePath(p) ==
    LET normalized == NormalizeRemotePath(p)
    IN  IF normalized = <<>> THEN Invalid ELSE normalized

Inside(dest, remote) ==
    dest # Invalid /\ remote # Invalid /\ IsStrictPrefix(dest, remote)
OneTooMany(dest, remote) == SubSeq(remote, Len(dest) + 2, Len(remote))    \* mutant
Below(dest, remote) == SubSeq(remote, Len(dest) + 1, Len(remote))

RelativeToDestination(destination, remoteFile) ==
    LET dest == NormalizeRemotePath(destination)
        remote == NormalizeRemoteFilePath(remoteFile)
    IN  IF Inside(dest, remote) THEN Below(dest, remote) ELSE Invalid

JoinDestinationFile(destination, relative) ==
    LET dest == NormalizeRemotePath(destination)
        rel == NormalizeRemoteFilePath(relative)
    IN  IF dest = Invalid \/ rel = Invalid THEN Invalid
        ELSE IF RelativeToDestination(dest, dest \o rel) = Invalid THEN Invalid
        ELSE dest \o rel

\* path.Clean of a relative path.
Clean(p) ==
    LET cleaned[i \in 0..Len(p)] ==
          IF i = 0 THEN <<>>
          ELSE LET done == cleaned[i - 1]
               IN  IF p[i] \in {"", "."} THEN done
                   ELSE IF p[i] = ".." /\ done # <<>> /\ Last(done) # ".." THEN Front(done)
                   ELSE Append(done, p[i])
    IN  cleaned[Len(p)]

cleanRelativeSlashPath(p) ==
    IF Rooted(p) THEN Invalid
    ELSE IF Clean(p) = <<>> THEN <<>> ELSE NormalizeRemoteFilePath(Clean(p))

-----------------------------------------------------------------------------
(* patterns.go, ignored.go: a glob matches the whole path or its last segment. *)

AnyGlob(globs, p) == \E glob \in globs : p \in glob \/ <<Last(p)>> \in glob

\* declarations is the glob *.d.ts.
Match(include, declarations, p) ==
    p # <<>> /\ <<Last(p)>> \notin declarations /\ AnyGlob(include, p)

IsIgnored(ignore, p) == p # <<>> /\ AnyGlob(ignore, p)

Parents(p) == {SubSeq(p, 1, i) : i \in 1..(Len(p) - 1)}

\* watch.go: a path is ignored with each directory it is in.
IgnoredItself(ignore, p) == IsIgnored(ignore, p)                          \* mutant
ignoredPath(ignore, p) == \E q \in Parents(p) \cup {p} : IsIgnored(ignore, q)

-----------------------------------------------------------------------------
(* walk.go, syncer.go: tree is a set of regular files; paths may also be directories. *)

\* The files and directories WalkDir comes by: it does not enter an ignored directory.
Reached(ignore, paths) ==
    {p \in UNION {Parents(q) \cup {q} : q \in paths} : \A q \in Parents(p) : ~IsIgnored(ignore, q)}

\* One path that is refused, of a file or a directory, ends the walk.
WalkFails(ignore, paths) ==
    \E p \in Reached(ignore, paths) : cleanRelativeSlashPath(p) = Invalid

WalkSource(ignore, tree) ==
    {p \in {cleanRelativeSlashPath(q) : q \in tree \cap Reached(ignore, tree)} :
        ~IsIgnored(ignore, p)}

\* The relative paths of the files a full pass uploads.
Desired(include, declarations, ignore, tree) ==
    {p \in WalkSource(ignore, tree) : Match(include, declarations, p)}

BuildDeletes(destination, include, declarations, desired, remoteNames) ==
    LET stale(name) ==
          LET relative == RelativeToDestination(destination, name)
          IN  relative # Invalid /\ Match(include, declarations, relative)
    IN  {NormalizeRemoteFilePath(name) : name \in {m \in remoteNames : stale(m)}}
          \ {JoinDestinationFile(destination, p) : p \in desired}
=============================================================================
