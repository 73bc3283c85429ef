------------------------------ MODULE Startup -------------------------------
(***************************************************************************)
(* From the configuration to the first plan: run accepts a destination,    *)
(* and BuildPlan maps the files of the source to files of the game with    *)
(* it, while the watcher decides with the same patterns which events       *)
(* matter.                                                                 *)
(***************************************************************************)
EXTENDS Config

CONSTANTS
    Trees,         \* source trees: their files, and directories without a file (bare)
    Remotes,       \* what the game may report: sets of file names
    DefaultInclude, Declarations, DefaultIgnore   \* globs

ASSUME TreesAssumption ==
    /\ \A t \in Trees : \A p \in t.files \cup t.bare : Normal(p) /\ p # <<>>
    /\ \A t \in Trees : \A files \in SUBSET t.files : files # Invalid
    /\ \A names \in Remotes : names \subseteq Text

VARIABLES
    tree,          \* the source tree that was planned
    desired,       \* relative paths to upload, or Invalid
    deletes        \* remote files to delete

plan == <<tree, desired, deletes>>

StartupInit == Init /\ tree = [files |-> {}, bare |-> {}] /\ desired = {} /\ deletes = {}

\* NewPatterns, NewIgnoredPatterns: the defaults, and what is configured.
Include == DefaultInclude \cup cfg["include"]
Ignore == DefaultIgnore \cup cfg["ignore"]

\* JoinDestinationFile of each file; one that is refused ends BuildDesired.
Refused(p) == JoinDestinationFile(cfg["destination"], p) = Invalid

BuildPlan ==
    /\ step = "done"
    /\ step' = "planned"
    /\ \E t \in Trees, names \in Remotes :
          LET files == Desired(Include, Declarations, Ignore, t.files)
          IN  /\ tree' = t
              /\ IF WalkFails(Ignore, t.files \cup t.bare) \/ \E p \in files : Refused(p)
                 THEN desired' = Invalid /\ UNCHANGED deletes
                 ELSE /\ desired' = files
                      /\ deletes' = BuildDeletes(cfg["destination"], Include, Declarations,
                                                 files, names)
    /\ UNCHANGED <<layers, cfg, projectDir>>

StartupNext == (Next /\ UNCHANGED plan) \/ BuildPlan

StartupSpec == StartupInit /\ [][StartupNext]_<<vars, plan>>

-----------------------------------------------------------------------------
(* Properties. *)

\* A destination that is accepted at startup lets every pass be planned, whatever
\* is in the source, but for names like C: (./C: is accepted, and then refused).
AcceptedDestinationServes ==
    (step = "planned" /\ desired = Invalid) =>
        Drivelike(cfg["destination"]) \/ \E p \in tree.files \cup tree.bare : Drivelike(p)

\* The name a file is uploaded under leads back to the file, so no two files share
\* one and each is found stale when its file is gone; what is deleted is below the
\* destination and leads back to no file that is wanted.  (A remote file ./C:/x is
\* deleted as C:/x, and that leads nowhere.)
UploadsAreRecognised ==
    (step = "planned" /\ desired # Invalid) =>
        LET relative(remote) == RelativeToDestination(cfg["destination"], remote)
        IN  /\ \A p \in desired : relative(JoinDestinationFile(cfg["destination"], p)) = p
            /\ \A remote \in deletes :
                  /\ relative(remote) \notin desired
                  /\ relative(remote) = Invalid => Drivelike(remote)

\* An event of a file is let through exactly if the walk finds the file: an
\* incremental pass and a full one agree on what there is to sync.
EventsAgreeWithWalk ==
    (step = "planned" /\ desired # Invalid) =>
        \A p \in tree.files : p \in desired <=>
            ~ignoredPath(Ignore, p) /\ Match(Include, Declarations, p)
=============================================================================
