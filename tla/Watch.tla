------------------------------- MODULE Watch --------------------------------
(***************************************************************************)
(* internal/watch: Poll, which turns fsnotify events and periodic          *)
(* snapshots of the source tree into debounced ChangeSets.                 *)
(*                                                                         *)
(* Every ChangeSet that is reported is applied to the game at once, the    *)
(* way SyncChanges does it (uploads first, then deletes), so that what the *)
(* watcher tells can be held against what the game ends up with.  A size   *)
(* and a modification time are one version number, as in Syncer.           *)
(***************************************************************************)
EXTENDS Naturals, Sequences

CONSTANTS
    Names,       \* source-relative paths
    Matched,     \* those the include patterns match
    Ignored,     \* those an ignore pattern matches
    Inner,       \* those in a directory below the source, the others are directly in it
    MaxVersion,  \* bound: how often one name is saved
    MaxEvents    \* how many events the kernel queues before it overflows

ASSUME ConstantsAssumption ==
    /\ Matched \subseteq Names
    /\ Ignored \subseteq Names
    /\ Inner \subseteq Names
    /\ MaxVersion \in Nat \ {0}
    /\ MaxEvents \in Nat \ {0}

Absent == 0
Versions == 1..MaxVersion
Snapshots == [Names -> Versions \cup {Absent}]

VARIABLES
    local,       \* source tree
    clock,       \* newest version each name has had
    made,        \* the directory below the source exists
    watches,     \* directories that have an fsnotify watch
    events,      \* fsnotify events not yet received
    overflow,    \* an overflow error waits on watcher.Errors
    pc,          \* "select", "scan" (inside SnapshotSource), "done" or "failed"
    listed,      \* names the scan has still to stat
    current,     \* the snapshot being taken
    previous,    \* the one before
    seeded,      \* previous is set
    modified,    \* pending.Modified
    deleted,     \* pending.Deleted
    armed,       \* debounceTimer is set
    game,        \* what the reported changes have made of the game's files
    contested,   \* history: files that were there when a report last deleted them
    missed       \* history: changes that no event and no pair of snapshots shows

source  == <<local, clock, made>>
kernel  == <<watches, events, overflow>>
scan    == <<listed, current>>
base    == <<previous, seeded>>
pending == <<modified, deleted, armed>>
effect  == <<game, contested, missed>>
vars    == <<source, kernel, pc, scan, base, pending, effect>>

Dirs == {"source", "inner"}
DirOf(n) == IF n \in Inner THEN "inner" ELSE "source"
Relevant == Matched \ Ignored
Nothing == [n \in Names |-> Absent]

TypeOK ==
    /\ local \in Snapshots
    /\ clock \in Snapshots
    /\ made \in BOOLEAN
    /\ \A n \in Inner : local[n] # Absent => made
    /\ watches \subseteq IF made THEN Dirs ELSE {"source"}
    /\ events \in Seq({"write", "remove"} \X (Names \cup Dirs))
    /\ Len(events) <= MaxEvents
    /\ overflow \in BOOLEAN
    /\ pc \in {"select", "scan", "done", "failed"}
    /\ listed \subseteq Names
    /\ current \in Snapshots
    /\ previous \in Snapshots
    /\ seeded \in BOOLEAN
    /\ modified \subseteq Relevant
    /\ deleted \subseteq Relevant
    /\ armed = (modified \cup deleted # {})
    /\ game \in Snapshots
    /\ contested \subseteq Relevant
    /\ missed \subseteq Relevant

\* Poll starts; a full pass has just brought the game up to date.  If there is no
\* watcher, or a watch cannot be added, useNotify is false and no event is taken.
Init ==
    /\ made \in BOOLEAN
    /\ local \in {tree \in [Names -> {Absent, 1}] : made \/ \A n \in Inner : tree[n] = Absent}
    /\ clock = local
    /\ watches \in {{}, IF made THEN Dirs ELSE {"source"}}
    /\ events = <<>>
    /\ overflow = FALSE
    /\ pc = "select"
    /\ listed = {}
    /\ current = Nothing
    /\ previous = Nothing
    /\ seeded = FALSE
    /\ modified = {}
    /\ deleted = {}
    /\ armed = FALSE
    /\ game = [n \in Names |-> IF n \in Relevant THEN local[n] ELSE Absent]
    /\ contested = {}
    /\ missed = {}

-----------------------------------------------------------------------------
(* The source tree, and the kernel that watches it. *)

\* Something called name, in directory dir, is written, made, removed or renamed.
Notify(op, name, dir) ==
    IF dir \in watches
    THEN IF Len(events) < MaxEvents
         THEN events' = Append(events, <<op, name>>) /\ UNCHANGED overflow
         ELSE overflow' = TRUE /\ UNCHANGED events
    ELSE UNCHANGED <<events, overflow>>

\* n is created or written.
Save(n) ==
    /\ clock[n] < MaxVersion
    /\ n \in Inner => made
    /\ clock' = [clock EXCEPT ![n] = @ + 1]
    /\ local' = [local EXCEPT ![n] = clock[n] + 1]
    /\ Notify("write", n, DirOf(n))
    /\ UNCHANGED <<made, watches, pc, scan, base, pending, effect>>

\* Files go without an event, and no snapshot has seen them.
Unseen(n) == previous[n] = Absent /\ (pc = "scan" => current[n] = Absent /\ n \notin listed)
Vanish(names) == missed' = missed \cup {n \in names \cap Relevant : local[n] # Absent /\ Unseen(n)}

\* n is removed, or renamed away.
Remove(n) ==
    /\ local[n] # Absent
    /\ local' = [local EXCEPT ![n] = Absent]
    /\ Notify("remove", n, DirOf(n))
    /\ Vanish({n} \cap {m \in Names : DirOf(m) \notin watches})
    /\ UNCHANGED <<clock, made, watches, pc, scan, base, pending, game, contested>>

MakeDir ==
    /\ ~made
    /\ made' = TRUE
    /\ Notify("write", "inner", "source")
    /\ UNCHANGED <<local, clock, watches, pc, scan, base, pending, effect>>

\* The directory is moved away with all that is in it; its watch ends.
MoveDirAway ==
    /\ made
    /\ made' = FALSE
    /\ local' = [n \in Names |-> IF n \in Inner THEN Absent ELSE local[n]]
    /\ watches' = watches \ {"inner"}
    /\ Notify("remove", "inner", "source")
    /\ Vanish(Inner)
    /\ UNCHANGED <<clock, pc, scan, base, pending, game, contested>>

-----------------------------------------------------------------------------
(* Poll: the cases of its select. *)

\* record and schedule: nothing before the first snapshot, else (re)arm the timer.
record(mods, dels) ==
    IF seeded /\ mods \cup dels # {}
    THEN /\ modified' = modified \cup mods
         /\ deleted' = deleted \cup dels
         /\ armed' = TRUE
    ELSE UNCHANGED pending

ContextDone ==
    /\ pc = "select"
    /\ pc' = "done"
    /\ UNCHANGED <<source, kernel, scan, base, pending, effect>>

\* changesFromEvent: a write is looked up, a remove or a rename is believed.
EventModified(op, n) == IF op = "write" /\ local[n] # Absent THEN {n} ELSE {}
EventDeleted(op, n)  == IF op = "remove" \/ local[n] = Absent THEN {n} ELSE {}

\* addWatchTree of a directory that has been made, if it is still there: what was
\* put into it meanwhile is not looked for, and an error is ignored.
WatchMade(op, name) ==
    IF op = "write" /\ name = "inner" /\ made
    THEN watches' \in {watches, watches \cup {"inner"}}
    ELSE UNCHANGED watches

TakeEvent ==
    /\ pc = "select"
    /\ events # <<>>
    /\ events' = Tail(events)
    /\ WatchMade(Head(events)[1], Head(events)[2])
    /\ LET op == Head(events)[1]
           n  == Head(events)[2]
       IN  IF n \in Relevant
           THEN record(EventModified(op, n), EventDeleted(op, n))
           ELSE UNCHANGED pending
    /\ UNCHANGED <<source, overflow, pc, scan, base, effect>>

\* The stat of a written path fails for another reason: Poll returns.
EventFails ==
    /\ pc = "select"
    /\ events # <<>>
    /\ Head(events)[1] = "write" /\ Head(events)[2] \notin Ignored
    /\ pc' = "failed"
    /\ events' = Tail(events)
    /\ UNCHANGED <<source, watches, overflow, scan, base, pending, effect>>

\* An error on watcher.Errors: Poll returns.
WatcherError ==
    /\ pc = "select"
    /\ overflow
    /\ overflow' = FALSE
    /\ pc' = "failed"
    /\ UNCHANGED <<source, watches, events, scan, base, pending, effect>>

\* The ticker fires: SnapshotSource reads the directories, then stats each file,
\* an ignored one too unless it is hidden in an ignored directory.
Tick ==
    /\ pc = "select"
    /\ pc' = "scan"
    /\ \E hidden \in SUBSET Ignored : listed' = {n \in Names \ hidden : local[n] # Absent}
    /\ current' = Nothing
    /\ UNCHANGED <<source, kernel, base, pending, effect>>

Lstat(n) ==
    /\ pc = "scan"
    /\ n \in listed
    /\ local[n] # Absent
    /\ listed' = listed \ {n}
    /\ current' = IF n \in Ignored THEN current ELSE [current EXCEPT ![n] = local[n]]
    /\ UNCHANGED <<source, kernel, pc, base, pending, effect>>

\* A listed file, ignored or not, is gone when it is stat'ed: Poll returns.
ScanFails ==
    /\ pc = "scan"
    /\ \E n \in listed : local[n] = Absent
    /\ pc' = "failed"
    /\ UNCHANGED <<source, kernel, scan, base, pending, effect>>

DiffIgnoresDeletes(old, new) == {}                                        \* mutant
DiffModified(old, new) == {n \in Matched : new[n] # Absent /\ new[n] # old[n]}
DiffDeleted(old, new)  == {n \in Matched : new[n] = Absent /\ old[n] # Absent}

\* The snapshot is complete.
Scanned ==
    /\ pc = "scan"
    /\ listed = {}
    /\ pc' = "select"
    /\ previous' = current
    /\ IF seeded
       THEN /\ record(DiffModified(previous, current), DiffDeleted(previous, current))
            /\ UNCHANGED <<seeded, missed>>
       ELSE /\ seeded' = TRUE
            /\ missed' = {n \in Relevant : game[n] # current[n]}
            /\ UNCHANGED pending
    /\ UNCHANGED <<source, kernel, scan, game, contested>>

\* SyncChanges: what exists of the modified files, and then the deletes.
SyncChanges(mods, dels) ==
    [n \in Names |-> IF n \in dels THEN Absent
                     ELSE IF n \in mods /\ local[n] # Absent THEN local[n]
                     ELSE game[n]]

KeepPending == UNCHANGED <<modified, deleted>>                            \* mutant
ClearPending == modified' = {} /\ deleted' = {}

\* The debounce timer fires: flush hands the pending ChangeSet to onChange.
Flush ==
    /\ pc = "select"
    /\ armed
    /\ armed' = FALSE
    /\ ClearPending
    /\ game' = SyncChanges(modified, deleted)
    /\ contested' = (contested \ (modified \cup deleted))
                      \cup {n \in deleted : local[n] # Absent}
    /\ missed' = {n \in missed : game'[n] # local[n]}
    /\ UNCHANGED <<source, kernel, pc, scan, base>>

Edit == MakeDir \/ MoveDirAway \/ \E n \in Names : Save(n) \/ Remove(n)
Scan == Tick \/ ScanFails \/ Scanned \/ \E n \in Names : Lstat(n)
Receive == TakeEvent \/ EventFails

Next == Edit \/ ContextDone \/ Receive \/ WatcherError \/ Scan \/ Flush

Spec == Init /\ [][Next]_vars

\* select takes one of its ready cases at random, so none is passed over forever.
FairSpec ==
    /\ Spec
    /\ WF_vars(Scan)
    /\ SF_vars(Receive)
    /\ SF_vars(WatcherError)
    /\ SF_vars(Flush)

-----------------------------------------------------------------------------
(* Properties. *)

Differs(n) == n \in Relevant /\ game[n] # local[n]

\* Nothing waits: no event, no pending change, no change since the last snapshot.
Quiet ==
    /\ pc = "select"
    /\ seeded
    /\ events = <<>>
    /\ ~overflow
    /\ ~armed
    /\ \A n \in Relevant : previous[n] = local[n]

\* When the watcher has nothing more to tell, it has told everything: whatever
\* order events and snapshots came in, the game differs from the source only for
\* files with one of these histories.
\*   - contested: a report deleted the file while it was there.  It named the file
\*     modified and deleted at once, or a remove event was received and believed
\*     after the file had been made again.
\*   - missed: the file changed before the first snapshot, which took the change for
\*     the base; or it went, with its directory or from one that has no watch,
\*     before any snapshot had seen it.
\* What is told of the file later ends each of them.
QuietIsMirrored ==
    Quiet => \A n \in Names : Differs(n) => n \in contested \cup missed

\* A change is told in the end: no snapshot that raced with an edit, no reset of the
\* timer, no event before its time hides it for good.  Not so for contested and
\* missed files, and not once Poll has returned: its context is done, a scan or
\* the stat of an event's file failed, or the queue overflowed.
ChangeIsTold ==
    \A n \in Names :
        Differs(n) ~> (~Differs(n) \/ n \in contested \cup missed \/ pc \in {"done", "failed"})

=============================================================================
