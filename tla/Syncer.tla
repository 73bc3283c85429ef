------------------------------- MODULE Syncer -------------------------------
(***************************************************************************)
(* internal/syncer: one sync pass of bbrs and the upload cache it keeps.   *)
(*                                                                         *)
(* A pass is Mirror (full) or SyncChanges (incremental).  The module has   *)
(* the pass at the grain of its system calls and remote procedure calls,   *)
(* interleaved with edits of the source tree, edits made inside the game,  *)
(* a shutdown signal, and a crash at any point followed by a restart that  *)
(* loads the cache file again.                                             *)
(*                                                                         *)
(* A name stands for a source-relative path and for the remote path it is  *)
(* joined to.  The bytes of a file and its FileStamp (size, mtime) are one *)
(* version number: every save of a name produces a new one.                *)
(***************************************************************************)
EXTENDS Integers

CONSTANTS
    Names,       \* paths, local or remote
    Matched,     \* those under the destination that the include patterns match
    Ignored,     \* those an ignore pattern matches
    Links,       \* those that, locally, are symbolic links to regular files
    Hosts,       \* values --target may take
    MaxVersion   \* bound: how often one name is saved

ASSUME ConstantsAssumption ==
    /\ Matched \subseteq Names
    /\ Ignored \subseteq Names
    /\ Links \subseteq Names
    /\ Hosts # {}
    /\ MaxVersion \in Nat \ {0}

Absent == 0              \* no such file, no such cache entry
Edited == -1             \* a remote file whose content was written inside the game
Versions == 1..MaxVersion

VARIABLES
    local,       \* source tree: version of each name, or Absent
    clock,       \* newest version each name has had
    remote,      \* file on each game host: a version, Edited or Absent
    target,      \* Options.Host of the running process
    cache,       \* State.UploadCache: stamp of each name, or Absent
    disk,        \* the entries of cache.json (no file: no entries)
    torn,        \* cache.json is truncated: it does not decode
    pc,          \* where the pass is
    kind,        \* "full" (Mirror) or "incremental" (SyncChanges)
    phase,       \* which of applyUploads and applyDeletes is saving the cache
    cancelled,   \* the context is cancelled: a signal was received
    present,     \* remotePresentSet of the fetched metadata
    desired,     \* DesiredFile.Stamp of each planned upload, or Absent
    deletes,     \* planned deletes
    todo,        \* names the current loop has still to visit
    current,     \* the name being pushed
    content,     \* the bytes that were read for it
    dirty,       \* the cache changed in this loop
    failed,      \* Summary.Failed > 0
    disturbed,   \* history: source or game edited since the pass began
    seenAbsent,  \* history: names missing from the source at some point of the pass
    settled      \* history: a clean, undisturbed full pass was the last thing to happen

source  == <<local, clock>>
store   == <<disk, torn>>
plan    == <<present, desired, deletes>>
flight  == <<current, content>>
history == <<disturbed, seenAbsent, settled>>
process == <<target, cache, pc, kind, phase, cancelled, plan, todo, flight, dirty, failed>>
vars    == <<source, remote, store, process, history>>

PCs == {"down", "idle", "stat", "fetch", "list", "walk",
        "upload", "push", "delete", "save", "write"}

TypeOK ==
    /\ local \in [Names -> Versions \cup {Absent}]
    /\ clock \in [Names -> Versions \cup {Absent}]
    /\ remote \in [Hosts -> [Names -> Versions \cup {Absent, Edited}]]
    /\ target \in Hosts
    /\ cache \in [Names -> Versions \cup {Absent}]
    /\ disk \in [Names -> Versions \cup {Absent}]
    /\ torn \in BOOLEAN
    /\ pc \in PCs
    /\ kind \in {"full", "incremental"}
    /\ phase \in {"upload", "delete"}
    /\ cancelled \in BOOLEAN
    /\ present \subseteq Names
    /\ desired \in [Names -> Versions \cup {Absent}]
    /\ deletes \subseteq Names
    /\ todo \subseteq Names
    /\ current \in Names
    /\ content \in IF pc = "push" THEN Versions ELSE {Absent}
    /\ dirty \in BOOLEAN
    /\ failed \in BOOLEAN
    /\ disturbed \in BOOLEAN
    /\ seenAbsent \subseteq Names
    /\ settled \in BOOLEAN

Nothing == [n \in Names |-> Absent]

Init ==
    /\ local \in [Names -> {Absent, 1}]
    /\ clock = local
    /\ remote \in [Hosts -> [Names -> {Absent, Edited}]]
    /\ target \in Hosts
    /\ cache = Nothing
    /\ disk = Nothing
    /\ torn = FALSE
    /\ pc = "idle"
    /\ kind = "full"
    /\ phase = "upload"
    /\ cancelled = FALSE
    /\ present = {}
    /\ desired = Nothing
    /\ deletes = {}
    /\ todo = {}
    /\ current \in Names
    /\ content = Absent
    /\ dirty = FALSE
    /\ failed = FALSE
    /\ disturbed = FALSE
    /\ seenAbsent = {}
    /\ settled = FALSE

-----------------------------------------------------------------------------
(* The surroundings: the source tree and the game. *)

InPass == pc \notin {"idle", "down"}

\* History: an edit, after which the names in gone are missing from the source.
Disturb(gone) ==
    /\ settled' = FALSE
    /\ disturbed' = InPass
    /\ seenAbsent' = IF InPass THEN seenAbsent \cup gone ELSE {}

\* An editor saves n: new bytes, new stamp.
LocalSave(n) ==
    /\ clock[n] < MaxVersion
    /\ clock' = [clock EXCEPT ![n] = @ + 1]
    /\ local' = [local EXCEPT ![n] = clock[n] + 1]
    /\ Disturb({})
    /\ UNCHANGED <<remote, store, process>>

LocalRemove(n) ==
    /\ local[n] # Absent
    /\ local' = [local EXCEPT ![n] = Absent]
    /\ Disturb({n})
    /\ UNCHANGED <<clock, remote, store, process>>

\* The player writes or removes a file inside the game.
GameEdit(h, n) ==
    /\ \E v \in {Absent, Edited} \ {remote[h][n]} : remote' = [remote EXCEPT ![h][n] = v]
    /\ Disturb({})
    /\ UNCHANGED <<source, store, process>>

Environment ==
    \/ \E n \in Names : LocalSave(n) \/ LocalRemove(n)
    \/ \E h \in Hosts, n \in Names : GameEdit(h, n)

-----------------------------------------------------------------------------
(* The life of the process. *)

\* The local variables of a pass go with it, and so does what history says of it.
DropLocals ==
    /\ present' = {}
    /\ desired' = Nothing
    /\ deletes' = {}
    /\ todo' = {}
    /\ content' = Absent
    /\ UNCHANGED current
    /\ dirty' = FALSE
    /\ failed' = FALSE
    /\ disturbed' = FALSE
    /\ seenAbsent' = {}

\* SIGINT or SIGTERM: the context of every later step is cancelled.
Signal ==
    /\ pc # "down"
    /\ ~cancelled
    /\ cancelled' = TRUE
    /\ UNCHANGED <<source, remote, store, target, cache, pc, kind, phase, plan, todo,
                   flight, dirty, failed, history>>

\* The process ends, between any two steps of a pass: killed, or main returns.
Crash ==
    /\ pc # "down"
    /\ pc' = "down"
    /\ cache' = Nothing
    /\ cancelled' = FALSE
    /\ settled' = FALSE
    /\ DropLocals
    /\ UNCHANGED <<source, remote, store, target, kind, phase>>

\* run calls LoadState; a cache file that does not decode makes it return an error.
LoadState ==
    /\ pc = "down"
    /\ ~torn
    /\ cache' = disk
    /\ target' \in Hosts
    /\ pc' = "idle"
    /\ UNCHANGED <<source, remote, store, kind, phase, cancelled, plan, todo, flight, dirty, failed,
                   history>>

\* The user removes a cache file that keeps bbrs from starting.
RemoveCacheFile ==
    /\ pc = "down"
    /\ torn
    /\ torn' = FALSE
    /\ disk' = Nothing
    /\ UNCHANGED <<source, remote, process, history>>

-----------------------------------------------------------------------------
(* One pass. *)

BeginPass ==
    /\ pc = "idle"
    /\ ~cancelled
    /\ seenAbsent' = {n \in Names : local[n] = Absent}
    /\ settled' = FALSE
    /\ UNCHANGED <<source, remote, store, target, cache, phase, cancelled, present, desired,
                   flight, dirty, failed, disturbed>>

Mirror ==
    /\ BeginPass
    /\ kind' = "full"
    /\ pc' = "fetch"
    /\ UNCHANGED <<deletes, todo>>

\* The watcher reports no ignored path; the same path may be in both lists.
SyncChanges(modified, deleted) ==
    /\ BeginPass
    /\ modified \cup deleted # {}
    /\ kind' = "incremental"
    /\ todo' = modified \cap Matched
    /\ deletes' = deleted \cap Matched
    /\ pc' = "stat"

\* A pass that returns an error before it touched the remote side.
Abort ==
    /\ pc' = "idle"
    /\ DropLocals
    /\ UNCHANGED <<source, remote, store, target, cache, kind, phase, cancelled, settled>>

\* os.Stat of a changed path, which follows symbolic links.
Stat(n) ==
    /\ pc = "stat"
    /\ n \in todo
    /\ todo' = todo \ {n}
    /\ desired' = [desired EXCEPT ![n] = local[n]]
    /\ UNCHANGED <<source, remote, store, target, cache, pc, kind, phase, cancelled,
                   present, deletes, flight, dirty, failed, history>>

\* A stat error other than "does not exist".
StatFails == pc = "stat" /\ todo # {} /\ Abort

StatDone ==
    /\ pc = "stat"
    /\ todo = {}
    /\ pc' = "fetch"
    /\ UNCHANGED <<source, remote, store, target, cache, kind, phase, cancelled, plan,
                   todo, flight, dirty, failed, history>>

Planned == {n \in Names : desired[n] # Absent}

GetAllFileMetadata ==
    /\ pc = "fetch"
    /\ present' = {n \in Names : remote[target][n] # Absent}
    /\ pc' = IF kind = "full" THEN "list" ELSE "upload"
    /\ todo' = IF kind = "full" THEN {} ELSE Planned
    /\ UNCHANGED <<source, remote, store, target, cache, kind, phase, cancelled, desired,
                   deletes, flight, dirty, failed, history>>

MetadataFails == pc = "fetch" /\ Abort

ListedThroughLinks == {n \in Names : local[n] # Absent}                   \* mutant
Listed == {n \in Names \ Links : local[n] # Absent}

\* WalkSource reads the directories: regular files, but not in an ignored directory.
ListSource ==
    /\ pc = "list"
    /\ \E hidden \in SUBSET Ignored : todo' = Listed \ hidden
    /\ pc' = "walk"
    /\ UNCHANGED <<source, remote, store, target, cache, kind, phase, cancelled, plan,
                   flight, dirty, failed, history>>

\* The entry's lstat, then the ignore patterns, then the include patterns (visit).
Walk(n) ==
    /\ pc = "walk"
    /\ n \in todo
    /\ local[n] # Absent
    /\ todo' = todo \ {n}
    /\ desired' = [desired EXCEPT ![n] = IF n \in Matched \ Ignored THEN local[n] ELSE Absent]
    /\ UNCHANGED <<source, remote, store, target, cache, pc, kind, phase, cancelled,
                   present, deletes, flight, dirty, failed, history>>

\* A listed file, ignored or not, is gone when it is stat'ed: the walk, and the pass, fail.
WalkFails == pc = "walk" /\ (\E n \in todo : local[n] = Absent) /\ Abort

StaleOutsidePatterns == {n \in present : desired[n] = Absent}             \* mutant
StaleByCache == {n \in present \cap Matched : cache[n] = Absent}          \* mutant
StaleNames == {n \in present \cap Matched : desired[n] = Absent}

BuildDeletes ==
    /\ pc = "walk"
    /\ todo = {}
    /\ deletes' = StaleNames
    /\ todo' = Planned
    /\ pc' = "upload"
    /\ UNCHANGED <<source, remote, store, target, cache, kind, phase, cancelled, present,
                   desired, flight, dirty, failed, history>>

ShouldUpload(n) == cache[n] # desired[n]

SkippedUnlessChanged(n) == ~ShouldUpload(n)                               \* mutant
Skipped(n) == n \in present /\ ~ShouldUpload(n)

RepeatUpload(n) == pc = "upload" /\ ~cancelled /\ n \in todo /\ UNCHANGED todo  \* mutant
\* The next file of applyUploads; cancelling the context ends the loop.
NextUpload(n) ==
    /\ pc = "upload"
    /\ ~cancelled
    /\ n \in todo
    /\ todo' = todo \ {n}

Skip(n) ==
    /\ NextUpload(n)
    /\ Skipped(n)
    /\ UNCHANGED <<source, remote, store, target, cache, pc, kind, phase, cancelled, plan,
                   flight, dirty, failed, history>>

ReadUnchecked(n) ==                                                       \* mutant
    /\ NextUpload(n)
    /\ ~Skipped(n)
    /\ current' = n
    /\ content' = local[n]
    /\ pc' = "push"
    /\ UNCHANGED <<source, remote, store, target, cache, kind, phase, cancelled, plan,
                   dirty, failed, history>>
ReadFile(n) ==
    /\ NextUpload(n)
    /\ ~Skipped(n)
    /\ local[n] # Absent
    /\ current' = n
    /\ content' = local[n]
    /\ pc' = "push"
    /\ UNCHANGED <<source, remote, store, target, cache, kind, phase, cancelled, plan,
                   dirty, failed, history>>

\* The file is gone, or cannot be read.
ReadFileFails(n) ==
    /\ NextUpload(n)
    /\ ~Skipped(n)
    /\ failed' = TRUE
    /\ UNCHANGED <<source, remote, store, target, cache, pc, kind, phase, cancelled, plan,
                   flight, dirty, history>>

RememberStampAfterPush(n) == [cache EXCEPT ![n] = local[n]]               \* mutant
RememberUpload(n) == [cache EXCEPT ![n] = desired[n]]

PushFile ==
    /\ pc = "push"
    /\ remote' = [remote EXCEPT ![target][current] = content]
    /\ cache' = RememberUpload(current)
    /\ dirty' = TRUE
    /\ content' = Absent
    /\ pc' = "upload"
    /\ UNCHANGED <<source, store, target, kind, phase, cancelled, plan, todo, current,
                   failed, history>>

\* An error answer, a timeout or a lost connection; the game may have stored the file.
PushFileFails ==
    /\ pc = "push"
    /\ \/ remote' = [remote EXCEPT ![target][current] = content]
       \/ UNCHANGED remote
    /\ failed' = TRUE
    /\ content' = Absent
    /\ pc' = "upload"
    /\ UNCHANGED <<source, store, target, cache, kind, phase, cancelled, plan, todo,
                   current, dirty, history>>

\* The next file of applyDeletes.
NextDelete(n) ==
    /\ pc = "delete"
    /\ ~cancelled
    /\ n \in todo
    /\ todo' = todo \ {n}

ForgetRemote(n) == [cache EXCEPT ![n] = Absent]

DeleteFile(n) ==
    /\ NextDelete(n)
    /\ remote' = [remote EXCEPT ![target][n] = Absent]
    /\ cache' = ForgetRemote(n)
    /\ dirty' = TRUE
    /\ UNCHANGED <<source, store, target, pc, kind, phase, cancelled, plan, flight,
                   failed, history>>

\* As for a push: the game may have removed the file all the same.
DeleteFileFails(n) ==
    /\ NextDelete(n)
    /\ \/ remote' = [remote EXCEPT ![target][n] = Absent]
       \/ UNCHANGED remote
    /\ failed' = TRUE
    /\ UNCHANGED <<source, store, target, cache, pc, kind, phase, cancelled, plan, flight,
                   dirty, history>>

\* A clean pass: nothing failed, nothing was skipped by a cancelled context.
Clean == kind = "full" /\ ~failed /\ ~cancelled /\ ~disturbed

\* What follows applyUploads (its saveCache included) and applyDeletes.
LeavePhase(ph) ==
    IF ph = "upload"
    THEN /\ pc' = "delete"
         /\ todo' = deletes
         /\ dirty' = FALSE
         /\ UNCHANGED <<present, desired, deletes, flight, failed, history>>
    ELSE /\ pc' = "idle"
         /\ settled' = Clean
         /\ DropLocals

LoopDone ==
    /\ pc \in {"upload", "delete"}
    /\ todo = {} \/ cancelled
    /\ phase' = pc
    /\ IF dirty
       THEN pc' = "save" /\ UNCHANGED <<plan, todo, flight, dirty, failed, history>>
       ELSE LeavePhase(pc)
    /\ UNCHANGED <<source, remote, store, target, cache, kind, cancelled>>

\* os.WriteFile truncates cache.json before it writes the new entries.
Truncate ==
    /\ pc = "save"
    /\ torn' = TRUE
    /\ pc' = "write"
    /\ UNCHANGED <<source, remote, disk, target, cache, kind, phase, cancelled, plan,
                   todo, flight, dirty, failed, history>>

Write ==
    /\ pc = "write"
    /\ disk' = cache
    /\ torn' = FALSE
    /\ LeavePhase(phase)
    /\ UNCHANGED <<source, remote, target, cache, kind, phase, cancelled>>

\* saveCache fails to create the directory, to open the file or to write it.
SaveFails ==
    /\ pc \in {"save", "write"}
    /\ LeavePhase(phase)
    /\ UNCHANGED <<source, remote, store, target, cache, kind, phase, cancelled>>

PassStep ==
    \/ StatFails \/ StatDone \/ GetAllFileMetadata \/ MetadataFails
    \/ ListSource \/ WalkFails \/ BuildDeletes
    \/ PushFile \/ PushFileFails \/ LoopDone \/ Truncate \/ Write \/ SaveFails
    \/ \E n \in Names : \/ Stat(n) \/ Walk(n) \/ Skip(n) \/ ReadFile(n)
                        \/ ReadFileFails(n) \/ DeleteFile(n) \/ DeleteFileFails(n)

Reported == SUBSET (Names \ Ignored)

Process ==
    \/ Signal \/ Crash \/ LoadState \/ RemoveCacheFile
    \/ Mirror
    \/ \E modified, deleted \in Reported : SyncChanges(modified, deleted)
    \/ PassStep

Next == Environment \/ Process

Spec == Init /\ [][Next]_vars

\* Every call of a pass returns: requests time out, loops visit each name once.
FairSpec == Spec /\ WF_vars(PassStep)

-----------------------------------------------------------------------------
(* Properties. *)

\* Whoever trusts entry n of a cache is right: what the game holds for n, if
\* bbrs uploaded it, is at least as new as the stamp.
Trustworthy(entries) ==
    \A n \in Names : (entries[n] # Absent /\ remote[target][n] \in Versions)
                         => remote[target][n] >= entries[n]

\* Neither the cache in memory nor the one a restart would load claims more
\* than what was uploaded: a stamp is taken before the bytes are read, entries
\* are written after the game answered, whatever fails or crashes in between.
CacheSound == Trustworthy(cache) /\ Trustworthy(disk)

\* Mirror's promise: after a full pass that reported no failure and met no edit,
\* the game holds exactly the desired files, each at its current version, or as
\* the player edited it since it was uploaded.  It relies on every earlier pass,
\* failure and restart having left a cache that can be trusted.
IsDesired(n) == n \in Matched \ (Ignored \cup Links) /\ local[n] # Absent
CleanMirrorConverges ==
    settled => \A n \in Matched :
        remote[target][n] \in IF IsDesired(n) THEN {local[n], Edited} ELSE {Absent}

\* bbrs touches a remote file only on the target host, under the destination,
\* and where an include pattern matches (BuildDeletes, BuildDesired).  (That it is the
\* target host says something of two hosts only.)
OnlyOwnedFiles ==
    [][ process' # process =>
        \A h \in Hosts, n \in Names :
            remote'[h][n] # remote[h][n] => h = target /\ n \in Matched ]_vars

\* A full pass asks to delete no remote file whose source was there all through
\* the pass, whatever is saved, edited in the game or lost in the meantime.  One that
\* is made after the walk came by may be deleted: it takes its event to bring it back.
MirrorNeverDeletesLive ==
    [][ \A n \in todo \ todo' : (kind = "full" /\ pc = "delete" /\ pc' = "delete") =>
            n \in seenAbsent \cup Ignored \cup Links ]_vars

\* Every pass comes to an end unless the process does.
PassEnds == InPass ~> ~InPass

=============================================================================
