-------------------------------- MODULE Bbrs --------------------------------
(***************************************************************************)
(* The whole of bbrs: watcher, scheduler and sync passes, and what becomes *)
(* of a saved file between them and the game.                              *)
(*                                                                         *)
(* Each component is taken at the grain its own module justifies.  Poll    *)
(* treats names one by one: a name has its events and its snapshots (Watch *)
(* has the queue they share and the scan).  queueSync is a single step, of *)
(* syncLoop only the unlocked check at its head is apart from the rest     *)
(* (SyncWorker has their inside).  A pass plans, uploads and deletes, and  *)
(* an upload that is skipped finds the game's file as it should be         *)
(* (Syncer, CacheSound).                                                   *)
(***************************************************************************)
EXTENDS Naturals, Sequences

CONSTANTS
    Names,       \* source-relative paths, matched and not ignored
    MaxEdits     \* bound: how many saves there are in all

ASSUME EditsAssumption == MaxEdits \in Nat \ {0}

Absent == 0
Files == [Names -> 0..MaxEdits]

VARIABLES
    local,       \* source tree: version of each name, or Absent
    edits,       \* how many saves there were: the newest version
    game,        \* the files of the target host
    watching,    \* Poll has not returned
    events,      \* fsnotify events of each name that Poll has not received
    seeded,      \* names the first snapshot has looked at
    previous,    \* the watcher's last snapshot
    modified,    \* its pending.Modified
    deleted,     \* its pending.Deleted
    client,      \* app.client is set and connected
    link,        \* the connection itself, as in SyncWorker: "up", "down" or "gone"
    pending,     \* app.pending: no job, or one
    stage,       \* where the loop is: "idle" (running is false), "check" and "stop"
                 \* (hasConnectedClient at its head, and what follows), "plan", "apply"
    job,         \* the job taken, until it is planned
    uploads,     \* files the pass has still to upload
    deletes,     \* files it deletes after them
    missed       \* history: names whose last change nobody will bring to the game:
                 \* nobody will tell of it, or those who were told have given it up

source   == <<local, edits>>
told     == <<modified, deleted>>
watcher  == <<watching, events, seeded, previous, told>>
conn     == <<client, link>>
plan     == <<uploads, deletes>>
vars     == <<source, game, watcher, conn, pending, stage, job, plan, missed>>

\* A ChangeSet; the empty one asks for a full pass (defaultSyncFn).
Jobs == [modified : SUBSET Names, deleted : SUBSET Names]
Full == [modified |-> {}, deleted |-> {}]
Covers(j) == IF j = Full THEN Names ELSE j.modified \cup j.deleted

TypeOK ==
    /\ local \in Files
    /\ edits \in 0..MaxEdits
    /\ game \in Files
    /\ watching \in BOOLEAN
    /\ events \in [Names -> Seq({"write", "remove"})]
    /\ seeded \subseteq Names
    /\ previous \in Files
    /\ modified \subseteq Names
    /\ deleted \subseteq Names
    /\ client \in BOOLEAN
    /\ link \in {"up", "down", "gone"}
    /\ pending \subseteq Jobs
    /\ \A j, k \in pending : j = k
    /\ stage \in {"idle", "check", "stop", "plan", "apply"}
    /\ job \in Jobs
    /\ uploads \subseteq Names
    /\ deletes \subseteq Names
    /\ missed \subseteq Names

NoEvents == [n \in Names |-> <<>>]
NoFiles == [n \in Names |-> Absent]

\* run starts Poll and listens; the first snapshot comes with the first tick, and
\* the game may connect before it.
Init ==
    /\ local \in [Names -> {Absent, 1}]
    /\ edits = 1
    /\ game \in [Names -> {Absent, 1}]
    /\ watching = TRUE
    /\ events = NoEvents
    /\ seeded = {}
    /\ previous = NoFiles
    /\ modified = {}
    /\ deleted = {}
    /\ client = FALSE
    /\ link = "down"
    /\ pending = {}
    /\ stage = "idle"
    /\ job = Full
    /\ uploads = {}
    /\ deletes = {}
    /\ missed = Names

-----------------------------------------------------------------------------
(* The source tree. *)

\* The file n changes in the way op.  Its directory may have no watch, or have been
\* moved as a whole: then no event says so, and only two snapshots that differ do.
Notify(n, op) == \E heard \in BOOLEAN :
    /\ events' = IF watching /\ heard THEN [events EXCEPT ![n] = Append(@, op)] ELSE events
    /\ missed' = IF watching /\ (heard \/ (n \in seeded /\ previous[n] # local'[n]))
                 THEN missed \ {n}
                 ELSE missed \cup {n}
    /\ UNCHANGED <<game, watching, seeded, previous, told, conn, pending, stage, job, plan>>

\* n is created or written.
Save(n) ==
    /\ edits < MaxEdits
    /\ edits' = edits + 1
    /\ local' = [local EXCEPT ![n] = edits + 1]
    /\ Notify(n, "write")

\* n is removed, or renamed away.
Remove(n) ==
    /\ local[n] # Absent
    /\ local' = [local EXCEPT ![n] = Absent]
    /\ UNCHANGED edits
    /\ Notify(n, "remove")

-----------------------------------------------------------------------------
(* The watcher. *)

\* changesFromEvent: a write is looked up, a remove or a rename is believed.
Modifies(op, n) == op = "write" /\ local[n] # Absent

\* Poll receives the next event of n; record drops it before the first snapshot.
TakeEvent(n) ==
    /\ events[n] # <<>>
    /\ events' = [events EXCEPT ![n] = Tail(@)]
    /\ IF n \notin seeded
       THEN missed' = missed \cup {n} /\ UNCHANGED told
       ELSE /\ IF Modifies(Head(events[n]), n)
               THEN modified' = modified \cup {n} /\ UNCHANGED deleted
               ELSE deleted' = deleted \cup {n} /\ UNCHANGED modified
            /\ UNCHANGED missed
    /\ UNCHANGED <<source, game, watching, seeded, previous, conn, pending, stage, job, plan>>

\* A snapshot looks at n: the first one only seeds, others are held against the last.
Snapshot(n) ==
    /\ watching
    /\ n \notin seeded \/ previous[n] # local[n]
    /\ seeded' = seeded \cup {n}
    /\ previous' = [previous EXCEPT ![n] = local[n]]
    /\ IF n \notin seeded
       THEN UNCHANGED told
       ELSE IF local[n] # Absent
       THEN modified' = modified \cup {n} /\ UNCHANGED deleted
       ELSE deleted' = deleted \cup {n} /\ UNCHANGED modified
    /\ UNCHANGED <<source, game, watching, events, conn, pending, stage, job, plan, missed>>

\* What the watcher has still to tell, or to hand over.
Untold == modified \cup deleted
            \cup {n \in Names : events[n] # <<>> \/ (n \in seeded /\ previous[n] # local[n])}

\* A snapshot, the stat of an event's file or the watcher itself fails: Poll returns,
\* what it knows goes with it, and bbrs goes on without it.
WatchEnds ==
    /\ watching
    /\ watching' = FALSE
    /\ events' = NoEvents
    /\ seeded' = {}
    /\ previous' = NoFiles
    /\ modified' = {}
    /\ deleted' = {}
    /\ missed' = missed \cup Untold
    /\ UNCHANGED <<source, game, conn, pending, stage, job, plan>>

-----------------------------------------------------------------------------
(* queueSync. *)

OldestJob(current, incoming) ==                                           \* mutant
    IF current = {} THEN incoming ELSE CHOOSE j \in current : TRUE
\* The lists of both jobs, appended.
mergeJobs(current, incoming) ==
    [modified |-> (UNION {j.modified : j \in current}) \cup incoming.modified,
     deleted  |-> (UNION {j.deleted  : j \in current}) \cup incoming.deleted]

QueueApart(changes, connected) ==                                         \* mutant
    /\ pending' = pending \cup {changes}
    /\ UNCHANGED <<stage, job>>
\* The job waits while a loop runs or nobody is connected, else it starts the loop.
queueSync(changes, connected) ==
    LET merged == mergeJobs(pending, changes)
    IN  IF stage = "idle" /\ connected
        THEN job' = merged /\ pending' = {} /\ stage' = "check"
        ELSE pending' = {merged} /\ UNCHANGED <<stage, job>>

\* The debounce timer fires.
Flush ==
    /\ modified \cup deleted # {}
    /\ queueSync([modified |-> modified, deleted |-> deleted], client)
    /\ modified' = {}
    /\ deleted' = {}
    /\ UNCHANGED <<source, game, watching, events, seeded, previous, conn, plan, missed>>

-----------------------------------------------------------------------------
(* The connection. *)

\* handleWebSocket; while app.client is set, another connection is refused.  The
\* game may be gone before the upgrade is over.
Connect ==
    /\ ~client
    /\ client' = TRUE
    /\ link' \in {"up", "gone"}
    /\ queueSync(Full, TRUE)
    /\ UNCHANGED <<source, game, watcher, plan, missed>>

\* The game is gone, and nothing tells bbrs before it calls.
Vanish ==
    /\ link = "up"
    /\ link' = "down"
    /\ UNCHANGED <<source, game, watcher, client, pending, stage, job, plan, missed>>

\* Names whose change is not brought to the game: a job or a call is given up.
Forfeit(names) == missed' = missed \cup names

\* The client is marked disconnected and cleared; its calls that are left fail at once.
LoseClient ==
    /\ client' = FALSE
    /\ link' = "down"
    /\ uploads' = {}
    /\ deletes' = {}

\* The handler's select: the context of a request whose peer was gone early is done.
ContextDone ==
    /\ client /\ link = "gone"
    /\ LoseClient
    /\ Forfeit(uploads \cup deletes)
    /\ UNCHANGED <<source, game, watcher, pending, stage, job>>

-----------------------------------------------------------------------------
(* syncLoop, and the pass of the running job. *)

\* The head of the loop looks for a client, without workerMu.
CheckClient ==
    /\ stage = "check"
    /\ stage' = IF client THEN "plan" ELSE "stop"
    /\ UNCHANGED <<source, game, watcher, conn, pending, job, plan, missed>>

\* It found none: running is reset and the job dropped.  If a client has come by now,
\* its own job was queued behind this loop and nobody takes it.
Stop ==
    /\ stage = "stop"
    /\ stage' = "idle"
    /\ job' = Full
    /\ Forfeit(Covers(job) \cup UNION {Covers(j) : j \in IF client THEN pending ELSE {}})
    /\ UNCHANGED <<source, game, watcher, conn, pending, plan>>

Present == {n \in Names : local[n] # Absent}
Alive == link = "up"

PlanFull ==
    /\ stage = "plan" /\ job = Full /\ Alive
    /\ uploads' = Present
    /\ deletes' = {n \in Names \ Present : game[n] # Absent}
    /\ missed' = {}
    /\ stage' = "apply"
    /\ UNCHANGED <<source, game, watcher, conn, pending, job>>

\* Only what is to be uploaded is looked up: a delete is carried out as it was told.
PlanChanges ==
    /\ stage = "plan" /\ job # Full /\ Alive
    /\ uploads' = job.modified \cap Present
    /\ deletes' = job.deleted
    /\ missed' = (missed \ (uploads' \cup deletes')) \cup (deletes' \cap Present)
    /\ stage' = "apply"
    /\ job' = Full
    /\ UNCHANGED <<source, game, watcher, conn, pending>>

\* A stat or the walk fails, or the metadata call is refused: the job is dropped.
PlanFails ==
    /\ stage = "plan"
    /\ Forfeit(Covers(job))
    /\ stage' = "apply"
    /\ job' = Full
    /\ UNCHANGED <<source, game, watcher, conn, pending, plan>>

Upload(n) ==
    /\ n \in uploads \cap Present /\ Alive
    /\ game' = [game EXCEPT ![n] = local[n]]
    /\ uploads' = uploads \ {n}
    /\ UNCHANGED <<source, watcher, conn, pending, stage, job, deletes, missed>>

\* The file was removed since: it cannot be read.
UploadGone(n) ==
    /\ n \in uploads \ Present
    /\ uploads' = uploads \ {n}
    /\ UNCHANGED <<source, game, watcher, conn, pending, stage, job, deletes, missed>>

\* It cannot be read for another reason, or the game refuses it.
UploadFails(n) ==
    /\ n \in uploads
    /\ uploads' = uploads \ {n}
    /\ Forfeit({n})
    /\ UNCHANGED <<source, game, watcher, conn, pending, stage, job, deletes>>

Delete(n) ==
    /\ uploads = {} /\ n \in deletes /\ Alive
    /\ game' = [game EXCEPT ![n] = Absent]
    /\ deletes' = deletes \ {n}
    /\ UNCHANGED <<source, watcher, conn, pending, stage, job, uploads, missed>>

DeleteFails(n) ==
    /\ uploads = {} /\ n \in deletes
    /\ deletes' = deletes \ {n}
    /\ Forfeit({n})
    /\ UNCHANGED <<source, game, watcher, conn, pending, stage, job, uploads>>

Answered == Alive                                                         \* mutant
\* A call is cut off or times out.
TimesOut == TRUE

\* The client is lost, or runOneSync finds it lost: a job not yet planned is dropped.
CallFails ==
    /\ stage = "plan" \/ uploads \cup deletes # {}
    /\ TimesOut
    /\ LoseClient
    /\ Forfeit(IF stage = "plan" THEN Covers(job) ELSE uploads \cup deletes)
    /\ stage' = "apply"
    /\ job' = Full
    /\ UNCHANGED <<source, game, watcher, pending>>

NeverWaiting == FALSE                                                     \* mutant
Waiting == client /\ pending # {}

\* The tail of the loop, under workerMu: what arrived during the pass is the next job.
TakeNext ==
    /\ stage = "apply" /\ uploads \cup deletes = {}
    /\ IF Waiting
       THEN job' \in pending /\ pending' = {} /\ stage' = "check"
       ELSE stage' = "idle" /\ UNCHANGED <<job, pending>>
    /\ UNCHANGED <<source, game, watcher, conn, plan, missed>>

LoopStep ==
    \/ CheckClient \/ Stop \/ PlanFull \/ PlanChanges \/ CallFails \/ TakeNext
    \/ \E n \in Names : Upload(n) \/ UploadGone(n) \/ Delete(n)

\* What goes wrong without the connection being lost.
Refusal == PlanFails \/ \E n \in Names : UploadFails(n) \/ DeleteFails(n)

Next ==
    \/ \E n \in Names : Save(n) \/ Remove(n) \/ TakeEvent(n) \/ Snapshot(n)
    \/ WatchEnds \/ Flush \/ Connect \/ Vanish \/ ContextDone \/ LoopStep \/ Refusal

Spec == Init /\ [][Next]_vars

\* Poll serves its cases while it runs, and a pass goes on: its calls end within
\* RequestTimeout.
FairSpec ==
    /\ Spec
    /\ \A n \in Names : WF_vars(TakeEvent(n)) /\ WF_vars(Snapshot(n))
    /\ WF_vars(Flush)
    /\ WF_vars(LoopStep)

-----------------------------------------------------------------------------
(* Properties. *)

\* Nothing is in hand: no change untold, none pending, no loop.
Quiet ==
    /\ watching => seeded = Names
    /\ Untold = {}
    /\ pending = {}
    /\ stage = "idle"

\* When bbrs has nothing left to do, a file differs between game and source only
\* for one of these reasons, all of which missed records:
\*   - no full pass has been planned since the program started;
\*   - its change was before the first snapshot looked at it, and the event was
\*     received before that too, or there was none;
\*   - it came and went between two snapshots and there was no event;
\*   - its change was after Poll had returned, or not yet handed over by then;
\*   - it was reported deleted and is there when the report is planned;
\*   - the loop found no client, the pass failed, or the file's own call did.
\* No interleaving of edits, events, snapshots, flushes, connections and passes loses
\* a change in any other way.
QuietIsMirrored == Quiet => \A n \in Names : game[n] # local[n] => n \in missed

\* While the game stays connected, a difference is mirrored in the end, or is of a
\* file given up for one of these reasons, or because its job was queued behind a
\* loop that had found no client: nothing else waits for ever.
ChangeIsMirrored ==
    \A n \in Names : game[n] # local[n] ~> (game[n] = local[n] \/ n \in missed \/ ~client)

\* A game that went away without a word keeps its place, and its successor out,
\* until the next change: then a call times out, or the change is given up unread.
VanishedGameNoticed ==
    \A n \in Names :
        (client /\ ~Alive /\ n \in modified \cup deleted) ~> (~client \/ n \in missed)

=============================================================================
