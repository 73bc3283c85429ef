----------------------------- MODULE BbrsProofs -----------------------------
(***************************************************************************)
(* Theorems about Bbrs, for any set of files and any number of edits: a    *)
(* change is never lost between the events, the snapshots, the pending     *)
(* job, the running pass and the game but in the ways that missed records. *)
(***************************************************************************)
EXTENDS Bbrs, TLAPS

(***************************************************************************)
(* A ChangeSet says of n what is right: that it is modified if it exists,  *)
(* that it is deleted if it does not.                                      *)
(***************************************************************************)
Right(j, n) == IF local[n] # Absent THEN n \in j.modified ELSE n \in j.deleted

\* The events that wait will say what is right: every event of a file that is gone
\* does, of a file that is there only a write.
EventTells(n) ==
    /\ events[n] # <<>>
    /\ local[n] # Absent => \E i \in 1..Len(events[n]) : events[n][i] = "write"

SnapshotTells(n) == n \in seeded /\ previous[n] # local[n]
Recorded == [modified |-> modified, deleted |-> deleted]

\* Somebody other than the loop knows what is right of n.
ToldLater(n) ==
    EventTells(n) \/ SnapshotTells(n) \/ Right(Recorded, n) \/ \E j \in pending : Right(j, n)

HasJob == stage \in {"check", "stop", "plan"}
Told(n) == (HasJob /\ Right(job, n)) \/ ToldLater(n)
Planned(n) == IF local[n] # Absent THEN n \in uploads ELSE n \in deletes

\* Only a pass has a plan; what it deletes by mistake is told again, or given up.
PlanInv ==
    /\ stage # "apply" => uploads = {} /\ deletes = {}
    /\ \A n \in deletes : local[n] # Absent => n \in missed \/ ToldLater(n)

(***************************************************************************)
(* The invariant that QuietIsMirrored follows from: a difference between   *)
(* the game and the source is known to somebody, or given up.  A full job  *)
(* does not count: a job merged with it would take it away.                *)
(***************************************************************************)
Known == \A n \in Names : game[n] # local[n] => n \in missed \/ Told(n) \/ Planned(n)

Inv == PlanInv /\ Known

-----------------------------------------------------------------------------
LEMMA InitTypeOK == Init => TypeOK
<1> SUFFICES ASSUME Init PROVE TypeOK
  OBVIOUS
<1>1. 1 \in 0..MaxEdits /\ {Absent, 1} \subseteq 0..MaxEdits
  BY EditsAssumption DEF Absent
<1>2. Full \in Jobs
  BY DEF Full, Jobs
<1>3. local \in Files /\ game \in Files /\ previous \in Files
  BY <1>1 DEF Init, Files, NoFiles
<1>4. events \in [Names -> Seq({"write", "remove"})]
  BY DEF Init, NoEvents
<1>5. QED BY <1>1, <1>2, <1>3, <1>4 DEF Init, TypeOK

LEMMA MergeTypeOK ==
  ASSUME NEW jobs \in SUBSET Jobs, NEW j \in Jobs
  PROVE  mergeJobs(jobs, j) \in Jobs
<1>1. \A k \in jobs \cup {j} : k.modified \subseteq Names /\ k.deleted \subseteq Names
  BY DEF Jobs
<1>2. /\ (UNION {k.modified : k \in jobs}) \cup j.modified \subseteq Names
      /\ (UNION {k.deleted : k \in jobs}) \cup j.deleted \subseteq Names
  BY <1>1
<1>3. QED BY <1>2 DEF mergeJobs, Jobs

LEMMA QueueTypeOK ==
  ASSUME TypeOK, NEW j \in Jobs, NEW c \in BOOLEAN, queueSync(j, c)
  PROVE  /\ pending' \subseteq Jobs /\ \A k, m \in pending' : k = m
         /\ stage' \in {"idle", "check", "stop", "plan", "apply"} /\ job' \in Jobs
<1> DEFINE merged == mergeJobs(pending, j)
<1>1. merged \in Jobs
  BY MergeTypeOK DEF TypeOK
<1> HIDE DEF merged
<1>2. QED BY <1>1 DEF queueSync, TypeOK, merged

LEMMA CoversTyped == ASSUME NEW j \in Jobs PROVE Covers(j) \subseteq Names
BY DEF Covers, Jobs

\* An edit keeps the types: what is told of it is an event, or nothing.
LEMMA EditTypeOK ==
  ASSUME TypeOK, NEW n \in Names, Save(n) \/ Remove(n)
  PROVE  TypeOK'
<1> USE EditsAssumption DEF Absent
<1>1. local' \in Files /\ edits' \in 0..MaxEdits
  BY DEF TypeOK, Files, Save, Remove
<1>2. /\ events' \in [Names -> Seq({"write", "remove"})]
      /\ missed' \subseteq Names
  <2> DEFINE E == Seq({"write", "remove"})
  <2>1. PICK op \in {"write", "remove"} : Notify(n, op)
    BY DEF Save, Remove
  <2>2. events \in [Names -> E] /\ missed \subseteq Names
    BY DEF TypeOK
  <2>3. Append(events[n], op) \in E
    BY <2>2
  <2> HIDE DEF E
  <2>4. [events EXCEPT ![n] = Append(@, op)] \in [Names -> E]
    BY <2>2, <2>3
  <2>5. events' \in [Names -> E] /\ missed' \subseteq Names
    BY <2>1, <2>2, <2>4 DEF Notify
  <2>6. QED BY <2>5 DEF E
<1>3. UNCHANGED <<game, watching, seeded, previous, modified, deleted, client, link, pending,
                  stage, job, uploads, deletes>>
  BY DEF Save, Remove, Notify, told, conn, plan
<1>4. QED BY <1>1, <1>2, <1>3 DEF TypeOK, Files

LEMMA WatcherTypeOK ==
  ASSUME TypeOK, NEW n \in Names, TakeEvent(n) \/ Snapshot(n)
  PROVE  TypeOK'
<1>1. events' \in [Names -> Seq({"write", "remove"})]
  <2> DEFINE E == Seq({"write", "remove"})
  <2>1. events \in [Names -> E]
    BY DEF TypeOK
  <2>2. CASE TakeEvent(n)
    <3>1. events[n] \in E /\ events[n] # <<>>
      BY <2>1, <2>2 DEF TakeEvent
    <3>2. Tail(events[n]) \in E
      BY <3>1
    <3> HIDE DEF E
    <3>3. events' \in [Names -> E]
      BY <2>1, <2>2, <3>2 DEF TakeEvent
    <3>4. QED BY <3>3 DEF E
  <2>3. CASE Snapshot(n)
    BY <2>1, <2>3 DEF Snapshot
  <2>4. QED BY <2>2, <2>3
<1>2. /\ seeded' \subseteq Names /\ previous' \in Files
      /\ modified' \subseteq Names /\ deleted' \subseteq Names /\ missed' \subseteq Names
  BY DEF TypeOK, TakeEvent, Snapshot, told, Files
<1>3. UNCHANGED <<local, edits, game, watching, client, link, pending, stage, job, uploads, deletes>>
  BY DEF TakeEvent, Snapshot, source, conn, plan
<1>4. QED BY <1>1, <1>2, <1>3 DEF TypeOK, Files

LEMMA StepTypeOK == TypeOK /\ [Next]_vars => TypeOK'
<1> SUFFICES ASSUME TypeOK, [Next]_vars PROVE TypeOK'
  OBVIOUS
<1> DEFINE Stages == {"idle", "check", "stop", "plan", "apply"}
<1>1. Full \in Jobs
  BY DEF Full, Jobs
<1>2. CASE UNCHANGED vars
  BY <1>2 DEF vars, source, watcher, told, conn, plan, TypeOK, Files
<1>3. CASE \E n \in Names : Save(n) \/ Remove(n) \/ TakeEvent(n) \/ Snapshot(n)
  BY <1>3, EditTypeOK, WatcherTypeOK
<1>4. CASE WatchEnds
  <2>1. NoEvents \in [Names -> Seq({"write", "remove"})] /\ NoFiles \in Files
    BY EditsAssumption DEF NoEvents, NoFiles, Files, Absent
  <2>2. Untold \subseteq Names
    BY DEF Untold, TypeOK
  <2>3. QED BY <1>4, <2>1, <2>2 DEF WatchEnds, TypeOK, source, conn, plan, Files
<1>5. CASE Flush
  <2>1. Recorded \in Jobs
    BY DEF Recorded, Jobs, TypeOK
  <2>2. /\ pending' \subseteq Jobs /\ \A k, m \in pending' : k = m
        /\ stage' \in Stages /\ job' \in Jobs
    BY <1>5, <2>1, QueueTypeOK DEF Flush, Recorded, TypeOK
  <2>3. QED BY <1>5, <2>2 DEF Flush, TypeOK, source, conn, plan, Files
<1>6. CASE Connect
  <2>1. /\ pending' \subseteq Jobs /\ \A k, m \in pending' : k = m
        /\ stage' \in Stages /\ job' \in Jobs
    BY <1>1, <1>6, QueueTypeOK DEF Connect
  <2>2. QED BY <1>6, <2>1 DEF Connect, TypeOK, source, watcher, told, plan, Files
<1>7. CASE Vanish \/ ContextDone
  BY <1>7 DEF Vanish, ContextDone, LoseClient, Forfeit, TypeOK, source, watcher, told, plan, Files
<1>8. CASE CheckClient \/ Stop \/ TakeNext
  <2>1. \A j \in pending \cup {job} : Covers(j) \subseteq Names
    BY CoversTyped DEF TypeOK
  <2>2. QED
    BY <1>1, <1>8, <2>1
    DEF CheckClient, Stop, TakeNext, Forfeit, TypeOK, source, watcher, told, conn, plan, Files
<1>9. CASE PlanFull \/ PlanChanges \/ PlanFails \/ CallFails
  <2>1. Covers(job) \subseteq Names /\ job.modified \subseteq Names /\ job.deleted \subseteq Names
    BY CoversTyped DEF TypeOK, Jobs
  <2>2. /\ uploads' \subseteq Names /\ deletes' \subseteq Names /\ missed' \subseteq Names
        /\ stage' = "apply" /\ job' \in Jobs /\ client' \in BOOLEAN /\ link' \in {"up", "down", "gone"}
    BY <1>1, <1>9, <2>1
    DEF PlanFull, PlanChanges, PlanFails, CallFails, LoseClient, Forfeit, Present, TypeOK, conn, plan
  <2>3. UNCHANGED <<local, edits, game, watching, events, seeded, previous, modified, deleted, pending>>
    BY <1>9 DEF PlanFull, PlanChanges, PlanFails, CallFails, source, watcher, told
  <2>4. QED BY <2>2, <2>3 DEF TypeOK, Files
<1>10. CASE \E n \in Names : Upload(n) \/ UploadGone(n) \/ UploadFails(n) \/ Delete(n) \/ DeleteFails(n)
  <2>1. PICK n \in Names : Upload(n) \/ UploadGone(n) \/ UploadFails(n) \/ Delete(n) \/ DeleteFails(n)
    BY <1>10
  <2>2. /\ game' \in Files /\ uploads' \subseteq Names /\ deletes' \subseteq Names
        /\ missed' \subseteq Names
    BY <2>1, EditsAssumption
    DEF Upload, UploadGone, UploadFails, Delete, DeleteFails, Forfeit, TypeOK, Files, Absent
  <2>3. UNCHANGED <<local, edits, watching, events, seeded, previous, modified, deleted, client, link,
                    pending, stage, job>>
    BY <2>1 DEF Upload, UploadGone, UploadFails, Delete, DeleteFails, source, watcher, told, conn
  <2>4. QED BY <2>2, <2>3 DEF TypeOK, Files
<1>11. QED
  BY <1>2, <1>3, <1>4, <1>5, <1>6, <1>7, <1>8, <1>9, <1>10 DEF Next, LoopStep, Refusal

\* The watcher, the pending job, the loop and the game always have their types, and
\* there is never more than one pending job.
THEOREM BbrsTypeCorrect == Spec => []TypeOK
<1>1. QED BY InitTypeOK, StepTypeOK, PTL DEF Spec

-----------------------------------------------------------------------------
LEMMA InitInv == Init => Inv
BY DEF Init, Inv, PlanInv, Known

\* A merged job says right what its parts do.
LEMMA Merged ==
  ASSUME NEW jobs, NEW j, NEW n
  PROVE  Right(mergeJobs(jobs, j), n) <=> Right(j, n) \/ \E k \in jobs : Right(k, n)
<1> DEFINE m == mergeJobs(jobs, j)
<1>1. /\ n \in m.modified <=> n \in j.modified \/ \E k \in jobs : n \in k.modified
      /\ n \in m.deleted <=> n \in j.deleted \/ \E k \in jobs : n \in k.deleted
  BY DEF mergeJobs
<1> HIDE DEF m
<1>2. QED BY <1>1 DEF Right, m

\* What a job says right is among the names it covers.
LEMMA RightCovered == \A j, n : n \in Names /\ Right(j, n) => n \in Covers(j)
BY DEF Right, Covers

\* Neither source, game nor plan changes: what was told still is, or is given up.
LEMMA Carried ==
  ASSUME TypeOK, Inv, UNCHANGED <<local, game, uploads, deletes>>,
         stage' # "apply" => uploads = {} /\ deletes = {},
         \A n \in Names : n \in missed => n \in missed',
         \A n \in Names : Told(n) => n \in missed' \/ Told(n)',
         \A n \in Names : ToldLater(n) /\ stage' = "apply" => n \in missed' \/ ToldLater(n)'
  PROVE  Inv'
<1>1. \A n \in Names : Planned(n)' <=> Planned(n)
  BY DEF Planned
<1>2. PlanInv'
  BY DEF Inv, PlanInv, TypeOK
<1>3. Known'
  BY <1>1 DEF Inv, Known
<1>4. QED BY <1>2, <1>3 DEF Inv

\* The same of what the watcher does: the loop is where it was.
LEMMA WatcherCarried ==
  ASSUME TypeOK, Inv, UNCHANGED <<local, game, uploads, deletes, stage, job, pending>>,
         \A n \in Names : n \in missed => n \in missed',
         \A n \in Names : EventTells(n) \/ SnapshotTells(n) \/ Right(Recorded, n)
            => n \in missed' \/ EventTells(n)' \/ SnapshotTells(n)' \/ Right(Recorded, n)'
  PROVE  Inv'
<1>1. \A n : /\ Right(job, n)' <=> Right(job, n)
             /\ \A j : Right(j, n)' <=> Right(j, n)
  BY DEF Right
<1>2. \A n \in Names : ToldLater(n) => n \in missed' \/ ToldLater(n)'
  BY <1>1 DEF ToldLater
<1>3. \A n \in Names : Told(n) => n \in missed' \/ Told(n)'
  BY <1>1, <1>2 DEF Told, HasJob
<1>4. QED BY <1>2, <1>3, Carried DEF Inv, PlanInv

-----------------------------------------------------------------------------
\* The source changes at n: an event or a snapshot will tell, or the change is missed.
LEMMA EditInv ==
  ASSUME TypeOK, Inv, NEW n \in Names, Save(n) \/ Remove(n)
  PROVE  Inv'
<1>1. PICK op \in {"write", "remove"} :
        /\ Notify(n, op)
        /\ local' = [local EXCEPT ![n] = local'[n]]
        /\ local'[n] # Absent => op = "write"
  BY EditsAssumption DEF Save, Remove, TypeOK, Files
<1>2. UNCHANGED <<game, seeded, previous, modified, deleted, pending, stage, job, uploads, deletes>>
  BY <1>1 DEF Notify, told, conn, plan
<1>3. \A m \in Names \ {n} : /\ local'[m] = local[m] /\ events'[m] = events[m]
                             /\ m \in missed => m \in missed'
  BY <1>1 DEF Notify, TypeOK, Files
<1>4. n \in missed' \/ EventTells(n)' \/ SnapshotTells(n)'
  <2>1. CASE events' = [events EXCEPT ![n] = Append(@, op)]
    <3> DEFINE s == events[n]
    <3>1. s \in Seq({"write", "remove"}) /\ events'[n] = Append(s, op)
      BY <2>1 DEF TypeOK
    <3> HIDE DEF s
    <3>2. /\ Append(s, op) # <<>>
          /\ Append(s, op)[Len(s) + 1] = op /\ Len(s) + 1 \in 1..Len(Append(s, op))
      BY <3>1
    <3>3. EventTells(n)'
      BY <1>1, <3>1, <3>2 DEF EventTells
    <3>4. QED BY <3>3
  <2>2. CASE events' # [events EXCEPT ![n] = Append(@, op)]
    BY <1>1, <1>2, <2>2 DEF Notify, SnapshotTells
  <2>3. QED BY <2>1, <2>2
<1>5. \A m \in Names \ {n} : /\ ToldLater(m)' <=> ToldLater(m)
                             /\ Told(m)' <=> Told(m)
                             /\ Planned(m)' <=> Planned(m)
  BY <1>2, <1>3 DEF ToldLater, EventTells, SnapshotTells, Right, Recorded, Told, HasJob, Planned
<1>6. n \in missed' \/ ToldLater(n)'
  BY <1>4 DEF ToldLater
<1>7. PlanInv'
  BY <1>2, <1>3, <1>5, <1>6 DEF Inv, PlanInv, TypeOK
<1>8. Known'
  BY <1>2, <1>3, <1>5, <1>6 DEF Inv, Known, Told
<1>9. QED BY <1>7, <1>8 DEF Inv

\* The event that is received is recorded, or dropped; those behind it still wait.
LEMMA TakeEventInv ==
  ASSUME TypeOK, Inv, NEW n \in Names, TakeEvent(n)
  PROVE  Inv'
<1>1. UNCHANGED <<local, game, uploads, deletes, stage, job, pending, seeded, previous>>
  BY DEF TakeEvent, source, conn, plan
<1>2. /\ \A m \in Names : m \in missed => m \in missed'
      /\ modified \subseteq modified' /\ deleted \subseteq deleted'
  BY DEF TakeEvent, told
<1>3. \A m \in Names : /\ SnapshotTells(m) => SnapshotTells(m)'
                       /\ Right(Recorded, m) => Right(Recorded, m)'
  BY <1>1, <1>2 DEF SnapshotTells, Right, Recorded
<1>4. \A m \in Names \ {n} : EventTells(m) => EventTells(m)'
  BY <1>1 DEF TakeEvent, EventTells, TypeOK
<1>5. ASSUME EventTells(n) PROVE n \in missed' \/ EventTells(n)' \/ Right(Recorded, n)'
  <2> DEFINE s == events[n]
  <2>1. s \in Seq({"write", "remove"}) /\ s # <<>> /\ events'[n] = Tail(s)
    BY DEF TypeOK, TakeEvent
  <2>2. CASE n \notin seeded
    BY <2>2 DEF TakeEvent
  <2>3. CASE n \in seeded /\ (local[n] = Absent \/ Head(s) = "write")
    BY <1>1, <2>3 DEF TakeEvent, Modifies, Right, Recorded
  <2>4. CASE local[n] # Absent /\ Head(s) # "write"
    <3>1. PICK i \in 1..Len(s) : s[i] = "write"
      BY <1>5, <2>4 DEF EventTells
    <3> HIDE DEF s
    <3>2. i # 1
      BY <2>1, <2>4, <3>1
    <3>3. i - 1 \in 1..Len(Tail(s)) /\ Tail(s)[i - 1] = "write"
      BY <2>1, <3>1, <3>2
    <3>4. Tail(s) # <<>>
      BY <2>1, <3>3
    <3>5. EventTells(n)'
      BY <2>1, <3>3, <3>4 DEF EventTells
    <3>6. QED BY <3>5
  <2>5. QED BY <2>2, <2>3, <2>4
<1>6. QED BY <1>1, <1>2, <1>3, <1>4, <1>5, WatcherCarried

\* What a snapshot adds is right.
LEMMA SnapshotInv ==
  ASSUME TypeOK, Inv, NEW n \in Names, Snapshot(n)
  PROVE  Inv'
<1>1. UNCHANGED <<local, game, uploads, deletes, stage, job, pending, events, missed>>
  BY DEF Snapshot, source, conn, plan
<1>2. modified \subseteq modified' /\ deleted \subseteq deleted'
  BY DEF Snapshot, told
<1>3. \A m \in Names : /\ EventTells(m) => EventTells(m)'
                       /\ Right(Recorded, m) => Right(Recorded, m)'
  BY <1>1, <1>2 DEF EventTells, Right, Recorded
<1>4. \A m \in Names \ {n} : SnapshotTells(m) => SnapshotTells(m)'
  BY <1>1 DEF Snapshot, SnapshotTells, TypeOK, Files
<1>5. SnapshotTells(n) => Right(Recorded, n)'
  BY <1>1 DEF Snapshot, SnapshotTells, Right, Recorded
<1>6. QED BY <1>1, <1>3, <1>4, <1>5, WatcherCarried

\* What the watcher has not handed over is given up with it.
LEMMA WatchEndsInv == ASSUME TypeOK, Inv, WatchEnds PROVE Inv'
<1>1. /\ UNCHANGED <<local, game, uploads, deletes, stage, job, pending>>
      /\ missed' = missed \cup Untold
  BY DEF WatchEnds, source, conn, plan
<1>2. \A n \in Names : EventTells(n) \/ SnapshotTells(n) \/ Right(Recorded, n) => n \in Untold
  BY DEF EventTells, SnapshotTells, Right, Recorded, Untold
<1>3. QED BY <1>1, <1>2, WatcherCarried

-----------------------------------------------------------------------------
\* The pending change is handed to queueSync, which keeps it in a job.
LEMMA FlushInv == ASSUME TypeOK, Inv, Flush PROVE Inv'
<1> DEFINE merged == mergeJobs(pending, Recorded)
<1>1. /\ UNCHANGED <<local, game, uploads, deletes, missed, events, seeded, previous>>
      /\ \/ stage = "idle" /\ stage' = "check" /\ job' = merged /\ pending' = {}
         \/ pending' = {merged} /\ UNCHANGED <<stage, job>>
  BY DEF Flush, queueSync, source, plan, Recorded
<1>2. \A n : Right(merged, n) <=> Right(Recorded, n) \/ \E k \in pending : Right(k, n)
  BY Merged
<1> HIDE DEF merged
<1>3. \A n : /\ \A j : Right(j, n)' <=> Right(j, n)
             /\ Right(job, n)' <=> Right(job', n)
             /\ EventTells(n)' <=> EventTells(n)
             /\ SnapshotTells(n)' <=> SnapshotTells(n)
  BY <1>1 DEF Right, EventTells, SnapshotTells
<1>4. CASE stage = "idle" /\ stage' = "check" /\ job' = merged /\ pending' = {}
  <2>1. \A n : Told(n) => Told(n)'
    BY <1>2, <1>3, <1>4 DEF Told, ToldLater, HasJob
  <2>2. QED BY <1>1, <1>4, <2>1, Carried DEF Inv, PlanInv
<1>5. CASE pending' = {merged} /\ UNCHANGED <<stage, job>>
  <2>1. \A n : ToldLater(n) => ToldLater(n)'
    BY <1>2, <1>3, <1>5 DEF ToldLater
  <2>2. \A n : Told(n) => Told(n)'
    BY <1>3, <1>5, <2>1 DEF Told, HasJob
  <2>3. QED BY <1>1, <1>5, <2>1, <2>2, Carried DEF Inv, PlanInv
<1>6. QED BY <1>1, <1>4, <1>5

\* The connection's full job is merged with the one that waits.
LEMMA ConnectInv == ASSUME TypeOK, Inv, Connect PROVE Inv'
<1> DEFINE merged == mergeJobs(pending, Full)
<1>1. /\ UNCHANGED <<local, game, uploads, deletes, missed, watcher>>
      /\ \/ stage = "idle" /\ stage' = "check" /\ job' = merged /\ pending' = {}
         \/ pending' = {merged} /\ UNCHANGED <<stage, job>>
  BY DEF Connect, queueSync, source, plan
<1>2. \A n : Right(merged, n) <=> \E k \in pending : Right(k, n)
  <2>1. \A n : ~Right(Full, n)
    BY DEF Right, Full
  <2>2. QED BY <2>1, Merged
<1> HIDE DEF merged
<1>3. \A n : /\ \A j : Right(j, n)' <=> Right(j, n)
             /\ Right(job, n)' <=> Right(job', n)
             /\ Right(Recorded, n)' <=> Right(Recorded, n)
             /\ EventTells(n)' <=> EventTells(n)
             /\ SnapshotTells(n)' <=> SnapshotTells(n)
  BY <1>1 DEF Right, EventTells, SnapshotTells, Recorded, watcher, told
<1>4. CASE stage = "idle" /\ stage' = "check" /\ job' = merged /\ pending' = {}
  <2>1. \A n : Told(n) => Told(n)'
    BY <1>2, <1>3, <1>4 DEF Told, ToldLater, HasJob
  <2>2. QED BY <1>1, <1>4, <2>1, Carried DEF Inv, PlanInv
<1>5. CASE pending' = {merged} /\ UNCHANGED <<stage, job>>
  <2>1. \A n : ToldLater(n) => ToldLater(n)'
    BY <1>2, <1>3, <1>5 DEF ToldLater
  <2>2. \A n : Told(n) => Told(n)'
    BY <1>3, <1>5, <2>1 DEF Told, HasJob
  <2>3. QED BY <1>1, <1>5, <2>1, <2>2, Carried DEF Inv, PlanInv
<1>6. QED BY <1>1, <1>4, <1>5

-----------------------------------------------------------------------------
\* Steps of the loop between two passes: the job goes on, is dropped, or the next
\* one is taken.
LEMMA LoopInv ==
  ASSUME TypeOK, Inv, CheckClient \/ Stop \/ TakeNext
  PROVE  Inv'
<1>1. UNCHANGED <<local, game, uploads, deletes, watcher>>
  BY DEF CheckClient, Stop, TakeNext, source, plan
<1>2. \A n : /\ \A j : Right(j, n)' <=> Right(j, n)
             /\ Right(job, n)' <=> Right(job', n)
             /\ Right(Recorded, n)' <=> Right(Recorded, n)
             /\ EventTells(n)' <=> EventTells(n)
             /\ SnapshotTells(n)' <=> SnapshotTells(n)
  BY <1>1 DEF Right, EventTells, SnapshotTells, Recorded, watcher, told
<1>3. CASE CheckClient
  <2>1. \A n : Told(n) => Told(n)'
    BY <1>2, <1>3 DEF CheckClient, Told, ToldLater, HasJob
  <2>2. QED BY <1>1, <1>3, <2>1, Carried DEF CheckClient, Inv, PlanInv
<1>4. CASE Stop
  <2>1. \A n \in Names : Told(n) => n \in missed' \/ Told(n)'
    BY <1>2, <1>4, RightCovered DEF Stop, Forfeit, Told, ToldLater
  <2>2. QED BY <1>1, <1>4, <2>1, Carried DEF Stop, Forfeit, Inv, PlanInv
<1>5. CASE TakeNext
  <2>1. uploads = {} /\ deletes = {} /\ missed' = missed /\ stage = "apply" /\ stage' # "apply"
    BY <1>5 DEF TakeNext
  <2>2. CASE Waiting
    <3>1. pending = {job'} /\ stage' = "check"
      BY <1>5, <2>2 DEF TakeNext, TypeOK
    <3>2. \A n : Told(n) => Told(n)'
      BY <1>2, <2>1, <3>1 DEF Told, ToldLater, HasJob
    <3>3. QED BY <1>1, <2>1, <3>2, Carried
  <2>3. CASE ~Waiting
    <3>1. UNCHANGED <<job, pending>>
      BY <1>5, <2>3 DEF TakeNext
    <3>2. \A n : Told(n) => Told(n)'
      BY <1>2, <2>1, <3>1 DEF Told, ToldLater, HasJob
    <3>3. QED BY <1>1, <2>1, <3>2, Carried
  <2>4. QED BY <2>2, <2>3
<1>6. QED BY <1>3, <1>4, <1>5

\* Steps of a pass, and the loss of its client: neither the source nor what others
\* were told is touched.
LEMMA PassInv ==
  ASSUME TypeOK, Inv,
         PlanFull \/ PlanChanges \/ PlanFails \/ CallFails \/ ContextDone \/
         \E n \in Names : Upload(n) \/ UploadGone(n) \/ UploadFails(n) \/ Delete(n) \/ DeleteFails(n)
  PROVE  Inv'
<1>1. UNCHANGED <<local, watcher, pending>>
  BY DEF PlanFull, PlanChanges, PlanFails, CallFails, ContextDone, Upload, UploadGone, UploadFails,
         Delete, DeleteFails, source
<1>2. \A n : /\ ToldLater(n)' <=> ToldLater(n)
             /\ Right(job, n)' <=> Right(job', n)
             /\ \A j : Right(j, n)' <=> Right(j, n)
  BY <1>1 DEF Right, EventTells, SnapshotTells, Recorded, ToldLater, watcher, told
<1>3. \A n \in Names : Right(job, n) => n \in Covers(job)
  BY RightCovered
<1>4. /\ stage' # "apply" => uploads' = {} /\ deletes' = {}
      /\ \A n \in deletes' : local[n] # Absent => n \in missed' \/ ToldLater(n)
      /\ \A n \in Names : game'[n] # local[n] =>
            \/ n \in missed' \/ ToldLater(n) \/ (HasJob' /\ Right(job', n))
            \/ IF local[n] # Absent THEN n \in uploads' ELSE n \in deletes'
  <2> USE DEF Inv, PlanInv, Known, Told, Planned, HasJob
  <2>1. CASE PlanFull BY <2>1 DEF PlanFull, Present, source
  <2>2. CASE PlanChanges
    <3>1. /\ stage = "plan" /\ stage' = "apply" /\ game' = game
          /\ uploads' = job.modified \cap Present /\ deletes' = job.deleted
          /\ missed' = (missed \ (uploads' \cup deletes')) \cup (deletes' \cap Present)
      BY <2>2 DEF PlanChanges, conn
    <3>2. deletes' \subseteq Names
      BY <3>1 DEF TypeOK, Jobs
    <3>3. \A n \in deletes' : local[n] # Absent => n \in missed'
      BY <3>1, <3>2 DEF Present
    <3>4. ASSUME NEW n \in Names, game[n] # local[n]
          PROVE  n \in missed' \/ ToldLater(n)
                   \/ IF local[n] # Absent THEN n \in uploads' ELSE n \in deletes'
      <4>1. CASE Right(job, n) BY <3>1, <4>1 DEF Right, Present
      <4>2. CASE n \in missed BY <3>1, <4>2 DEF Present
      <4>3. CASE n \notin missed /\ ~Right(job, n) BY <3>1, <3>4, <4>3
      <4>4. QED BY <4>1, <4>2, <4>3
    <3>5. QED BY <3>1, <3>3, <3>4
  <2>3. CASE PlanFails BY <1>3, <2>3 DEF PlanFails, Forfeit, plan
  <2>4. CASE CallFails BY <1>3, <2>4 DEF CallFails, LoseClient, Forfeit
  <2>5. CASE ContextDone BY <2>5 DEF ContextDone, LoseClient, Forfeit
  <2>6. ASSUME NEW n \in Names, Upload(n) \/ UploadGone(n) \/ UploadFails(n) \/ Delete(n) \/ DeleteFails(n)
        PROVE  <1>4
    <3>1. stage = "apply" /\ UNCHANGED <<stage, job>>
      BY <2>6 DEF Upload, UploadGone, UploadFails, Delete, DeleteFails
    <3>2. CASE Upload(n) BY <3>1, <3>2 DEF Upload, TypeOK, Files
    <3>3. CASE UploadGone(n) \/ UploadFails(n)
      BY <3>1, <3>3 DEF UploadGone, UploadFails, Forfeit, Present
    <3>4. CASE Delete(n) BY <3>1, <3>4 DEF Delete, TypeOK, Files
    <3>5. CASE DeleteFails(n) BY <3>1, <3>5 DEF DeleteFails, Forfeit
    <3>6. QED BY <2>6, <3>2, <3>3, <3>4, <3>5
  <2>7. QED BY <2>1, <2>2, <2>3, <2>4, <2>5, <2>6
<1>5. QED BY <1>1, <1>2, <1>4 DEF Inv, PlanInv, Known, Told, Planned, HasJob

LEMMA StepInv == TypeOK /\ Inv /\ [Next]_vars => Inv'
<1> SUFFICES ASSUME TypeOK, Inv, [Next]_vars PROVE Inv'
  OBVIOUS
<1>1. CASE UNCHANGED <<source, game, watcher, pending, stage, job, plan, missed>>
  BY <1>1
  DEF source, watcher, told, plan, Inv, PlanInv, Known, Told, ToldLater, HasJob, Planned,
      Right, Recorded, EventTells, SnapshotTells
<1>2. CASE \E n \in Names : Save(n) \/ Remove(n) BY <1>2, EditInv
<1>3. CASE \E n \in Names : TakeEvent(n) \/ Snapshot(n) BY <1>3, TakeEventInv, SnapshotInv
<1>4. CASE WatchEnds BY <1>4, WatchEndsInv
<1>5. CASE Flush BY <1>5, FlushInv
<1>6. CASE Connect BY <1>6, ConnectInv
<1>7. CASE CheckClient \/ Stop \/ TakeNext BY <1>7, LoopInv
<1>8. CASE ContextDone \/ ((LoopStep \/ Refusal) /\ ~(CheckClient \/ Stop \/ TakeNext))
  BY <1>8, PassInv DEF LoopStep, Refusal
<1>9. QED
  BY <1>1, <1>2, <1>3, <1>4, <1>5, <1>6, <1>7, <1>8 DEF Next, Vanish, LoopStep, vars

\* However edits, events, snapshots, flushes, connections and passes interleave: when
\* nothing is in hand, the game differs from the source only for names whose change
\* was lost in one of the ways that QuietIsMirrored lists.
THEOREM LossesAreKnown == Spec => []QuietIsMirrored
<1>1. Inv => QuietIsMirrored
  BY DEF Inv, Known, Told, ToldLater, HasJob, Planned, PlanInv, Right, Recorded, EventTells,
         SnapshotTells, Untold, QuietIsMirrored, Quiet
<1>2. QED BY <1>1, InitInv, StepInv, BbrsTypeCorrect, PTL DEF Spec

=============================================================================
