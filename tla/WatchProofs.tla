---------------------------- MODULE WatchProofs -----------------------------
(***************************************************************************)
(* Theorems about Watch, for any files in any of the two directories, any  *)
(* patterns, any length of the kernel's queue and any number of edits.     *)
(***************************************************************************)
EXTENDS Watch, SequenceTheorems, TLAPS

(***************************************************************************)
(* What TypeOK needs to be inductive, and what tells an edit from all that *)
(* was there before: snapshots hold no ignored name and no version that is *)
(* still to come; a contested file has been deleted in the game.           *)
(***************************************************************************)
SnapInv ==
    /\ \A n \in Ignored : current[n] = Absent /\ previous[n] = Absent
    /\ \A n \in Names : /\ local[n] \in {Absent, clock[n]}
                       /\ previous[n] <= clock[n] /\ current[n] <= clock[n]
    /\ \A n \in contested : game[n] = Absent

(***************************************************************************)
(* The invariant that QuietIsMirrored follows from: while nothing was lost *)
(* from the queue and Poll goes on, somebody is still to tell a difference *)
(* between the game and the source.                                        *)
(***************************************************************************)
Going == seeded /\ pc \in {"select", "scan"} /\ ~overflow

\* The pending ChangeSet is right about n: a flush makes the game follow.
Pending(n) == IF local[n] = Absent THEN n \in deleted ELSE n \in modified \cup deleted

Queued(n) == \E i \in 1..Len(events) : events[i][2] = n

\* The scan is about to fail at n, or has missed what happened to n.
Overtaken(n) ==
    pc = "scan" /\ IF n \in listed THEN local[n] = Absent ELSE current[n] # local[n]

ToBeTold(n) == Pending(n) \/ Queued(n) \/ previous[n] # local[n] \/ Overtaken(n)

Excused == contested \cup missed

TellInv == Going => \A n \in Relevant : Differs(n) => n \in Excused \/ ToBeTold(n)

Events == {"write", "remove"} \X (Names \cup Dirs)

\* An event is queued if the directory is watched and there is room; none is lost
\* without the overflow being told.
LEMMA Notified ==
  ASSUME TypeOK, NEW op \in {"write", "remove"}, NEW name \in Names \cup Dirs, NEW dir,
         Notify(op, name, dir)
  PROVE  /\ events' \in Seq(Events) /\ Len(events') <= MaxEvents
         /\ overflow' \in BOOLEAN /\ (overflow => overflow')
         /\ \A n : Queued(n) => Queued(n)'
         /\ dir \in watches => Queued(name)' \/ overflow'
<1> USE DEF TypeOK, Events
<1>1. CASE dir \in watches /\ Len(events) < MaxEvents
  <2>1. events' = Append(events, <<op, name>>) /\ overflow' = overflow
    BY <1>1 DEF Notify
  <2>2. <<op, name>> \in Events
    OBVIOUS
  <2>3. /\ events' \in Seq(Events)
        /\ Len(events') = Len(events) + 1
        /\ \A i \in 1..Len(events) : events'[i] = events[i]
        /\ events'[Len(events) + 1] = <<op, name>>
    BY <2>1, <2>2, AppendProperties
  <2>4. Len(events) \in Nat
    OBVIOUS
  <2>5. \A n : Queued(n) => Queued(n)'
    <3> SUFFICES ASSUME NEW n, NEW i \in 1..Len(events), events[i][2] = n
                 PROVE  \E j \in 1..Len(events') : events'[j][2] = n
      BY DEF Queued
    <3>1. i \in 1..Len(events') /\ events'[i][2] = n
      BY <2>3, <2>4
    <3>2. QED BY <3>1
  <2>6. Queued(name)'
    BY <2>3, <2>4 DEF Queued
  <2>7. QED BY <1>1, <2>1, <2>3, <2>4, <2>5, <2>6, ConstantsAssumption
<1>2. CASE ~(dir \in watches /\ Len(events) < MaxEvents)
  <2>1. events' = events /\ (overflow' = overflow \/ overflow' = TRUE)
    BY <1>2 DEF Notify
  <2>2. dir \in watches => overflow'
    BY <1>2 DEF Notify
  <2>3. QED BY <2>1, <2>2 DEF Queued
<1>3. QED BY <1>1, <1>2

\* Receiving takes the first event and leaves the others.
LEMMA Received ==
  ASSUME TypeOK, events # <<>>, events' = Tail(events)
  PROVE  /\ Head(events) \in Events
         /\ events' \in Seq(Events) /\ Len(events') <= MaxEvents
         /\ \A n : Queued(n) => n = Head(events)[2] \/ Queued(n)'
<1>1. events \in Seq(Events)
  BY DEF TypeOK, Events
<1>2. /\ Head(events) \in Events
      /\ Tail(events) \in Seq(Events)
      /\ Len(Tail(events)) = Len(events) - 1
      /\ \A i \in 1..Len(Tail(events)) : Tail(events)[i] = events[i + 1]
  BY <1>1, HeadTailProperties
<1>3. Len(events) \in Nat /\ Head(events) = events[1]
  BY <1>1
<1>4. \A n : Queued(n) => n = Head(events)[2] \/ Queued(n)'
  <2> SUFFICES ASSUME NEW n, NEW i \in 1..Len(events), events[i][2] = n, n # Head(events)[2]
               PROVE  Queued(n)'
    BY DEF Queued
  <2>1. i # 1
    BY <1>3
  <2>2. i - 1 \in 1..Len(events')
    BY <1>2, <1>3, <2>1
  <2>3. events'[i - 1] = events[i]
    BY <1>2, <1>3, <2>2
  <2>4. QED BY <2>2, <2>3 DEF Queued
<1>5. QED BY <1>1, <1>2, <1>3, <1>4, ConstantsAssumption DEF TypeOK

LEMMA InitTypeOK == Init => TypeOK /\ SnapInv
<1> SUFFICES ASSUME Init PROVE TypeOK /\ SnapInv
  OBVIOUS
<1>1. {Absent, 1} \subseteq Versions \cup {Absent}
  BY ConstantsAssumption DEF Versions
<1>2. local \in Snapshots
  BY <1>1 DEF Init, Snapshots
<1>3. Nothing \in Snapshots /\ \A n \in Names : Nothing[n] = Absent
  BY DEF Nothing, Snapshots
<1>4. game \in Snapshots
  BY <1>2 DEF Init, Snapshots
<1>5. /\ events \in Seq({"write", "remove"} \X (Names \cup Dirs))
      /\ Len(events) <= MaxEvents
  BY ConstantsAssumption DEF Init
<1>6. /\ \A n \in Inner : local[n] # Absent => made
      /\ watches \subseteq IF made THEN Dirs ELSE {"source"}
  BY ConstantsAssumption DEF Init, Dirs, Absent
<1>7. \A n \in Names : Absent <= clock[n]
  <2>1. \A n \in Names : clock[n] \in {Absent, 1}
    BY DEF Init
  <2>2. \A v \in {Absent, 1} : Absent <= v
    BY DEF Absent
  <2>3. QED BY <2>1, <2>2
<1>8. TypeOK
  BY <1>2, <1>3, <1>4, <1>5, <1>6 DEF Init, TypeOK
<1>9. SnapInv
  BY <1>3, <1>7, ConstantsAssumption DEF Init, SnapInv
<1>10. QED BY <1>8, <1>9

LEMMA EditTypeOK == TypeOK /\ SnapInv /\ Edit => TypeOK' /\ SnapInv'
<1> SUFFICES ASSUME TypeOK, SnapInv, Edit PROVE TypeOK' /\ SnapInv'
  OBVIOUS
<1> USE ConstantsAssumption DEF scan, base, pending, effect
<1>1. /\ UNCHANGED <<pc, listed, current, previous, seeded, modified, deleted, armed, game,
                     contested>>
      /\ missed' \subseteq Relevant
  BY DEF Edit, Save, Remove, MakeDir, MoveDirAway, Vanish, TypeOK
<1>2. /\ events' \in Seq({"write", "remove"} \X (Names \cup Dirs))
      /\ Len(events') <= MaxEvents
      /\ overflow' \in BOOLEAN
  BY Notified DEF Edit, Save, Remove, MakeDir, MoveDirAway, Events, Dirs
<1>3. /\ local' \in Snapshots /\ clock' \in Snapshots /\ made' \in BOOLEAN
      /\ \A n \in Inner : local'[n] # Absent => made'
      /\ watches' \subseteq IF made' THEN Dirs ELSE {"source"}
      /\ \A n \in Names : clock[n] <= clock'[n] /\ local'[n] \in {Absent, clock'[n]}
  <2> DEFINE Typed ==
        /\ local' \in Snapshots /\ clock' \in Snapshots /\ made' \in BOOLEAN
        /\ \A n \in Inner : local'[n] # Absent => made'
        /\ watches' \subseteq IF made' THEN Dirs ELSE {"source"}
        /\ \A n \in Names : clock[n] <= clock'[n] /\ local'[n] \in {Absent, clock'[n]}
  <2>0. /\ local \in [Names -> Versions \cup {Absent}] /\ clock \in [Names -> Versions \cup {Absent}]
        /\ \A n \in Names : local[n] \in {Absent, clock[n]}
        /\ \A n \in Names : clock[n] \in Int /\ clock[n] <= clock[n]
    BY DEF TypeOK, SnapInv, Snapshots, Versions, Absent
  <2>1. ASSUME NEW n \in Names, Save(n) PROVE Typed
    <3>1. /\ clock' = [clock EXCEPT ![n] = clock[n] + 1]
          /\ local' = [local EXCEPT ![n] = clock[n] + 1]
          /\ clock[n] + 1 \in Versions
          /\ n \in Inner => made
          /\ UNCHANGED <<made, watches>>
      BY <2>0, <2>1 DEF Save, Versions, Absent
    <3>2. local' \in Snapshots /\ clock' \in Snapshots
      BY <2>0, <3>1 DEF Snapshots
    <3>3. \A k \in Names : clock[k] <= clock'[k] /\ local'[k] \in {Absent, clock'[k]}
      BY <2>0, <3>1
    <3>4. \A k \in Inner : local'[k] # Absent => made'
      BY <2>0, <3>1 DEF TypeOK
    <3>5. QED BY <3>1, <3>2, <3>3, <3>4 DEF TypeOK
  <2>2. ASSUME NEW n \in Names, Remove(n) PROVE Typed
    BY <2>0, <2>2 DEF Remove, TypeOK, Snapshots
  <2>3. CASE MakeDir
    BY <2>0, <2>3 DEF MakeDir, TypeOK, Dirs
  <2>4. CASE MoveDirAway
    <3>1. /\ local' = [n \in Names |-> IF n \in Inner THEN Absent ELSE local[n]]
          /\ made' = FALSE /\ watches' = watches \ {"inner"} /\ clock' = clock
      BY <2>4 DEF MoveDirAway
    <3>2. local' \in Snapshots
      BY <2>0, <3>1 DEF Snapshots
    <3>3. watches' \subseteq {"source"}
      BY <3>1 DEF TypeOK, Dirs
    <3>4. QED BY <2>0, <3>1, <3>2, <3>3 DEF TypeOK
  <2>5. QED BY <2>1, <2>2, <2>3, <2>4 DEF Edit
<1>4. SnapInv'
  <2>1. \A n \in Names : /\ clock[n] \in Int /\ clock'[n] \in Int
                         /\ previous[n] \in Int /\ current[n] \in Int
    BY <1>3 DEF TypeOK, Snapshots, Versions, Absent
  <2>2. QED BY <1>1, <1>3, <2>1 DEF SnapInv
<1>5. QED BY <1>1, <1>2, <1>3, <1>4 DEF TypeOK

\* record adds what it is told, and arms the timer for it.
LEMMA Recorded ==
  ASSUME TypeOK, NEW mods \in SUBSET Relevant, NEW dels \in SUBSET Relevant,
         record(mods, dels)
  PROVE  /\ modified' \subseteq Relevant /\ deleted' \subseteq Relevant
         /\ armed' = (modified' \cup deleted' # {})
         /\ modified \subseteq modified' /\ deleted \subseteq deleted'
         /\ seeded => mods \subseteq modified' /\ dels \subseteq deleted'
BY DEF TypeOK, record, pending

LEMMA PollTypeOK ==
  ASSUME TypeOK, SnapInv, ContextDone \/ Receive \/ WatcherError \/ Scan \/ Flush
  PROVE  TypeOK' /\ SnapInv'
<1> USE ConstantsAssumption DEF source, kernel, scan, base, pending, effect
<1>1. CASE ContextDone
  BY <1>1 DEF ContextDone, TypeOK, SnapInv
<1>2. CASE TakeEvent
  <2>1. /\ Head(events) \in Events
        /\ events' \in Seq(Events) /\ Len(events') <= MaxEvents
    BY <1>2, Received DEF TakeEvent
  <2>2. /\ modified' \subseteq Relevant /\ deleted' \subseteq Relevant
        /\ armed' = (modified' \cup deleted' # {})
    <3>1. CASE Head(events)[2] \in Relevant
      <4>1. /\ EventModified(Head(events)[1], Head(events)[2]) \in SUBSET Relevant
            /\ EventDeleted(Head(events)[1], Head(events)[2]) \in SUBSET Relevant
        BY <3>1 DEF EventModified, EventDeleted
      <4>2. QED BY <1>2, <3>1, <4>1, Recorded DEF TakeEvent
    <3>2. CASE Head(events)[2] \notin Relevant
      BY <1>2, <3>2 DEF TakeEvent, TypeOK
    <3>3. QED BY <3>1, <3>2
  <2>3. watches' \subseteq IF made THEN Dirs ELSE {"source"}
    BY <1>2 DEF TakeEvent, WatchMade, TypeOK, Dirs
  <2>4. UNCHANGED <<local, clock, made, overflow, pc, listed, current, previous, seeded,
                    game, contested, missed>>
    BY <1>2 DEF TakeEvent
  <2>5. QED BY <2>1, <2>2, <2>3, <2>4 DEF TypeOK, SnapInv, Events
<1>3. CASE EventFails
  <2>1. /\ events' \in Seq(Events) /\ Len(events') <= MaxEvents
    BY <1>3, Received DEF EventFails
  <2>2. QED BY <1>3, <2>1 DEF EventFails, TypeOK, SnapInv, Events
<1>4. CASE WatcherError
  BY <1>4 DEF WatcherError, TypeOK, SnapInv
<1>5. CASE Tick
  <2>1. Nothing \in Snapshots /\ \A n \in Names : Nothing[n] = Absent
    BY DEF Nothing, Snapshots
  <2>2. \A n \in Names : Absent <= clock[n]
    BY DEF TypeOK, Snapshots, Versions, Absent
  <2>3. QED BY <1>5, <2>1, <2>2 DEF Tick, TypeOK, SnapInv
<1>6. ASSUME NEW n \in Names, Lstat(n) PROVE TypeOK' /\ SnapInv'
  <2>1. local[n] <= clock[n]
    BY DEF SnapInv, TypeOK, Snapshots, Versions, Absent
  <2>2. QED BY <1>6, <2>1 DEF Lstat, TypeOK, SnapInv, Snapshots
<1>7. CASE ScanFails
  BY <1>7 DEF ScanFails, TypeOK, SnapInv
<1>8. CASE Scanned
  <2>1. /\ UNCHANGED <<local, clock, made, watches, events, overflow, listed, current, game,
                       contested>>
        /\ pc' = "select" /\ previous' = current /\ seeded' = TRUE
        /\ missed' \subseteq Relevant
    BY <1>8 DEF Scanned, TypeOK
  <2>2. /\ modified' \subseteq Relevant /\ deleted' \subseteq Relevant
        /\ armed' = (modified' \cup deleted' # {})
    <3>1. CASE seeded
      <4>1. /\ DiffModified(previous, current) \in SUBSET Relevant
            /\ DiffDeleted(previous, current) \in SUBSET Relevant
        BY DEF SnapInv, DiffModified, DiffDeleted, Relevant
      <4>2. QED BY <1>8, <3>1, <4>1, Recorded DEF Scanned
    <3>2. CASE ~seeded
      BY <1>8, <3>2 DEF Scanned, TypeOK
    <3>3. QED BY <3>1, <3>2
  <2>3. QED BY <2>1, <2>2 DEF TypeOK, SnapInv
<1>9. CASE Flush
  <2>1. game' \in Snapshots
    BY <1>9 DEF Flush, SyncChanges, TypeOK, Snapshots
  <2>2. contested' \subseteq Relevant /\ missed' \subseteq Relevant
    BY <1>9 DEF Flush, TypeOK
  <2>3. \A n \in contested' : game'[n] = Absent
    BY <1>9 DEF Flush, SyncChanges, TypeOK, SnapInv, Relevant
  <2>4. QED BY <1>9, <2>1, <2>2, <2>3 DEF Flush, ClearPending, TypeOK, SnapInv
<1>10. QED
  BY <1>1, <1>2, <1>3, <1>4, <1>5, <1>6, <1>7, <1>8, <1>9 DEF Receive, Scan

LEMMA StepTypeOK == TypeOK /\ SnapInv /\ [Next]_vars => (TypeOK /\ SnapInv)'
<1>1. TypeOK /\ SnapInv /\ UNCHANGED vars => (TypeOK /\ SnapInv)'
  BY DEF TypeOK, SnapInv, vars, source, kernel, scan, base, pending, effect
<1>2. QED BY <1>1, EditTypeOK, PollTypeOK DEF Next

\* The watcher's state, the queue and the tree always have their types.
THEOREM WatchTypeCorrect == Spec => []TypeOK
<1>1. QED BY InitTypeOK, StepTypeOK, PTL DEF Spec

-----------------------------------------------------------------------------
(* Every difference is told, or excused. *)

\* An edit of the source: a save shows in the next snapshot, a removal is in the last
\* one, or in the queue, or overtakes a scan, or goes into missed.
LEMMA EditTellInv ==
  ASSUME TypeOK, SnapInv, TellInv, Edit
  PROVE  TellInv'
<1> USE DEF scan, base, pending, effect
<1>1. /\ UNCHANGED <<pc, listed, current, previous, seeded, modified, deleted, armed, game,
                     contested>>
      /\ missed \subseteq missed'
      /\ overflow => overflow'
      /\ \A n : Queued(n) => Queued(n)'
  BY Notified DEF Edit, Save, Remove, MakeDir, MoveDirAway, Vanish, Events, Dirs
<1>2. Going' => Going
  BY <1>1 DEF Going, TypeOK
<1> SUFFICES ASSUME Going, Going', NEW n \in Relevant, Differs(n)', n \notin Excused'
             PROVE  ToBeTold(n)'
  BY <1>1, <1>2 DEF TellInv
<1>3. n \in Names
  BY ConstantsAssumption DEF Relevant
<1>4. CASE local'[n] = local[n]
  <2>1. Differs(n) /\ n \notin Excused
    BY <1>1, <1>4 DEF Differs, Excused
  <2>2. ToBeTold(n)
    BY <2>1 DEF TellInv
  <2>3. QED BY <1>1, <1>4, <2>2 DEF ToBeTold, Pending, Overtaken
<1>5. CASE local'[n] # Absent /\ local'[n] # local[n]
  <2>1. local'[n] = clock[n] + 1
    BY <1>3, <1>5 DEF Edit, Save, Remove, MakeDir, MoveDirAway, TypeOK, Snapshots
  <2>2. previous[n] <= clock[n] /\ previous[n] \in Int /\ clock[n] \in Int
    BY <1>3 DEF SnapInv, TypeOK, Snapshots, Versions, Absent
  <2>3. QED BY <1>1, <2>1, <2>2 DEF ToBeTold
<1>6. CASE local'[n] = Absent /\ local[n] # Absent
  <2>1. \/ Remove(n)
        \/ MoveDirAway /\ n \in Inner
    <3>1. ASSUME NEW k \in Names, Save(k) PROVE FALSE
      BY <1>3, <1>6, <3>1 DEF Save, TypeOK, SnapInv, Snapshots, Versions, Absent
    <3>2. ASSUME NEW k \in Names, Remove(k) PROVE k = n
      BY <1>3, <1>6, <3>2 DEF Remove, TypeOK, Snapshots
    <3>3. QED BY <1>3, <1>6, <3>1, <3>2 DEF Edit, MakeDir, MoveDirAway
  <2>2. CASE Remove(n) /\ DirOf(n) \in watches
    <3>1. Queued(n)' \/ overflow'
      BY <1>3, <2>2, Notified DEF Remove
    <3>2. QED BY <3>1 DEF Going, ToBeTold
  <2>3. CASE (Remove(n) /\ DirOf(n) \notin watches) \/ (MoveDirAway /\ n \in Inner)
    <3>1. Unseen(n) => n \in missed'
      BY <1>3, <1>6, <2>3 DEF Remove, MoveDirAway, Vanish
    <3>2. ~Unseen(n)
      BY <3>1 DEF Excused
    <3>3. QED BY <1>1, <1>6, <3>2 DEF Unseen, ToBeTold, Overtaken
  <2>4. QED BY <2>1, <2>2, <2>3
<1>7. QED BY <1>4, <1>5, <1>6

\* A snapshot that differs from the last one is told; if the source has moved on
\* since, the next one will differ.
LEMMA ScannedTellInv ==
  ASSUME TypeOK, SnapInv, TellInv, Scanned
  PROVE  TellInv'
<1>1. /\ UNCHANGED <<local, events, overflow, game, contested>>
      /\ pc = "scan" /\ listed = {} /\ previous' = current
  BY DEF Scanned, source, kernel, scan
<1> SUFFICES ASSUME Going', NEW n \in Relevant, Differs(n)', n \notin Excused'
             PROVE  ToBeTold(n)'
  BY DEF TellInv
<1>2. Differs(n)
  BY <1>1 DEF Differs
<1>3. SUFFICES ASSUME current[n] = local[n] PROVE ToBeTold(n)'
  BY <1>1 DEF ToBeTold
<1>4. CASE ~seeded
  <2>1. missed' = {k \in Relevant : game[k] # current[k]}
    BY <1>4 DEF Scanned
  <2>2. QED BY <1>2, <1>3, <2>1 DEF Differs, Excused
<1>5. CASE seeded
  <2>1. /\ record(DiffModified(previous, current), DiffDeleted(previous, current))
        /\ missed' = missed
    BY <1>5 DEF Scanned
  <2>2. /\ DiffModified(previous, current) \in SUBSET Relevant
        /\ DiffDeleted(previous, current) \in SUBSET Relevant
    BY ConstantsAssumption DEF SnapInv, DiffModified, DiffDeleted, Relevant
  <2>3. /\ modified \subseteq modified' /\ DiffModified(previous, current) \subseteq modified'
        /\ deleted \subseteq deleted' /\ DiffDeleted(previous, current) \subseteq deleted'
    BY <1>5, <2>1, <2>2, Recorded
  <2>4. ToBeTold(n)
    BY <1>1, <1>2, <1>5, <2>1 DEF TellInv, Going, Excused
  <2>5. CASE Pending(n)
    BY <1>1, <2>3, <2>5 DEF ToBeTold, Pending
  <2>6. CASE Queued(n)
    BY <1>1, <2>6 DEF ToBeTold, Queued
  <2>7. CASE previous[n] # local[n]
    <3>1. n \in IF local[n] = Absent THEN DiffDeleted(previous, current)
                                     ELSE DiffModified(previous, current)
      BY <1>3, <2>7 DEF DiffDeleted, DiffModified, Relevant
    <3>2. QED BY <1>1, <2>3, <3>1 DEF ToBeTold, Pending
  <2>8. CASE Overtaken(n)
    BY <1>1, <1>3, <2>8 DEF Overtaken
  <2>9. QED BY <2>4, <2>5, <2>6, <2>7, <2>8 DEF ToBeTold
<1>6. QED BY <1>4, <1>5 DEF TypeOK

\* An event that is received makes the pending ChangeSet right about its file.
LEMMA TakeEventTellInv ==
  ASSUME TypeOK, SnapInv, TellInv, TakeEvent
  PROVE  TellInv'
<1> DEFINE op == Head(events)[1]
           name == Head(events)[2]
<1>1. /\ UNCHANGED <<local, overflow, pc, listed, current, previous, seeded, game, contested,
                     missed>>
      /\ events # <<>> /\ events' = Tail(events)
      /\ IF name \in Relevant THEN record(EventModified(op, name), EventDeleted(op, name))
                             ELSE UNCHANGED <<modified, deleted>>
  BY DEF TakeEvent, source, scan, base, pending, effect
<1>2. op \in {"write", "remove"} /\ \A n : Queued(n) => n = name \/ Queued(n)'
  BY <1>1, Received DEF Events
<1> SUFFICES ASSUME Going, NEW n \in Relevant, Differs(n), n \notin Excused
             PROVE  ToBeTold(n)'
  BY <1>1 DEF TellInv, Going, Differs, Excused
<1>3. ToBeTold(n)
  BY DEF TellInv
<1>4. /\ modified \subseteq modified' /\ deleted \subseteq deleted'
      /\ name \in Relevant => /\ EventModified(op, name) \subseteq modified'
                             /\ EventDeleted(op, name) \subseteq deleted'
  <2>1. CASE name \in Relevant
    <3>1. /\ EventModified(op, name) \in SUBSET Relevant
          /\ EventDeleted(op, name) \in SUBSET Relevant
      BY <2>1 DEF EventModified, EventDeleted
    <3>2. record(EventModified(op, name), EventDeleted(op, name))
      BY <1>1, <2>1
    <3> HIDE DEF op, name
    <3>3. QED BY <3>1, <3>2, Recorded DEF Going
  <2>2. QED BY <1>1, <2>1
<1>5. CASE n = name
  <2>1. IF local[n] = Absent THEN n \in EventDeleted(op, n)
                             ELSE n \in EventModified(op, n) \cup EventDeleted(op, n)
    BY <1>2 DEF EventModified, EventDeleted
  <2>2. QED BY <1>1, <1>4, <1>5, <2>1 DEF ToBeTold, Pending
<1>6. CASE n # name
  BY <1>1, <1>2, <1>3, <1>4, <1>6 DEF ToBeTold, Pending, Overtaken
<1>7. QED BY <1>5, <1>6

\* A flush makes the game follow what the pending ChangeSet is right about.
LEMMA FlushTellInv ==
  ASSUME TypeOK, SnapInv, TellInv, Flush
  PROVE  TellInv'
<1>1. /\ UNCHANGED <<local, events, overflow, pc, listed, current, previous, seeded>>
      /\ pc = "select"
      /\ game' = SyncChanges(modified, deleted)
      /\ contested' = (contested \ (modified \cup deleted))
                        \cup {n \in deleted : local[n] # Absent}
      /\ missed' = {n \in missed : game'[n] # local[n]}
  BY DEF Flush, source, kernel, scan, base
<1> SUFFICES ASSUME Going, NEW n \in Relevant, Differs(n)', n \notin Excused'
             PROVE  ToBeTold(n)'
  BY <1>1 DEF TellInv, Going
<1>2. n \in Names
  BY ConstantsAssumption DEF Relevant
<1>3. game'[n] = IF n \in deleted THEN Absent
                 ELSE IF n \in modified /\ local[n] # Absent THEN local[n]
                 ELSE game[n]
  BY <1>1, <1>2 DEF SyncChanges
<1>4. game'[n] # local[n] /\ n \notin missed
  BY <1>1 DEF Differs, Excused
<1>5. n \notin deleted /\ ~(n \in modified /\ local[n] # Absent)
  BY <1>1, <1>3, <1>4 DEF Excused
<1>6. ~Pending(n) /\ Differs(n)
  BY <1>3, <1>4, <1>5 DEF Pending, Differs
<1>7. n \notin contested
  <2>1. n \in contested => game[n] = Absent
    BY DEF SnapInv
  <2>2. n \in contested => n \in modified
    BY <1>1, <1>5 DEF Excused
  <2>3. QED BY <1>3, <1>4, <1>5, <2>1, <2>2
<1>8. Queued(n) \/ previous[n] # local[n]
  BY <1>1, <1>4, <1>6, <1>7 DEF TellInv, ToBeTold, Excused, Overtaken
<1>9. QED BY <1>1, <1>8 DEF ToBeTold, Queued

LEMMA PollTellInv ==
  ASSUME TypeOK, SnapInv, TellInv, ContextDone \/ Receive \/ WatcherError \/ Scan \/ Flush
  PROVE  TellInv'
<1> USE DEF source, kernel, scan, base, pending, effect
<1>1. CASE ContextDone \/ EventFails \/ WatcherError \/ ScanFails
  BY <1>1 DEF ContextDone, EventFails, WatcherError, ScanFails, TellInv, Going
<1>2. CASE TakeEvent BY <1>2, TakeEventTellInv
<1>3. CASE Tick
  BY <1>3 DEF Tick, TellInv, Going, Differs, Excused, ToBeTold, Pending, Queued, Overtaken
<1>4. ASSUME NEW k \in Names, Lstat(k) PROVE TellInv'
  <2>1. /\ UNCHANGED <<local, events, overflow, pc, previous, seeded, modified, deleted, game,
                       contested, missed>>
        /\ k \in listed /\ local[k] # Absent
        /\ listed' = listed \ {k}
        /\ current' = IF k \in Ignored THEN current ELSE [current EXCEPT ![k] = local[k]]
    BY <1>4 DEF Lstat
  <2>2. \A n \in Relevant : Overtaken(n) => Overtaken(n)'
    BY <2>1, ConstantsAssumption DEF Overtaken, TypeOK, Snapshots, Relevant
  <2>3. QED
    BY <2>1, <2>2, ConstantsAssumption
    DEF TellInv, Going, Differs, Excused, ToBeTold, Pending, Queued, Relevant
<1>5. CASE Scanned BY <1>5, ScannedTellInv
<1>6. CASE Flush BY <1>6, FlushTellInv
<1>7. QED BY <1>1, <1>2, <1>3, <1>4, <1>5, <1>6 DEF Receive, Scan

\* When the watcher has nothing more to tell, the game differs from the source only
\* for files that a report deleted while they were there (contested), that changed
\* before the first snapshot, or that went, unseen by any, with their directory or
\* from one without a watch (missed): whatever is edited, made and moved away while
\* events queue and snapshots are taken.
THEOREM WatcherTellsAll == Spec => []QuietIsMirrored
<1>1. Init => TellInv
  BY DEF Init, TellInv, Going
<1>2. TypeOK /\ SnapInv /\ TellInv /\ [Next]_vars => TellInv'
  <2>1. TellInv /\ UNCHANGED vars => TellInv'
    BY DEF TellInv, Going, Differs, Excused, ToBeTold, Pending, Queued, Overtaken,
           vars, source, kernel, scan, base, pending, effect
  <2>2. QED BY <2>1, EditTellInv, PollTellInv DEF Next
<1>3. TypeOK /\ TellInv => QuietIsMirrored
  <2> SUFFICES ASSUME TypeOK, TellInv, Quiet, NEW n \in Names, Differs(n)
               PROVE  n \in contested \cup missed
    BY DEF QuietIsMirrored
  <2>1. n \in Relevant /\ Going
    BY DEF Differs, Quiet, Going
  <2>2. modified = {} /\ deleted = {} /\ Len(events) = 0
    BY DEF Quiet, TypeOK
  <2>3. ~Pending(n)
    BY <2>2 DEF Pending
  <2>4. ~Queued(n)
    BY <2>2 DEF Queued
  <2>5. ~Overtaken(n) /\ previous[n] = local[n]
    BY <2>1 DEF Quiet, Overtaken
  <2>6. QED BY <2>1, <2>3, <2>4, <2>5 DEF TellInv, ToBeTold, Excused
<1>4. QED BY <1>1, <1>2, <1>3, InitTypeOK, StepTypeOK, PTL DEF Spec

=============================================================================
