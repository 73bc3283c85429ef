---------------------------- MODULE SyncerProofs ----------------------------
(***************************************************************************)
(* Theorems about Syncer, for any set of names, any patterns and any       *)
(* number of saves.                                                        *)
(***************************************************************************)
EXTENDS Syncer, TLAPS

(***************************************************************************)
(* StampInv strengthens CacheSound until every step preserves it.  A file  *)
(* that exists has its newest version, and nothing recorded of a name is   *)
(* newer than that; so the bytes a push carries, read after the stamp was  *)
(* taken, are at least as new as the stamp and as every entry already kept.*)
(***************************************************************************)
Bounded ==
    \A n \in Names :
        /\ local[n] \in {Absent, clock[n]}
        /\ cache[n] <= clock[n]
        /\ disk[n] <= clock[n]
        /\ desired[n] <= clock[n]
        /\ \A h \in Hosts : remote[h][n] <= clock[n]

PushInv ==
    pc = "push" =>
        /\ content \in Versions
        /\ content <= clock[current]
        /\ desired[current] <= content
        /\ cache[current] <= content
        /\ disk[current] <= content

StampInv == Bounded /\ PushInv /\ CacheSound

(***************************************************************************)
(* CourseInv says how far an undisturbed full pass has got: what the walk  *)
(* has collected, which desired files are known to be fresh, which stale   *)
(* files are still to be deleted.                                          *)
(***************************************************************************)
OnCourse == kind = "full" /\ InPass /\ ~disturbed /\ ~failed /\ ~cancelled
Saving(ph) == pc \in {"save", "write"} /\ phase = ph
There(n) == remote[target][n] # Absent
Fresh(n) == remote[target][n] \in {local[n], Edited}

Collecting ==
    /\ pc \in {"fetch", "list"} => \A n \in Names : desired[n] = Absent
    /\ pc \in {"list", "walk"} => present = {n \in Names : There(n)}
    /\ pc = "walk" =>
         /\ \A n \in todo : n \notin Links /\ local[n] # Absent
         /\ \A n \in Names :
              desired[n] = IF IsDesired(n) /\ n \notin todo THEN local[n] ELSE Absent

Uploading ==
    pc \in {"upload", "push"} \/ Saving("upload") =>
        /\ \A n \in Names : desired[n] = IF IsDesired(n) THEN local[n] ELSE Absent
        /\ \A n \in Matched : ~IsDesired(n) /\ There(n) => n \in deletes
        /\ \A n \in deletes : ~IsDesired(n)
        /\ \A n \in todo : IsDesired(n) /\ (n \in present => There(n))
        /\ \A n \in Names : \/ ~IsDesired(n) \/ n \in todo \/ Fresh(n)
                            \/ pc = "push" /\ n = current
        /\ pc = "push" => /\ IsDesired(current)
                          /\ content = local[current]
                          /\ current \notin todo
        /\ Saving("upload") => todo = {}

Deleting ==
    pc = "delete" \/ Saving("delete") =>
        /\ \A n \in Names : IsDesired(n) => Fresh(n)
        /\ \A n \in Matched : ~IsDesired(n) /\ There(n) => n \in todo
        /\ \A n \in todo : ~IsDesired(n)
        /\ Saving("delete") => todo = {}

CourseInv ==
    /\ settled => pc = "idle"
    /\ pc = "stat" => kind = "incremental"
    /\ ~InPass => \A n \in Names : desired[n] = Absent
    /\ CleanMirrorConverges
    /\ OnCourse => Collecting /\ Uploading /\ Deleting

LEMMA EnvironmentTypeOK == TypeOK /\ Environment => TypeOK'
<1> SUFFICES ASSUME TypeOK, Environment PROVE TypeOK'
  OBVIOUS
<1>1. /\ UNCHANGED <<target, cache, disk, torn, pc, kind, phase, cancelled, present, desired,
                     deletes, todo, current, content, dirty, failed>>
      /\ disturbed' = InPass /\ settled' = FALSE
      /\ seenAbsent' \in {seenAbsent, {}} \/ \E n \in Names : seenAbsent' = seenAbsent \cup {n}
  BY DEF Environment, LocalSave, LocalRemove, GameEdit, Disturb, store, process, plan, flight
<1>2. /\ local' \in [Names -> Versions \cup {Absent}]
      /\ clock' \in [Names -> Versions \cup {Absent}]
      /\ remote' \in [Hosts -> [Names -> Versions \cup {Absent, Edited}]]
  <2>1. /\ local \in [Names -> Versions \cup {Absent}]
        /\ clock \in [Names -> Versions \cup {Absent}]
        /\ remote \in [Hosts -> [Names -> Versions \cup {Absent, Edited}]]
    BY DEF TypeOK
  <2>2. ASSUME NEW n \in Names, LocalSave(n) PROVE <1>2
    <3>1. clock[n] + 1 \in Versions
      BY <2>1, <2>2, ConstantsAssumption DEF LocalSave, Versions, Absent
    <3>2. QED BY <2>1, <2>2, <3>1 DEF LocalSave
  <2>3. ASSUME NEW n \in Names, LocalRemove(n) PROVE <1>2
    BY <2>1, <2>3 DEF LocalRemove
  <2>4. ASSUME NEW h \in Hosts, NEW n \in Names, GameEdit(h, n) PROVE <1>2
    <3>1. PICK v \in {Absent, Edited} : remote' = [remote EXCEPT ![h][n] = v]
      BY <2>4 DEF GameEdit
    <3>2. remote' \in [Hosts -> [Names -> Versions \cup {Absent, Edited}]]
      BY <2>1, <3>1
    <3>3. QED BY <2>1, <2>4, <3>2 DEF GameEdit, source
  <2>5. QED BY <2>2, <2>3, <2>4 DEF Environment
<1>3. QED BY <1>1, <1>2 DEF TypeOK, InPass

LEMMA ProcessTypeOK == TypeOK /\ Process => TypeOK'
<1> SUFFICES ASSUME TypeOK, Process PROVE TypeOK'
  OBVIOUS
<1> USE ConstantsAssumption
    DEF TypeOK, Versions, Absent, Edited, PCs, Nothing, DropLocals,
        source, store, plan, flight, process, history
<1>1. CASE Signal BY <1>1 DEF Signal
<1>2. CASE Crash BY <1>2 DEF Crash
<1>3. CASE LoadState BY <1>3 DEF LoadState
<1>4. CASE RemoveCacheFile BY <1>4 DEF RemoveCacheFile
<1>5. CASE Mirror BY <1>5 DEF Mirror, BeginPass
<1>6. ASSUME NEW m \in Reported, NEW d \in Reported, SyncChanges(m, d) PROVE TypeOK'
  BY <1>6 DEF SyncChanges, BeginPass, Reported
<1>7. CASE StatFails BY <1>7 DEF StatFails, Abort
<1>8. CASE StatDone BY <1>8 DEF StatDone
<1>9. CASE GetAllFileMetadata BY <1>9 DEF GetAllFileMetadata, Planned
<1>10. CASE MetadataFails BY <1>10 DEF MetadataFails, Abort
<1>11. CASE ListSource BY <1>11 DEF ListSource, Listed
<1>12. CASE WalkFails BY <1>12 DEF WalkFails, Abort
<1>13. CASE BuildDeletes BY <1>13 DEF BuildDeletes, StaleNames, Planned
<1>14. CASE PushFile BY <1>14 DEF PushFile, RememberUpload
<1>15. CASE PushFileFails BY <1>15 DEF PushFileFails
<1>16. CASE LoopDone BY <1>16 DEF LoopDone, LeavePhase, Clean
<1>17. CASE Truncate BY <1>17 DEF Truncate
<1>18. CASE Write BY <1>18 DEF Write, LeavePhase, Clean
<1>19. CASE SaveFails BY <1>19 DEF SaveFails, LeavePhase, Clean
<1>20. ASSUME NEW n \in Names,
              \/ Stat(n) \/ Walk(n) \/ Skip(n) \/ ReadFile(n)
              \/ ReadFileFails(n) \/ DeleteFile(n) \/ DeleteFileFails(n)
       PROVE TypeOK'
  <2>1. CASE Stat(n) BY <2>1 DEF Stat
  <2>2. CASE Walk(n) BY <2>2 DEF Walk
  <2>3. CASE Skip(n) BY <2>3 DEF Skip, NextUpload
  <2>4. CASE ReadFile(n) BY <2>4 DEF ReadFile, NextUpload
  <2>5. CASE ReadFileFails(n) BY <2>5 DEF ReadFileFails, NextUpload
  <2>6. CASE DeleteFile(n) BY <2>6 DEF DeleteFile, NextDelete, ForgetRemote
  <2>7. CASE DeleteFileFails(n) BY <2>7 DEF DeleteFileFails, NextDelete
  <2>8. QED BY <1>20, <2>1, <2>2, <2>3, <2>4, <2>5, <2>6, <2>7
<1>21. QED
  BY <1>1, <1>2, <1>3, <1>4, <1>5, <1>6, <1>7, <1>8, <1>9, <1>10, <1>11, <1>12,
     <1>13, <1>14, <1>15, <1>16, <1>17, <1>18, <1>19, <1>20 DEF Process, PassStep

\* The state of a pass and of its surroundings always has the declared types.
THEOREM TypeCorrect == Spec => []TypeOK
<1>1. Init => TypeOK
  <2>1. {Absent, 1} \subseteq Versions \cup {Absent}
    BY ConstantsAssumption DEF Versions
  <2> SUFFICES ASSUME Init PROVE TypeOK
    OBVIOUS
  <2>2. local \in [Names -> Versions \cup {Absent}]
    BY <2>1 DEF Init
  <2>3. remote \in [Hosts -> [Names -> Versions \cup {Absent, Edited}]]
    BY DEF Init
  <2>4. Nothing \in [Names -> Versions \cup {Absent}]
    BY DEF Nothing
  <2>5. QED BY <2>2, <2>3, <2>4 DEF Init, TypeOK, PCs
<1>2. TypeOK /\ [Next]_vars => TypeOK'
  <2>1. TypeOK /\ UNCHANGED vars => TypeOK'
    BY DEF TypeOK, vars, source, store, plan, flight, process, history
  <2>2. QED BY <2>1, EnvironmentTypeOK, ProcessTypeOK DEF Next
<1>3. QED BY <1>1, <1>2, PTL DEF Spec

-----------------------------------------------------------------------------
(* The cache can be trusted as long as there is one host. *)

OneHost == \A g, h \in Hosts : g = h

LEMMA EnvironmentStampInv ==
  TypeOK /\ StampInv /\ Environment => StampInv'
<1> SUFFICES ASSUME TypeOK, StampInv, Environment PROVE StampInv'
  OBVIOUS
<1> USE ConstantsAssumption
    DEF StampInv, Bounded, PushInv, CacheSound, Trustworthy, TypeOK,
        Versions, Absent, Edited, source, store, plan, flight, process
<1>1. ASSUME NEW n \in Names, LocalSave(n) PROVE StampInv'
  <2>1. /\ clock' = [clock EXCEPT ![n] = clock[n] + 1]
        /\ local' = [local EXCEPT ![n] = clock[n] + 1]
        /\ UNCHANGED <<remote, cache, disk, desired, pc, content, current, target>>
    BY <1>1 DEF LocalSave
  <2>2. \A k \in Names : clock'[k] \in Int /\ clock[k] <= clock'[k]
    BY <2>1
  <2>3. Bounded' BY <2>1, <2>2
  <2>4. PushInv' BY <2>1, <2>2
  <2>5. CacheSound' BY <2>1
  <2>6. QED BY <2>3, <2>4, <2>5
<1>2. ASSUME NEW n \in Names, LocalRemove(n) PROVE StampInv'
  BY <1>2 DEF LocalRemove
<1>3. ASSUME NEW h \in Hosts, NEW n \in Names, GameEdit(h, n) PROVE StampInv'
  <2>1. PICK v \in {Absent, Edited} : remote' = [remote EXCEPT ![h][n] = v]
    BY <1>3 DEF GameEdit
  <2>2. UNCHANGED <<clock, local, cache, disk, desired, pc, content, current, target>>
    BY <1>3 DEF GameEdit
  <2>3. \A g \in Hosts, k \in Names :
           remote'[g][k] = remote[g][k] \/ remote'[g][k] \in {Absent, Edited}
    BY <2>1
  <2>4. Bounded' BY <2>2, <2>3
  <2>5. PushInv' BY <2>2
  <2>6. CacheSound'
    <3>1. \A k \in Names : remote[target]'[k] = remote[target][k]
                           \/ remote[target]'[k] \notin Versions
      BY <2>2, <2>3
    <3>2. Trustworthy(cache)' BY <2>2, <3>1
    <3>3. Trustworthy(disk)' BY <2>2, <3>1
    <3>4. QED BY <3>2, <3>3
  <2>7. QED BY <2>4, <2>5, <2>6
<1>4. QED BY <1>1, <1>2, <1>3 DEF Environment

LEMMA PushStampInv ==
  ASSUME TypeOK, StampInv, PushFile \/ PushFileFails
  PROVE  StampInv'
<1> USE DEF TypeOK, Versions, Absent, Edited
<1>1. /\ pc = "push" /\ pc' = "upload"
      /\ UNCHANGED <<local, clock, disk, desired, target, current>>
      /\ \/ remote' = [remote EXCEPT ![target][current] = content]
         \/ UNCHANGED remote /\ cache' = cache
      /\ cache' = [cache EXCEPT ![current] = desired[current]] \/ cache' = cache
  BY DEF PushFile, PushFileFails, RememberUpload, source, store, plan, flight, history
<1>2. /\ content \in Versions
      /\ content <= clock[current]
      /\ desired[current] <= content
      /\ cache[current] <= content
      /\ disk[current] <= content
  BY <1>1 DEF StampInv, PushInv
<1>3. \A h \in Hosts, n \in Names :
         remote'[h][n] = remote[h][n] \/ (h = target /\ n = current /\ remote'[h][n] = content)
  BY <1>1
<1>4. \A n \in Names :
         cache'[n] = cache[n] \/ (n = current /\ cache'[n] = desired[n])
  BY <1>1
<1>5. Bounded'
  BY <1>1, <1>2, <1>3, <1>4 DEF StampInv, Bounded
<1>6. PushInv'
  BY <1>1 DEF PushInv
<1>7. CacheSound'
  <2> SUFFICES ASSUME NEW n \in Names, remote[target]'[n] \in Versions
               PROVE  /\ cache'[n] # Absent => remote[target]'[n] >= cache'[n]
                      /\ disk'[n] # Absent => remote[target]'[n] >= disk'[n]
    BY <1>1 DEF CacheSound, Trustworthy
  <2>1. CASE remote[target]'[n] = remote[target][n] /\ cache'[n] = cache[n]
    BY <2>1, <1>1 DEF StampInv, CacheSound, Trustworthy
  <2>2. CASE n = current /\ remote[target]'[n] = content
    BY <2>2, <1>1, <1>2, <1>4
  <2>3. CASE remote[target]'[n] = remote[target][n] /\ cache'[n] # cache[n]
    BY <2>3, <1>1, <1>2, <1>4
  <2>4. QED BY <2>1, <2>2, <2>3, <1>1, <1>3
<1>8. QED BY <1>5, <1>6, <1>7 DEF StampInv

LEMMA ReadStampInv ==
  ASSUME TypeOK, StampInv, NEW n \in Names, ReadFile(n)
  PROVE  StampInv'
<1> USE DEF TypeOK, Versions, Absent, Edited
<1>1. /\ current' = n /\ content' = local[n] /\ local[n] # Absent
      /\ UNCHANGED <<local, clock, remote, disk, desired, cache, target>>
  BY DEF ReadFile, source, store, plan
<1>2. local[n] = clock[n]
  BY <1>1 DEF StampInv, Bounded
<1>3. PushInv'
  BY <1>1, <1>2 DEF StampInv, Bounded, PushInv
<1>4. Bounded' /\ CacheSound'
  BY <1>1 DEF StampInv, Bounded, CacheSound, Trustworthy
<1>5. QED BY <1>3, <1>4 DEF StampInv

LEMMA DeleteStampInv ==
  ASSUME TypeOK, StampInv, NEW n \in Names, DeleteFile(n) \/ DeleteFileFails(n)
  PROVE  StampInv'
<1>1. /\ pc = "delete" /\ UNCHANGED <<local, clock, disk, desired, target, pc>>
      /\ remote' = [remote EXCEPT ![target][n] = Absent] \/ UNCHANGED remote
      /\ cache' = [cache EXCEPT ![n] = Absent] \/ UNCHANGED cache
  BY DEF DeleteFile, DeleteFileFails, NextDelete, ForgetRemote, source, store, plan
<1>2. /\ \A h \in Hosts, k \in Names : remote'[h][k] \in {remote[h][k], Absent}
      /\ \A k \in Names : cache'[k] \in {cache[k], Absent}
      /\ target \in Hosts
  BY <1>1 DEF TypeOK
<1>3. Absent \notin Versions /\ \A k \in Names : Absent <= clock[k]
  BY ConstantsAssumption DEF TypeOK, Versions, Absent
<1>4. Bounded'
  BY <1>1, <1>2, <1>3 DEF StampInv, Bounded
<1>5. PushInv'
  BY <1>1 DEF PushInv
<1>6. CacheSound'
  BY <1>1, <1>2, <1>3 DEF StampInv, CacheSound, Trustworthy
<1>7. QED BY <1>4, <1>5, <1>6 DEF StampInv

LEMMA ProcessStampInv ==
  ASSUME OneHost, TypeOK, StampInv, Process
  PROVE  StampInv'
<1>0. \A n \in Names : Absent <= clock[n]
  BY ConstantsAssumption DEF TypeOK, Versions, Absent
<1> USE DEF TypeOK, StampInv, Bounded, PushInv, CacheSound, Trustworthy,
            Versions, Absent, Edited, Nothing, DropLocals,
            source, store, plan, flight, process, history
<1>1. CASE Signal BY <1>1 DEF Signal
<1>2. CASE Crash BY <1>0, <1>2 DEF Crash
<1>3. CASE LoadState
  <2>1. target' = target BY <1>3 DEF LoadState, OneHost
  <2>2. QED BY <1>3, <2>1 DEF LoadState
<1>4. CASE RemoveCacheFile BY <1>0, <1>4 DEF RemoveCacheFile
<1>5. CASE Mirror BY <1>5 DEF Mirror, BeginPass
<1>6. ASSUME NEW m \in Reported, NEW d \in Reported, SyncChanges(m, d) PROVE StampInv'
  BY <1>6 DEF SyncChanges, BeginPass
<1>7. CASE StatFails BY <1>0, <1>7 DEF StatFails, Abort
<1>8. CASE StatDone BY <1>8 DEF StatDone
<1>9. CASE GetAllFileMetadata BY <1>9 DEF GetAllFileMetadata
<1>10. CASE MetadataFails BY <1>0, <1>10 DEF MetadataFails, Abort
<1>11. CASE ListSource BY <1>11 DEF ListSource, Listed
<1>12. CASE WalkFails BY <1>0, <1>12 DEF WalkFails, Abort
<1>13. CASE BuildDeletes BY <1>13 DEF BuildDeletes
<1>14. CASE PushFile BY <1>14, PushStampInv
<1>15. CASE PushFileFails BY <1>15, PushStampInv
<1>16. CASE LoopDone BY <1>0, <1>16 DEF LoopDone, LeavePhase
<1>17. CASE Truncate BY <1>17 DEF Truncate
<1>18. CASE Write BY <1>0, <1>18 DEF Write, LeavePhase
<1>19. CASE SaveFails BY <1>0, <1>19 DEF SaveFails, LeavePhase
<1>20. ASSUME NEW n \in Names,
              \/ Stat(n) \/ Walk(n) \/ Skip(n) \/ ReadFile(n)
              \/ ReadFileFails(n) \/ DeleteFile(n) \/ DeleteFileFails(n)
       PROVE StampInv'
  <2>1. CASE Stat(n) BY <1>0, <2>1 DEF Stat
  <2>2. CASE Walk(n) BY <1>0, <2>2 DEF Walk
  <2>3. CASE Skip(n) BY <2>3 DEF Skip, NextUpload
  <2>4. CASE ReadFile(n) BY <2>4, ReadStampInv
  <2>5. CASE ReadFileFails(n) BY <2>5 DEF ReadFileFails, NextUpload
  <2>6. CASE DeleteFile(n) \/ DeleteFileFails(n) BY <2>6, DeleteStampInv
  <2>7. QED BY <1>20, <2>1, <2>2, <2>3, <2>4, <2>5, <2>6
<1>21. QED
  BY <1>1, <1>2, <1>3, <1>4, <1>5, <1>6, <1>7, <1>8, <1>9, <1>10, <1>11, <1>12,
     <1>13, <1>14, <1>15, <1>16, <1>17, <1>18, <1>19, <1>20 DEF Process, PassStep

LEMMA StampInvInvariant == ASSUME OneHost PROVE Spec => []StampInv
<1>1. Init => StampInv
  BY ConstantsAssumption
  DEF Init, StampInv, Bounded, PushInv, CacheSound, Trustworthy, Nothing,
      Versions, Absent, Edited
<1>2. TypeOK /\ StampInv /\ [Next]_vars => StampInv'
  <2>1. StampInv /\ UNCHANGED vars => StampInv'
    BY DEF StampInv, Bounded, PushInv, CacheSound, Trustworthy,
           vars, source, store, plan, flight, process, history
  <2>2. QED BY <2>1, OneHost, EnvironmentStampInv, ProcessStampInv DEF Next
<1>3. QED BY <1>1, <1>2, TypeCorrect, PTL DEF Spec

\* With a single host, whatever is edited, fails, or crashes, neither the cache
\* in memory nor the one on disk ever claims more than what was uploaded.
THEOREM CacheIsSound == ASSUME OneHost PROVE Spec => []CacheSound
<1>1. StampInv => CacheSound
  BY DEF StampInv
<1>2. QED BY <1>1, StampInvInvariant, PTL

-----------------------------------------------------------------------------
(* A clean, undisturbed full pass leaves the game in step with the source. *)

LEMMA EnvironmentCourseInv ==
  TypeOK /\ CourseInv /\ Environment => CourseInv'
<1> SUFFICES ASSUME TypeOK, CourseInv, Environment PROVE CourseInv'
  OBVIOUS
<1>1. /\ UNCHANGED <<pc, kind>>
      /\ settled' = FALSE
      /\ disturbed' = InPass
  BY DEF Environment, LocalSave, LocalRemove, GameEdit, Disturb, process
<1>2. ~OnCourse'
  BY <1>1 DEF OnCourse, InPass
<1>3. UNCHANGED desired
  BY DEF Environment, LocalSave, LocalRemove, GameEdit, process, plan
<1>4. QED
  BY <1>1, <1>2, <1>3 DEF CourseInv, CleanMirrorConverges, InPass

\* A step that ends the pass, or keeps it off course, has nothing to show.
LEMMA OffCourse ==
  ASSUME CourseInv, ~settled', ~OnCourse',
         pc' = "stat" => kind' = "incremental",
         ~InPass' => \A n \in Names : desired'[n] = Absent
  PROVE  CourseInv'
BY DEF CourseInv, CleanMirrorConverges

LEMMA PlanningCourseInv ==
  ASSUME TypeOK, CourseInv,
         \/ GetAllFileMetadata \/ ListSource \/ BuildDeletes
         \/ \E n \in Names : Walk(n)
  PROVE  CourseInv'
<1> USE DEF source, store, plan, flight, process, history
<1> SUFFICES ASSUME OnCourse' PROVE Collecting' /\ Uploading' /\ Deleting'
  <2>1. pc' \notin {"idle", "down", "stat"} /\ UNCHANGED settled /\ ~settled
    BY DEF CourseInv, GetAllFileMetadata, ListSource, BuildDeletes, Walk
  <2>2. QED BY <2>1 DEF CourseInv, CleanMirrorConverges, InPass
<1>1. /\ UNCHANGED <<local, remote, target, kind, disturbed, failed, cancelled, phase>>
      /\ OnCourse /\ kind = "full" /\ pc \in {"fetch", "list", "walk"}
      /\ Collecting
  BY DEF OnCourse, InPass, CourseInv, GetAllFileMetadata, ListSource, BuildDeletes, Walk
<1> USE <1>1 DEF Collecting, Uploading, Deleting, Saving, There, Fresh, IsDesired, TypeOK
<1>2. CASE GetAllFileMetadata
  BY <1>2 DEF GetAllFileMetadata
<1>3. CASE ListSource
  BY <1>3 DEF ListSource, Listed
<1>4. ASSUME NEW n \in Names, Walk(n) PROVE Collecting' /\ Uploading' /\ Deleting'
  BY <1>4 DEF Walk
<1>5. CASE BuildDeletes
  <2>1. \A n \in Names : desired[n] = IF IsDesired(n) THEN local[n] ELSE Absent
    BY <1>5 DEF BuildDeletes
  <2>2. todo' = {n \in Names : IsDesired(n)}
    BY <2>1, <1>5 DEF BuildDeletes, Planned
  <2>3. deletes' = {n \in Matched : There(n) /\ ~IsDesired(n)}
    BY <2>1, <1>5, ConstantsAssumption DEF BuildDeletes, StaleNames
  <2>4. QED BY <2>1, <2>2, <2>3, <1>5 DEF BuildDeletes
<1>6. QED BY <1>2, <1>3, <1>4, <1>5

LEMMA UploadCourseInv ==
  ASSUME TypeOK, StampInv, CourseInv, NEW n \in Names,
         Skip(n) \/ ReadFile(n)
  PROVE  CourseInv'
<1> USE DEF source, store, plan, flight, process, history
<1> SUFFICES ASSUME OnCourse' PROVE Collecting' /\ Uploading' /\ Deleting'
  <2>1. pc' \notin {"idle", "down", "stat"} /\ UNCHANGED settled /\ ~settled
    BY DEF CourseInv, Skip, ReadFile, NextUpload
  <2>2. QED BY <2>1 DEF CourseInv, CleanMirrorConverges, InPass
<1>1. /\ UNCHANGED <<local, remote, target, desired, deletes, present>>
      /\ pc = "upload" /\ n \in todo /\ todo' = todo \ {n}
      /\ Uploading
  BY DEF OnCourse, InPass, CourseInv, Skip, ReadFile, NextUpload
<1>2. /\ IsDesired(n)
      /\ n \in present => There(n)
      /\ desired[n] = local[n] /\ local[n] # Absent
  BY <1>1 DEF Uploading, IsDesired
<1>3. CASE Skip(n)
  <2>1. cache[n] = local[n] /\ There(n) /\ pc' = "upload"
    BY <1>1, <1>2, <1>3 DEF Skip, Skipped, ShouldUpload
  <2>2. remote[target][n] \in Versions => remote[target][n] = local[n]
    <3>1. /\ local[n] = clock[n] /\ cache[n] # Absent
          /\ remote[target][n] <= clock[n]
      BY <1>2, <2>1 DEF StampInv, Bounded, TypeOK
    <3>2. remote[target][n] \in Versions => remote[target][n] >= cache[n]
      BY <3>1 DEF StampInv, CacheSound, Trustworthy
    <3>3. /\ local[n] \in Int
          /\ remote[target][n] \in Versions => remote[target][n] \in Int
      BY ConstantsAssumption DEF TypeOK, Versions, Absent
    <3>4. QED BY <2>1, <3>1, <3>2, <3>3
  <2>3. Fresh(n)
    BY <2>1, <2>2 DEF Fresh, There, TypeOK
  <2>4. QED
    BY <1>1, <2>1, <2>3 DEF Collecting, Uploading, Deleting, Saving, There, Fresh, IsDesired
<1>4. CASE ReadFile(n)
  <2>1. pc' = "push" /\ current' = n /\ content' = local[n]
    BY <1>4 DEF ReadFile
  <2>2. QED
    BY <1>1, <1>2, <2>1 DEF Collecting, Uploading, Deleting, Saving, There, Fresh, IsDesired
<1>5. QED BY <1>3, <1>4

LEMMA PushCourseInv ==
  ASSUME TypeOK, CourseInv, PushFile
  PROVE  CourseInv'
<1> USE DEF source, store, plan, flight, process, history
<1> SUFFICES ASSUME OnCourse' PROVE Collecting' /\ Uploading' /\ Deleting'
  <2>1. pc' \notin {"idle", "down", "stat"} /\ UNCHANGED settled /\ ~settled
    BY DEF CourseInv, PushFile
  <2>2. QED BY <2>1 DEF CourseInv, CleanMirrorConverges, InPass
<1>1. /\ UNCHANGED <<local, target, desired, deletes, present, todo>>
      /\ pc = "push" /\ pc' = "upload"
      /\ remote' = [remote EXCEPT ![target][current] = content]
      /\ Uploading
  BY DEF OnCourse, InPass, CourseInv, PushFile
<1>2. IsDesired(current) /\ content = local[current] /\ current \notin todo
  BY <1>1 DEF Uploading
<1>3. /\ remote[target]'[current] = local[current]
      /\ \A n \in Names \ {current} : remote[target]'[n] = remote[target][n]
  BY <1>1, <1>2 DEF TypeOK
<1>4. \A n \in Names : IsDesired(n)' <=> IsDesired(n)
  BY <1>1 DEF IsDesired
<1>5. Uploading'
  BY <1>1, <1>2, <1>3, <1>4, ConstantsAssumption DEF Uploading, Saving, There, Fresh, TypeOK
<1>6. Collecting' /\ Deleting'
  BY <1>1 DEF Collecting, Deleting, Saving
<1>7. QED BY <1>5, <1>6

LEMMA DeleteCourseInv ==
  ASSUME TypeOK, CourseInv, NEW n \in Names, DeleteFile(n)
  PROVE  CourseInv'
<1> USE DEF source, store, plan, flight, process, history
<1> SUFFICES ASSUME OnCourse' PROVE Collecting' /\ Uploading' /\ Deleting'
  <2>1. pc' \notin {"idle", "down", "stat"} /\ UNCHANGED settled /\ ~settled
    BY DEF CourseInv, DeleteFile, NextDelete
  <2>2. QED BY <2>1 DEF CourseInv, CleanMirrorConverges, InPass
<1>1. /\ UNCHANGED <<local, target, pc>>
      /\ pc = "delete" /\ n \in todo /\ todo' = todo \ {n}
      /\ remote' = [remote EXCEPT ![target][n] = Absent]
      /\ Deleting
  BY DEF OnCourse, InPass, CourseInv, DeleteFile, NextDelete
<1>2. ~IsDesired(n)
  BY <1>1 DEF Deleting
<1>3. /\ remote[target]'[n] = Absent
      /\ \A k \in Names \ {n} : remote[target]'[k] = remote[target][k]
  BY <1>1 DEF TypeOK
<1>4. \A k \in Names : IsDesired(k)' <=> IsDesired(k)
  BY <1>1 DEF IsDesired
<1>5. Deleting'
  <2>1. \A k \in Names : IsDesired(k) => Fresh(k)'
    BY <1>1, <1>2, <1>3 DEF Deleting, Fresh
  <2>2. \A k \in Matched : ~IsDesired(k) /\ There(k)' => k \in todo'
    BY <1>1, <1>3, ConstantsAssumption DEF Deleting, There, TypeOK
  <2>3. \A k \in todo' : ~IsDesired(k)
    BY <1>1 DEF Deleting
  <2>4. QED
    BY <1>1, <1>4, <2>1, <2>2, <2>3, ConstantsAssumption DEF Deleting, Saving, TypeOK
<1>6. Collecting' /\ Uploading'
  BY <1>1 DEF Collecting, Uploading, Saving
<1>7. QED BY <1>5, <1>6

LEMMA LeavingCourseInv ==
  ASSUME TypeOK, CourseInv, LoopDone \/ Truncate \/ Write \/ SaveFails
  PROVE  CourseInv'
<1> USE DEF source, store, plan, flight, process, history
<1>1. /\ UNCHANGED <<local, remote, target, kind, cancelled>>
      /\ pc \in {"upload", "delete", "save", "write"}
      /\ ~settled
      /\ pc' # "stat"
  BY DEF CourseInv, LoopDone, Truncate, Write, SaveFails, LeavePhase
<1>2. CASE Truncate \/ (LoopDone /\ dirty)
  <2>1. /\ UNCHANGED <<present, desired, deletes, todo, current, content, disturbed, failed,
                       settled>>
        /\ pc' \in {"save", "write"}
        /\ \/ pc = "save" /\ UNCHANGED phase
           \/ phase' = pc /\ pc \in {"upload", "delete"} /\ (todo = {} \/ cancelled)
    BY <1>2 DEF Truncate, LoopDone
  <2>2. OnCourse' => OnCourse
    BY <1>1, <2>1 DEF OnCourse, InPass
  <2>3. OnCourse' => Uploading' /\ Deleting' /\ Collecting'
    BY <1>1, <2>1, <2>2
    DEF CourseInv, OnCourse, Collecting, Uploading, Deleting, Saving, There, Fresh, IsDesired
  <2>4. QED
    BY <1>1, <2>1, <2>3 DEF CourseInv, CleanMirrorConverges, InPass
<1>3. CASE \E ph \in {"upload", "delete"} :
             /\ LeavePhase(ph)
             /\ (pc = ph /\ (todo = {} \/ cancelled)) \/ Saving(ph)
  <2>1. PICK ph \in {"upload", "delete"} :
             /\ LeavePhase(ph)
             /\ (pc = ph /\ (todo = {} \/ cancelled)) \/ Saving(ph)
    BY <1>3
  <2>2. CASE ph = "upload"
    <3>1. /\ UNCHANGED <<present, desired, deletes, disturbed, failed, settled>>
          /\ pc' = "delete" /\ todo' = deletes
      BY <2>1, <2>2 DEF LeavePhase
    <3>2. SUFFICES ASSUME OnCourse' PROVE Collecting' /\ Uploading' /\ Deleting'
      BY <1>1, <3>1 DEF CourseInv, CleanMirrorConverges, InPass
    <3>3. OnCourse /\ Uploading /\ todo = {}
      BY <1>1, <2>1, <2>2, <3>1, <3>2 DEF CourseInv, OnCourse, InPass, Saving, Uploading
    <3>4. /\ \A n \in Names : IsDesired(n) => Fresh(n)
          /\ \A n \in Matched : ~IsDesired(n) /\ There(n) => n \in deletes
          /\ \A n \in deletes : ~IsDesired(n)
      BY <2>1, <2>2, <3>3 DEF Uploading, Saving
    <3>5. QED
      BY <1>1, <3>1, <3>4
      DEF Collecting, Uploading, Deleting, Saving, There, Fresh, IsDesired
  <2>3. CASE ph = "delete"
    <3>1. pc' = "idle" /\ settled' = Clean /\ \A n \in Names : desired'[n] = Absent
      BY <2>1, <2>3 DEF LeavePhase, DropLocals, Nothing
    <3>2. SUFFICES ASSUME Clean PROVE CleanMirrorConverges'
      BY <3>1 DEF CourseInv, CleanMirrorConverges, OnCourse, InPass
    <3>3. OnCourse /\ Deleting /\ todo = {}
      BY <1>1, <2>1, <2>3, <3>2 DEF CourseInv, OnCourse, InPass, Saving, Deleting, Clean
    <3>4. /\ \A n \in Names : IsDesired(n) => Fresh(n)
          /\ \A n \in Matched : ~IsDesired(n) => ~There(n)
      BY <2>1, <2>3, <3>3 DEF Deleting, Saving
    <3>5. QED
      BY <1>1, <3>4, ConstantsAssumption
      DEF CleanMirrorConverges, There, Fresh, IsDesired
  <2>4. QED BY <2>1, <2>2, <2>3
<1>4. QED
  <2>1. TypeOK => phase \in {"upload", "delete"}
    BY DEF TypeOK
  <2>2. QED
    BY <1>1, <1>2, <1>3, <2>1 DEF LoopDone, Write, SaveFails, Saving

LEMMA ProcessCourseInv ==
  ASSUME TypeOK, StampInv, CourseInv, Process
  PROVE  CourseInv'
<1>0. /\ settled => pc = "idle"
      /\ pc = "stat" => kind = "incremental"
      /\ ~InPass => \A n \in Names : desired[n] = Absent
      /\ \A n \in Names : Nothing[n] = Absent
  BY DEF CourseInv, Nothing
<1> USE <1>0, OffCourse
    DEF OnCourse, InPass, DropLocals, source, store, plan, flight, process, history
<1>1. CASE Signal
  BY <1>1 DEF Signal, CourseInv, CleanMirrorConverges, IsDesired
<1>2. CASE Crash BY <1>2 DEF Crash
<1>3. CASE LoadState BY <1>3 DEF LoadState
<1>4. CASE RemoveCacheFile BY <1>4 DEF RemoveCacheFile
<1>5. CASE Mirror
  <2>1. UNCHANGED <<desired, disturbed, failed, cancelled>> /\ pc = "idle"
    BY <1>5 DEF Mirror, BeginPass
  <2>2. ~settled' /\ pc' = "fetch" /\ kind' = "full"
    BY <1>5 DEF Mirror, BeginPass
  <2>3. QED
    BY <2>1, <2>2
    DEF CourseInv, CleanMirrorConverges, Collecting, Uploading, Deleting, Saving
<1>6. ASSUME NEW m \in Reported, NEW d \in Reported, SyncChanges(m, d) PROVE CourseInv'
  BY <1>6 DEF SyncChanges, BeginPass
<1>7. CASE StatFails BY <1>7 DEF StatFails, Abort
<1>8. CASE StatDone BY <1>8 DEF StatDone
<1>9. CASE GetAllFileMetadata BY <1>9, PlanningCourseInv
<1>10. CASE MetadataFails BY <1>10 DEF MetadataFails, Abort
<1>11. CASE ListSource BY <1>11, PlanningCourseInv
<1>12. CASE WalkFails BY <1>12 DEF WalkFails, Abort
<1>13. CASE BuildDeletes BY <1>13, PlanningCourseInv
<1>14. CASE PushFile BY <1>14, PushCourseInv
<1>15. CASE PushFileFails BY <1>15 DEF PushFileFails
<1>16. CASE LoopDone BY <1>16, LeavingCourseInv
<1>17. CASE Truncate BY <1>17, LeavingCourseInv
<1>18. CASE Write BY <1>18, LeavingCourseInv
<1>19. CASE SaveFails BY <1>19, LeavingCourseInv
<1>20. ASSUME NEW n \in Names,
              \/ Stat(n) \/ Walk(n) \/ Skip(n) \/ ReadFile(n)
              \/ ReadFileFails(n) \/ DeleteFile(n) \/ DeleteFileFails(n)
       PROVE CourseInv'
  <2>1. CASE Stat(n) BY <2>1 DEF Stat
  <2>2. CASE Walk(n) BY <2>2, PlanningCourseInv
  <2>3. CASE Skip(n) BY <2>3, UploadCourseInv
  <2>4. CASE ReadFile(n) BY <2>4, UploadCourseInv
  <2>5. CASE ReadFileFails(n) BY <2>5 DEF ReadFileFails, NextUpload
  <2>6. CASE DeleteFile(n) BY <2>6, DeleteCourseInv
  <2>7. CASE DeleteFileFails(n) BY <2>7 DEF DeleteFileFails, NextDelete
  <2>8. QED BY <1>20, <2>1, <2>2, <2>3, <2>4, <2>5, <2>6, <2>7
<1>21. QED
  BY <1>1, <1>2, <1>3, <1>4, <1>5, <1>6, <1>7, <1>8, <1>9, <1>10, <1>11, <1>12,
     <1>13, <1>14, <1>15, <1>16, <1>17, <1>18, <1>19, <1>20 DEF Process, PassStep

\* With a single host: after a full pass that reported no failure and met no
\* edit, the game holds exactly the desired files, none of them out of date.
THEOREM MirrorConverges == ASSUME OneHost PROVE Spec => []CleanMirrorConverges
<1>1. Init => CourseInv
  BY DEF Init, CourseInv, CleanMirrorConverges, OnCourse, InPass, Nothing
<1>2. TypeOK /\ StampInv /\ CourseInv /\ [Next]_vars => CourseInv'
  <2>1. CourseInv /\ UNCHANGED vars => CourseInv'
    BY DEF CourseInv, CleanMirrorConverges, OnCourse, InPass, Collecting, Uploading,
           Deleting, Saving, There, Fresh, IsDesired,
           vars, source, store, plan, flight, process, history
  <2>2. QED BY <2>1, EnvironmentCourseInv, ProcessCourseInv DEF Next
<1>3. CourseInv => CleanMirrorConverges
  BY DEF CourseInv
<1>4. QED BY <1>1, <1>2, <1>3, TypeCorrect, StampInvInvariant, PTL DEF Spec

-----------------------------------------------------------------------------
(* What a pass does to the files of the game. *)

(***************************************************************************)
(* OwnInv: whatever a pass plans, visits or pushes matches the patterns.   *)
(* A walk visits other files too, but plans nothing for them.              *)
(***************************************************************************)
OwnInv ==
    /\ Planned \subseteq Matched
    /\ deletes \subseteq Matched
    /\ pc \in {"stat", "upload", "push", "delete"} => todo \subseteq Matched
    /\ pc = "push" => current \in Matched

(***************************************************************************)
(* LiveInv follows a file that a full pass takes for stale back to the     *)
(* moment its source was missing: it was not listed, or not planned though *)
(* it was listed.                                                          *)
(***************************************************************************)
Excused == seenAbsent \cup Ignored \cup Links

LiveInv ==
    /\ InPass => \A n \in Names : local[n] = Absent => n \in seenAbsent
    /\ kind = "full" =>
         /\ pc # "stat"
         /\ pc = "walk" => \A n \in Matched \ todo : desired[n] = Absent => n \in Excused
         /\ pc \in {"upload", "push", "delete", "save", "write"} => deletes \subseteq Excused
         /\ pc = "delete" => todo \subseteq Excused

LEMMA EnvironmentOwnLive ==
  ASSUME TypeOK, OwnInv, LiveInv, Environment
  PROVE  OwnInv' /\ LiveInv'
<1>1. UNCHANGED <<pc, kind, todo, desired, deletes, current>>
  BY DEF Environment, LocalSave, LocalRemove, GameEdit, process, plan, flight
<1>2. InPass => seenAbsent \subseteq seenAbsent'
  BY DEF Environment, LocalSave, LocalRemove, GameEdit, Disturb
<1>3. \A n \in Names : InPass /\ local'[n] = Absent => n \in seenAbsent'
  <2>1. ASSUME NEW n \in Names, NEW k \in Names, LocalSave(k), InPass, local'[n] = Absent
        PROVE  n \in seenAbsent'
    <3>1. clock[k] + 1 # Absent
      BY ConstantsAssumption DEF TypeOK, Versions, Absent
    <3>2. local[n] = Absent
      BY <2>1, <3>1 DEF LocalSave, TypeOK
    <3>3. QED BY <1>2, <2>1, <3>2 DEF LiveInv
  <2>2. ASSUME NEW n \in Names, NEW k \in Names, LocalRemove(k), InPass, local'[n] = Absent
        PROVE  n \in seenAbsent'
    BY <2>2 DEF LocalRemove, Disturb, LiveInv, TypeOK
  <2>3. ASSUME NEW n \in Names, NEW h \in Hosts, NEW k \in Names, GameEdit(h, k), InPass,
               local'[n] = Absent
        PROVE  n \in seenAbsent'
    BY <1>2, <2>3 DEF GameEdit, source, LiveInv
  <2>4. QED BY <2>1, <2>2, <2>3 DEF Environment
<1>4. QED
  BY <1>1, <1>2, <1>3 DEF OwnInv, LiveInv, Planned, Excused, InPass

LEMMA ProcessOwnInv == ASSUME TypeOK, OwnInv, Process PROVE OwnInv'
<1>0. \A n \in Names : Nothing[n] = Absent
  BY DEF Nothing
<1> USE <1>0 DEF OwnInv, Planned, DropLocals, source, store, plan, flight, process, history
<1>1. CASE Signal BY <1>1 DEF Signal
<1>2. CASE Crash BY <1>2 DEF Crash
<1>3. CASE LoadState BY <1>3 DEF LoadState
<1>4. CASE RemoveCacheFile BY <1>4 DEF RemoveCacheFile
<1>5. CASE Mirror BY <1>5 DEF Mirror, BeginPass
<1>6. ASSUME NEW m \in Reported, NEW d \in Reported, SyncChanges(m, d) PROVE OwnInv'
  BY <1>6 DEF SyncChanges, BeginPass
<1>7. CASE StatFails \/ MetadataFails \/ WalkFails
  BY <1>7 DEF StatFails, MetadataFails, WalkFails, Abort
<1>8. CASE StatDone BY <1>8 DEF StatDone
<1>9. CASE GetAllFileMetadata BY <1>9 DEF GetAllFileMetadata
<1>10. CASE ListSource BY <1>10 DEF ListSource
<1>11. CASE BuildDeletes BY <1>11 DEF BuildDeletes, StaleNames
<1>12. CASE PushFile \/ PushFileFails BY <1>12 DEF PushFile, PushFileFails
<1>13. CASE LoopDone BY <1>13 DEF LoopDone, LeavePhase
<1>14. CASE Truncate BY <1>14 DEF Truncate
<1>15. CASE Write \/ SaveFails BY <1>15 DEF Write, SaveFails, LeavePhase
<1>16. ASSUME NEW n \in Names, Stat(n) \/ Walk(n)
       PROVE OwnInv'
  BY <1>16 DEF Stat, Walk, TypeOK
<1>17. ASSUME NEW n \in Names,
              Skip(n) \/ ReadFile(n) \/ ReadFileFails(n) \/ DeleteFile(n) \/ DeleteFileFails(n)
       PROVE OwnInv'
  BY <1>17 DEF Skip, ReadFile, ReadFileFails, NextUpload, DeleteFile, DeleteFileFails, NextDelete
<1>18. QED
  BY <1>1, <1>2, <1>3, <1>4, <1>5, <1>6, <1>7, <1>8, <1>9, <1>10, <1>11, <1>12,
     <1>13, <1>14, <1>15, <1>16, <1>17 DEF Process, PassStep

LEMMA ProcessLiveInv == ASSUME TypeOK, LiveInv, Process PROVE LiveInv'
<1> USE DEF LiveInv, Excused, InPass, DropLocals, source, store, plan, flight, process, history
<1>1. CASE Signal BY <1>1 DEF Signal
<1>2. CASE Crash BY <1>2 DEF Crash
<1>3. CASE LoadState BY <1>3 DEF LoadState
<1>4. CASE RemoveCacheFile BY <1>4 DEF RemoveCacheFile
<1>5. CASE Mirror BY <1>5 DEF Mirror, BeginPass
<1>6. ASSUME NEW m \in Reported, NEW d \in Reported, SyncChanges(m, d) PROVE LiveInv'
  BY <1>6 DEF SyncChanges, BeginPass
<1>7. CASE StatFails \/ MetadataFails \/ WalkFails
  BY <1>7 DEF StatFails, MetadataFails, WalkFails, Abort
<1>8. CASE StatDone BY <1>8 DEF StatDone
<1>9. CASE GetAllFileMetadata BY <1>9 DEF GetAllFileMetadata
<1>10. CASE ListSource
  BY <1>10, ConstantsAssumption DEF ListSource, Listed
<1>11. CASE BuildDeletes BY <1>11 DEF BuildDeletes, StaleNames
<1>12. CASE PushFile \/ PushFileFails BY <1>12 DEF PushFile, PushFileFails
<1>13. CASE LoopDone BY <1>13 DEF LoopDone, LeavePhase
<1>14. CASE Truncate BY <1>14 DEF Truncate
<1>15. CASE Write \/ SaveFails BY <1>15 DEF Write, SaveFails, LeavePhase, TypeOK
<1>16. ASSUME NEW n \in Names, Stat(n) \/ Walk(n)
       PROVE LiveInv'
  BY <1>16, ConstantsAssumption DEF Stat, Walk, TypeOK
<1>17. ASSUME NEW n \in Names,
              Skip(n) \/ ReadFile(n) \/ ReadFileFails(n) \/ DeleteFile(n) \/ DeleteFileFails(n)
       PROVE LiveInv'
  BY <1>17 DEF Skip, ReadFile, ReadFileFails, NextUpload, DeleteFile, DeleteFileFails, NextDelete
<1>18. QED
  BY <1>1, <1>2, <1>3, <1>4, <1>5, <1>6, <1>7, <1>8, <1>9, <1>10, <1>11, <1>12,
     <1>13, <1>14, <1>15, <1>16, <1>17 DEF Process, PassStep

LEMMA OwnLiveInvariant == Spec => [](OwnInv /\ LiveInv)
<1>1. Init => OwnInv /\ LiveInv
  BY DEF Init, OwnInv, LiveInv, Planned, InPass, Nothing
<1>2. TypeOK /\ OwnInv /\ LiveInv /\ [Next]_vars => (OwnInv /\ LiveInv)'
  <2>1. OwnInv /\ LiveInv /\ UNCHANGED vars => (OwnInv /\ LiveInv)'
    BY DEF OwnInv, LiveInv, Planned, Excused, InPass,
           vars, source, store, plan, flight, process, history
  <2>2. QED
    BY <2>1, EnvironmentOwnLive, ProcessOwnInv, ProcessLiveInv DEF Next
<1>3. QED BY <1>1, <1>2, TypeCorrect, PTL DEF Spec

\* The steps of the process that touch a file of the game.
LEMMA RemoteSteps ==
  ASSUME TypeOK, Process, remote' # remote
  PROVE  \/ /\ pc = "push"
            /\ remote' = [remote EXCEPT ![target][current] = content]
         \/ /\ pc = "delete"
            /\ \E n \in todo : remote' = [remote EXCEPT ![target][n] = Absent]
<1>1. \/ PushFile \/ PushFileFails
      \/ \E n \in Names : DeleteFile(n) \/ DeleteFileFails(n)
  BY DEF Process, Signal, Crash, LoadState, RemoveCacheFile, Mirror, SyncChanges, BeginPass,
         PassStep, StatFails, StatDone, GetAllFileMetadata, MetadataFails, WalkFails, Abort,
         ListSource, BuildDeletes, LoopDone, Truncate, Write, SaveFails, Stat, Walk, Skip,
         ReadFile, ReadFileFails
<1>2. QED
  BY <1>1 DEF PushFile, PushFileFails, DeleteFile, DeleteFileFails, NextDelete

\* Whatever the tree, the game and the cache look like, and whatever fails: a step
\* of bbrs changes a file of the game only on the target host, and only one that
\* the include patterns match.
THEOREM OnlyOwnedFilesTouched == Spec => OnlyOwnedFiles
<1> DEFINE Owned == process' # process =>
             \A h \in Hosts, n \in Names :
               remote'[h][n] # remote[h][n] => h = target /\ n \in Matched
<1>1. ASSUME TypeOK, OwnInv, Process PROVE Owned
  <2> SUFFICES ASSUME NEW h \in Hosts, NEW n \in Names, remote'[h][n] # remote[h][n]
               PROVE  h = target /\ n \in Matched
    OBVIOUS
  <2>1. PICK k \in Matched, v \in {content, Absent} : remote' = [remote EXCEPT ![target][k] = v]
    BY <1>1, RemoteSteps DEF OwnInv
  <2>2. QED BY <1>1, <2>1, ConstantsAssumption DEF TypeOK
<1>2. ASSUME Environment PROVE process' = process
  BY <1>2 DEF Environment, LocalSave, LocalRemove, GameEdit
<1>3. TypeOK /\ OwnInv /\ [Next]_vars => [Owned]_vars
  BY <1>1, <1>2 DEF Next
<1>4. QED BY <1>3, TypeCorrect, OwnLiveInvariant, PTL DEF Spec, OnlyOwnedFiles

\* A full pass asks to delete no file of the game whose source was there from the
\* beginning of the pass on: what it deletes was missing at some moment, or is
\* ignored or a link, which the walk leaves out.
THEOREM LiveFilesAreKept == Spec => MirrorNeverDeletesLive
<1> DEFINE Kept == \A n \in todo \ todo' :
             (kind = "full" /\ pc = "delete" /\ pc' = "delete") => n \in Excused
<1>1. LiveInv => Kept
  BY DEF LiveInv
<1>2. LiveInv /\ [Next]_vars => [Kept]_vars
  BY <1>1
<1>3. QED BY <1>2, OwnLiveInvariant, PTL DEF Spec, MirrorNeverDeletesLive, Excused

=============================================================================
