----------------------------- MODULE SyncWorker -----------------------------
(***************************************************************************)
(* cmd/bbrs: who runs a sync pass, when, and for which changes.            *)
(*                                                                         *)
(* The watcher goroutine and one handler goroutine per websocket           *)
(* connection call queueSync; a syncLoop goroutine runs the passes.  They  *)
(* share app.client (under app.mu), Client.connected (under stateMu), and  *)
(* running and pending (under workerMu).  app.mu and stateMu are held for  *)
(* one access only; workerMu is held across accesses to the other two, so  *)
(* it is a variable here and hasConnectedClient is two steps.  What only   *)
(* sets log flags under workerMu (markConnected, the end of runOneSync,    *)
(* markSyncPendingDisconnected) is left out.                               *)
(*                                                                         *)
(* A pass is one step from its start to its end: Syncer has its inside.    *)
(***************************************************************************)
EXTENDS Naturals

CONSTANTS
    Names,      \* source-relative paths
    Conns,      \* websocket connections, each made once
    Loops,      \* goroutines queueSync may start
    Watcher,    \* the goroutine that runs watch.Poll
    Nobody      \* nil client, free mutex

ASSUME ProcessesAssumption ==
    /\ Watcher \notin Conns \cup Loops
    /\ Nobody \notin Conns \cup Loops \cup {Watcher}
    /\ Conns \cap Loops = {}

Callers == Conns \cup {Watcher}
Processes == Callers \cup Loops

VARIABLES
    client,      \* app.client
    connected,   \* Client.connected of each connection
    link,        \* the connection itself: "up", "down" (the game left), or
                 \* "gone" (it left before the upgrade: the request's context is done)
    running,     \* app.running
    pending,     \* app.pending: no job, or one
    workerMu,    \* who holds app.workerMu
    pc,          \* where each goroutine is
    seen,        \* the client each goroutine last read from app.client
    job,         \* the job each goroutine carries
    cancelled,   \* app.ctx is done
    unreported,  \* changes the watcher is still debouncing
    owed,        \* history: names saved since a pass that covered them began
    covering,    \* history: names the running pass will bring up to date
    lost         \* history: owed names whose job was dropped or whose pass failed

appVars   == <<client, connected, link>>
work      == <<running, pending, workerMu>>
threads   == <<pc, seen, job>>
history   == <<owed, covering, lost>>
vars      == <<appVars, work, threads, cancelled, unreported, history>>

\* A job is the set of names of its ChangeSet; the empty one means a full pass.
Full == {}
Covers(j) == IF j = Full THEN Names ELSE j

HandlerPCs == {"new", "accepted", "queue", "decide", "serve", "clear", "closed"}
WatcherPCs == {"idle", "queue", "decide"}
LoopPCs    == {"none", "check", "checking", "stop", "start", "starting",
               "sync", "clear", "after", "tail"}

TypeOK ==
    /\ client \in Conns \cup {Nobody}
    /\ connected \in [Conns -> BOOLEAN]
    /\ link \in [Conns -> {"up", "down", "gone"}]
    /\ running \in BOOLEAN
    /\ pending \in SUBSET SUBSET Names
    /\ \A j, k \in pending : j = k
    /\ workerMu \in Processes \cup {Nobody}
    /\ pc \in [Processes -> HandlerPCs \cup WatcherPCs \cup LoopPCs]
    /\ \A c \in Conns : pc[c] \in HandlerPCs
    /\ pc[Watcher] \in WatcherPCs
    /\ \A l \in Loops : pc[l] \in LoopPCs
    /\ seen \in [Processes -> Conns \cup {Nobody}]
    /\ job \in [Processes -> SUBSET Names]
    /\ cancelled \in BOOLEAN
    /\ unreported \subseteq Names
    /\ owed \subseteq Names
    /\ covering \subseteq Names
    /\ lost \subseteq Names

Init ==
    /\ client = Nobody
    /\ connected = [c \in Conns |-> FALSE]
    /\ link = [c \in Conns |-> "down"]
    /\ running = FALSE
    /\ pending = {}
    /\ workerMu = Nobody
    /\ pc = [p \in Processes |-> IF p \in Conns THEN "new"
                                 ELSE IF p = Watcher THEN "idle" ELSE "none"]
    /\ seen = [p \in Processes |-> Nobody]
    /\ job = [p \in Processes |-> Full]
    /\ cancelled = FALSE
    /\ unreported = {}
    /\ owed = {}
    /\ covering = {}
    /\ lost = {}

Goto(p, label) == pc' = [pc EXCEPT ![p] = label]

\* Local variables that go out of scope.
ForgetClient(p) == seen' = [seen EXCEPT ![p] = Nobody]
ForgetJob(p) == job' = [job EXCEPT ![p] = Full]

-----------------------------------------------------------------------------
(* The surroundings. *)

\* A matching file of the source tree is saved, created or deleted.
Edit(n) ==
    /\ unreported' = unreported \cup {n}
    /\ owed' = owed \cup {n}
    /\ covering' = covering \ {n}
    /\ lost' = lost \ {n}
    /\ UNCHANGED <<appVars, work, threads, cancelled>>

\* The game goes away; nothing tells bbrs before the next call on the connection.
GameLeaves(c) ==
    /\ link[c] = "up"
    /\ link' = [link EXCEPT ![c] = "down"]
    /\ UNCHANGED <<client, connected, work, threads, cancelled, unreported, history>>

Cancel ==
    /\ ~cancelled
    /\ cancelled' = TRUE
    /\ UNCHANGED <<appVars, work, threads, unreported, history>>

-----------------------------------------------------------------------------
(* queueSync, called by the watcher and by the handlers. *)

\* The debounce timer fires: flush hands what was recorded to queueSync.
Flush ==
    /\ pc[Watcher] = "idle"
    /\ unreported # {}
    /\ job' = [job EXCEPT ![Watcher] = unreported]
    /\ unreported' = {}
    /\ Goto(Watcher, "queue")
    /\ UNCHANGED <<appVars, work, seen, cancelled, history>>

KeepNewest(current, incoming) == {incoming}                               \* mutant
AppendJob(current, incoming) == current \cup {incoming}                   \* mutant
\* The lists of both jobs, appended.
mergeJobs(current, incoming) == {(UNION current) \cup incoming}

Return(p) == Goto(p, IF p = Watcher THEN "idle" ELSE "serve")

\* Up to the read of app.client in hasConnectedClient.
Enqueue(p) ==
    /\ pc[p] = "queue"
    /\ workerMu = Nobody
    /\ pending' = mergeJobs(pending, job[p])
    /\ IF running
       THEN /\ Return(p)
            /\ UNCHANGED <<workerMu, seen>>
       ELSE /\ workerMu' = p
            /\ seen' = [seen EXCEPT ![p] = client]
            /\ Goto(p, "decide")
    /\ ForgetJob(p)
    /\ UNCHANGED <<appVars, running, cancelled, unreported, history>>

Connected(c) == c # Nobody /\ connected[c]

\* go app.syncLoop(job).
SpawnUnmarked(p) == \E l \in Loops :                                      \* mutant
    /\ pc[l] = "none"
    /\ pending' = {}
    /\ UNCHANGED running
    /\ job' = [job EXCEPT ![l] = UNION pending]
    /\ pc' = [pc EXCEPT ![l] = "check", ![p] = IF p = Watcher THEN "idle" ELSE "serve"]
Spawn(p) == \E l \in Loops :
    /\ pc[l] = "none"
    /\ running' = TRUE
    /\ pending' = {}
    /\ job' = [job EXCEPT ![l] = UNION pending]
    /\ pc' = [pc EXCEPT ![l] = "check", ![p] = IF p = Watcher THEN "idle" ELSE "serve"]

\* client.Connected() and the rest of queueSync; without a client the job stays.
Decide(p) ==
    /\ pc[p] = "decide"
    /\ workerMu' = Nobody
    /\ IF Connected(seen[p])
       THEN Spawn(p)
       ELSE Return(p) /\ UNCHANGED <<running, pending, job>>
    /\ ForgetClient(p)
    /\ UNCHANGED <<appVars, cancelled, unreported, history>>

-----------------------------------------------------------------------------
(* handleWebSocket: the handler of connection c. *)

\* The game dials and the upgrade succeeds; it may be gone by then.
Accept(c) ==
    /\ pc[c] = "new"
    /\ ~cancelled
    /\ Goto(c, "accepted")
    /\ connected' = [connected EXCEPT ![c] = TRUE]
    /\ \E state \in {"up", "gone"} : link' = [link EXCEPT ![c] = state]
    /\ UNCHANGED <<client, work, seen, job, cancelled, unreported, history>>

AlwaysVacant == TRUE                                                      \* mutant
Vacant == client = Nobody

\* A second connection is closed with StatusPolicyViolation.
setClient(c) ==
    /\ pc[c] = "accepted"
    /\ IF Vacant
       THEN client' = c /\ Goto(c, "queue") /\ UNCHANGED link
       ELSE Goto(c, "closed") /\ link' = [link EXCEPT ![c] = "down"] /\ UNCHANGED client
    /\ UNCHANGED <<connected, work, seen, job, cancelled, unreported, history>>

\* The select: the client was marked disconnected by a call that failed.
Disconnected(c) ==
    /\ pc[c] = "serve"
    /\ ~connected[c]
    /\ Goto(c, "closed")
    /\ link' = [link EXCEPT ![c] = "down"]
    /\ UNCHANGED <<client, connected, work, seen, job, cancelled, unreported, history>>

\* The select: a context is done.  MarkDisconnected acts once per client.
ContextDone(c) ==
    /\ pc[c] = "serve"
    /\ cancelled \/ link[c] = "gone"
    /\ connected[c]
    /\ connected' = [connected EXCEPT ![c] = FALSE]
    /\ Goto(c, "clear")
    /\ UNCHANGED <<client, link, work, seen, job, cancelled, unreported, history>>

KeepClient(c) == client                                                   \* mutant
clearClient(c) == IF client = c THEN Nobody ELSE client

\* handleClientDisconnected, called by MarkDisconnected; then the deferred Close.
HandlerClears(c) ==
    /\ pc[c] = "clear"
    /\ client' = clearClient(c)
    /\ link' = [link EXCEPT ![c] = "down"]
    /\ Goto(c, "closed")
    /\ UNCHANGED <<connected, work, seen, job, cancelled, unreported, history>>

-----------------------------------------------------------------------------
(* syncLoop and runOneSync: goroutine l. *)

ReadClient(l, from, to) ==
    /\ pc[l] = from
    /\ seen' = [seen EXCEPT ![l] = client]
    /\ Goto(l, to)
    /\ UNCHANGED <<appVars, work, job, cancelled, unreported, history>>

\* hasConnectedClient at the head of the loop, without workerMu.
Check(l) == ReadClient(l, "check", "checking")

Checked(l) ==
    /\ pc[l] = "checking"
    /\ Goto(l, IF Connected(seen[l]) THEN "start" ELSE "stop")
    /\ ForgetClient(l)
    /\ UNCHANGED <<appVars, work, job, cancelled, unreported, history>>

StopUnmarked(l) ==                                                        \* mutant
    /\ pc[l] = "stop"
    /\ workerMu = Nobody
    /\ Goto(l, "none")
    /\ UNCHANGED <<appVars, work, seen, job, cancelled, unreported, history>>
\* The loop ends, and the job it was given with it.
Stop(l) ==
    /\ pc[l] = "stop"
    /\ workerMu = Nobody
    /\ running' = FALSE
    /\ lost' = lost \cup (Covers(job[l]) \cap owed)
    /\ Goto(l, "none")
    /\ ForgetJob(l)
    /\ UNCHANGED <<appVars, pending, workerMu, seen, cancelled, unreported,
                   owed, covering>>

\* runOneSync reads the client again, and checks it again.
Start(l) == ReadClient(l, "start", "starting")

RunSync(l) ==
    /\ pc[l] = "starting"
    /\ IF Connected(seen[l])
       THEN /\ Goto(l, "sync")
            /\ covering' = Covers(job[l])
            /\ UNCHANGED <<seen, job, lost>>
       ELSE /\ Goto(l, "after")
            /\ lost' = lost \cup (Covers(job[l]) \cap owed)
            /\ ForgetClient(l)
            /\ ForgetJob(l)
            /\ UNCHANGED covering
    /\ UNCHANGED <<appVars, work, cancelled, unreported, owed>>

\* The pass succeeds: what it covered and was not saved since is up to date.
SyncDone(l) ==
    /\ pc[l] = "sync"
    /\ connected[seen[l]] /\ link[seen[l]] = "up"
    /\ owed' = owed \ covering
    /\ lost' = lost \ covering
    /\ covering' = {}
    /\ Goto(l, "after")
    /\ ForgetClient(l)
    /\ ForgetJob(l)
    /\ UNCHANGED <<appVars, work, cancelled, unreported>>

Fails(l) ==
    /\ lost' = lost \cup (Covers(job[l]) \cap owed)
    /\ covering' = {}
    /\ ForgetJob(l)
    /\ UNCHANGED <<link, client, work, cancelled, unreported, owed>>

\* It returns an error or a summary with failures, and the connection stays; or
\* app.ctx is done; or the handler has marked the client disconnected.
SyncFails(l) ==
    /\ pc[l] = "sync"
    /\ Fails(l)
    /\ Goto(l, "after")
    /\ ForgetClient(l)
    /\ UNCHANGED connected

\* A read or write fails or times out: requestRaw marks the client disconnected.
CallFails(l) ==
    /\ pc[l] = "sync"
    /\ connected[seen[l]]
    /\ connected' = [connected EXCEPT ![seen[l]] = FALSE]
    /\ Fails(l)
    /\ Goto(l, "clear")
    /\ UNCHANGED seen

\* handleClientDisconnected, before the failing call returns.
LoopClears(l) ==
    /\ pc[l] = "clear"
    /\ client' = clearClient(seen[l])
    /\ Goto(l, "after")
    /\ ForgetClient(l)
    /\ UNCHANGED <<connected, link, work, job, cancelled, unreported, history>>

\* The tail of the loop: workerMu, then the read of app.client.
Lock(l) ==
    /\ pc[l] = "after"
    /\ workerMu = Nobody
    /\ workerMu' = l
    /\ seen' = [seen EXCEPT ![l] = client]
    /\ Goto(l, "tail")
    /\ UNCHANGED <<appVars, running, pending, job, cancelled, unreported, history>>

NeverNext(l) == FALSE                                                     \* mutant
HasNext(l) == Connected(seen[l]) /\ pending # {}

EndKeepingMu(l) ==                                                       \* mutant
    /\ running' = FALSE
    /\ UNCHANGED <<pending, job, workerMu>>
    /\ Goto(l, "none")
EndLoop(l) ==
    /\ running' = FALSE
    /\ UNCHANGED <<pending, job>>
    /\ workerMu' = Nobody
    /\ Goto(l, "none")

\* What arrived during the pass is the next job, if there is still a client.
TakeNext(l) ==
    /\ pc[l] = "tail"
    /\ IF HasNext(l)
       THEN /\ job' = [job EXCEPT ![l] = UNION pending]
            /\ pending' = {}
            /\ workerMu' = Nobody
            /\ Goto(l, "check")
            /\ UNCHANGED running
       ELSE EndLoop(l)
    /\ ForgetClient(l)
    /\ UNCHANGED <<appVars, cancelled, unreported, history>>

-----------------------------------------------------------------------------
CallerStep(p) == Enqueue(p) \/ Decide(p)

HandlerStep(c) ==
    \/ setClient(c) \/ CallerStep(c)
    \/ Disconnected(c) \/ ContextDone(c) \/ HandlerClears(c)

WatcherStep == Flush \/ CallerStep(Watcher)

LoopStep(l) ==
    \/ Check(l) \/ Checked(l) \/ Stop(l) \/ Start(l) \/ RunSync(l)
    \/ SyncDone(l) \/ SyncFails(l) \/ CallFails(l) \/ LoopClears(l)
    \/ Lock(l) \/ TakeNext(l)

Surroundings ==
    \/ Cancel
    \/ \E n \in Names : Edit(n)
    \/ \E c \in Conns : GameLeaves(c) \/ Accept(c)

Next ==
    \/ Surroundings
    \/ WatcherStep
    \/ \E c \in Conns : HandlerStep(c)
    \/ \E l \in Loops : LoopStep(l)

Spec == Init /\ [][Next]_vars

\* Goroutines that can run do, a pass ends (its calls time out), a timer fires.
FairSpec ==
    /\ Spec
    /\ WF_vars(WatcherStep)
    /\ \A c \in Conns : WF_vars(HandlerStep(c))
    /\ \A l \in Loops : WF_vars(LoopStep(l))

-----------------------------------------------------------------------------
(* Properties. *)

Active(l) == pc[l] # "none"

\* Two passes never run at once: they would share one connection and write the
\* upload cache, a plain map, without a lock.  queueSync is called from several
\* goroutines, and running is reset on three different paths.
SingleLoop == \A l, m \in Loops : Active(l) /\ Active(m) => l = m

\* running is never left set by a loop that has ended: every later queueSync
\* would hand its job to nobody.
RunningHasLoop == running => \E l \in Loops : Active(l)

\* A handler that went past setClient and whose client is still connected has
\* the active client: connections are served one at a time, and a late
\* disconnect of the previous client does not clear its successor.
OneClient ==
    \A c \in Conns : (pc[c] \in {"queue", "decide", "serve"} /\ connected[c]) => client = c

\* A job still to be run, or yet to be formed, will bring n up to date.
BeforePass == {"check", "checking", "stop", "start", "starting"}
Carried(n) ==
    \/ n \in unreported
    \/ pc[Watcher] = "queue" /\ n \in job[Watcher]
    \/ \E j \in pending : n \in j
    \/ \E l \in Loops : pc[l] \in BeforePass /\ n \in Covers(job[l])

\* No saved change is forgotten on the way from the watcher to a pass: until a
\* pass covers it, some job carries it, unless its pass failed or was dropped.
NoChangeForgotten == \A n \in owed : Carried(n) \/ n \in covering \/ n \in lost

\* The life of a change, as the goroutines know it.  A change that is owed and of
\* which nobody knows is "forgotten", which is no life at all.
Life(n) ==
    IF n \notin owed THEN "synced"
    ELSE IF n \in covering THEN "syncing"
    ELSE IF Carried(n) THEN "waiting"
    ELSE IF n \in lost THEN "given up"
    ELSE "forgotten"

Changes == INSTANCE ChangeLife WITH Names <- Names, life <- [n \in Names |-> Life(n)]

\* Whatever the goroutines do, a change lives as ChangeLife says: it reaches the game
\* with a pass that began after it, one pass at a time, or is given up with its job.
ImplementsChangeLife == Changes!Spec

\* The comment at main.go:380: a job that waits for a connection is taken up
\* when there is one.  Nobody waits for a loop that does not exist.
NoStrandedJob ==
    (pending # {} /\ workerMu = Nobody) =>
        running \/ \A c \in Conns : pc[c] = "serve" /\ connected[c] => client # c

\* workerMu is released on every path of queueSync and syncLoop.
MutexReleased == (workerMu # Nobody) ~> (workerMu = Nobody)

\* A client that was marked disconnected makes room for the next connection.
DeadClientLeaves ==
    \A c \in Conns : (client = c /\ ~connected[c]) ~> (client # c)

\* While a client is there, a change that was reported is synced, or its pass
\* fails, or the client is lost, or the file is saved again.
ChangeIsSynced ==
    \A n \in Names :
        (n \in owed /\ client # Nobody)
            ~> (n \notin owed \/ n \in lost \/ n \in unreported \/ client = Nobody)

=============================================================================
