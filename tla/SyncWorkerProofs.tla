-------------------------- MODULE SyncWorkerProofs --------------------------
(***************************************************************************)
(* Theorems about SyncWorker, for any number of connections, files and     *)
(* goroutines.                                                             *)
(***************************************************************************)
EXTENDS SyncWorker, TLAPS

(***************************************************************************)
(* LoopInv strengthens SingleLoop and RunningHasLoop.  A goroutine that is *)
(* to decide holds workerMu since it read running as false, so no loop can *)
(* be there, and none can be started or ended by anybody else.             *)
(***************************************************************************)
LoopInv ==
    /\ SingleLoop
    /\ RunningHasLoop
    /\ \A l \in Loops : Active(l) => running
    /\ \A p \in Callers : pc[p] = "decide" => workerMu = p /\ ~running

(***************************************************************************)
(* ClientInv strengthens OneClient.  Whoever clears app.client has marked  *)
(* its client disconnected, and a connection nobody has seen yet is the    *)
(* only one that becomes connected.                                        *)
(***************************************************************************)
ClientInv ==
    /\ OneClient
    /\ \A l \in Loops : pc[l] \in {"sync", "clear"} => seen[l] \in Conns
    /\ \A l \in Loops : pc[l] = "clear" => ~connected[seen[l]]
    /\ \A p \in Processes : seen[p] \in Conns => pc[seen[p]] \notin {"new", "accepted"}
    /\ client \in Conns => pc[client] \notin {"new", "accepted"}

(***************************************************************************)
(* ChangeInv strengthens NoChangeForgotten: covering belongs to the pass   *)
(* of the one loop, and is part of what its job covers.                    *)
(***************************************************************************)
ChangeInv ==
    /\ NoChangeForgotten
    /\ covering # {} => \E l \in Loops : pc[l] = "sync"
    /\ \A l \in Loops : pc[l] = "sync" => covering \subseteq Covers(job[l])

(***************************************************************************)
(* StrandInv strengthens NoStrandedJob, where there is one connection in   *)
(* all.  Whoever leaves a job behind has found no client: nil, which means *)
(* that the connection is still to come or is marked disconnected, or one  *)
(* marked disconnected.  A connection that is to come calls queueSync      *)
(* itself, and one that is marked never comes back.                        *)
(***************************************************************************)
Waiting(c) == pc[c] \in {"new", "accepted", "queue"}
NobodyToServe == \A c \in Conns : connected[c] => Waiting(c)
NobodyLeft == \A c \in Conns : ~connected[c]

StrandInv ==
    /\ pending # {} /\ workerMu = Nobody /\ ~running => NobodyToServe
    /\ \A p \in Callers : pc[p] = "decide" /\ seen[p] = Nobody => NobodyToServe
    /\ \A l \in Loops : pc[l] = "stop" => NobodyLeft
    /\ \A l \in Loops : pc[l] \in {"checking", "tail"} /\ seen[l] = Nobody => NobodyLeft
    /\ \A l \in Loops, c \in Conns : Active(l) => pc[c] \notin {"new", "accepted"}
    /\ \A c \in Conns : pc[c] \in {"clear", "closed"} => ~connected[c]

Step(p) ==
    \/ p \in Callers /\ (Enqueue(p) \/ Decide(p))
    \/ p = Watcher /\ Flush
    \/ p \in Conns /\ (setClient(p) \/ Disconnected(p) \/ ContextDone(p) \/ HandlerClears(p))
    \/ p \in Loops /\ LoopStep(p)

\* Next, as the surroundings and one goroutine.
LEMMA NextIsStep == Next => Surroundings \/ \E p \in Processes : Step(p)
BY DEF Next, Step, WatcherStep, HandlerStep, CallerStep, Processes, Callers

LEMMA SurroundingsTypeOK == TypeOK /\ Surroundings => TypeOK'
<1> SUFFICES ASSUME TypeOK, Surroundings PROVE TypeOK'
  OBVIOUS
<1> USE ProcessesAssumption
    DEF TypeOK, Processes, Callers, HandlerPCs, WatcherPCs, LoopPCs,
        appVars, work, threads, history, Goto
<1>1. CASE Cancel BY <1>1 DEF Cancel
<1>2. ASSUME NEW n \in Names, Edit(n) PROVE TypeOK' BY <1>2 DEF Edit
<1>3. ASSUME NEW c \in Conns, GameLeaves(c) PROVE TypeOK' BY <1>3 DEF GameLeaves
<1>4. ASSUME NEW c \in Conns, Accept(c) PROVE TypeOK' BY <1>4 DEF Accept
<1>5. QED BY <1>1, <1>2, <1>3, <1>4 DEF Surroundings

LEMMA StepTypeOK == ASSUME TypeOK, NEW p \in Processes, Step(p) PROVE TypeOK'
<1> USE ProcessesAssumption
    DEF TypeOK, Processes, Callers, HandlerPCs, WatcherPCs, LoopPCs,
        appVars, work, threads, history, Goto, ForgetClient, ForgetJob, Full, Covers
<1>1. CASE p \in Callers /\ Enqueue(p)
  <2>1. pending' \in SUBSET SUBSET Names /\ \A j, k \in pending' : j = k
    <3>1. (UNION pending) \cup job[p] \subseteq Names
      <4>1. job[p] \in SUBSET Names
        OBVIOUS
      <4>2. UNION pending \subseteq Names
        OBVIOUS
      <4>3. QED BY <4>1, <4>2
    <3>2. pending' = {(UNION pending) \cup job[p]}
      BY <1>1 DEF Enqueue, mergeJobs
    <3>3. QED BY <3>1, <3>2
  <2>2. CASE running BY <1>1, <2>1, <2>2 DEF Enqueue, Return
  <2>3. CASE ~running BY <1>1, <2>1, <2>3 DEF Enqueue, Return
  <2>4. QED BY <2>2, <2>3
<1>2. CASE p \in Callers /\ Decide(p)
  <2>1. CASE Connected(seen[p])
    <3>1. PICK l \in Loops :
             /\ running' = TRUE
             /\ pending' = {}
             /\ job' = [job EXCEPT ![l] = UNION pending]
             /\ pc' = [pc EXCEPT ![l] = "check",
                                 ![p] = IF p = Watcher THEN "idle" ELSE "serve"]
      BY <1>2, <2>1 DEF Decide, Spawn
    <3>2. UNION pending \subseteq Names
      OBVIOUS
    <3>3. QED BY <1>2, <2>1, <3>1, <3>2 DEF Decide
  <2>2. CASE ~Connected(seen[p]) BY <1>2, <2>2 DEF Decide, Return
  <2>3. QED BY <2>1, <2>2
<1>3. CASE p = Watcher /\ Flush BY <1>3 DEF Flush
<1>4. CASE p \in Conns /\ setClient(p) BY <1>4 DEF setClient
<1>5. CASE p \in Conns /\ Disconnected(p) BY <1>5 DEF Disconnected
<1>6. CASE p \in Conns /\ ContextDone(p) BY <1>6 DEF ContextDone
<1>7. CASE p \in Conns /\ HandlerClears(p) BY <1>7 DEF HandlerClears, clearClient
<1>8. CASE p \in Loops /\ LoopStep(p)
  <2>1. CASE Check(p) BY <1>8, <2>1 DEF Check, ReadClient
  <2>2. CASE Checked(p) BY <1>8, <2>2 DEF Checked
  <2>3. CASE Stop(p) BY <1>8, <2>3 DEF Stop
  <2>4. CASE Start(p) BY <1>8, <2>4 DEF Start, ReadClient
  <2>5. CASE RunSync(p) BY <1>8, <2>5 DEF RunSync, Connected
  <2>6. CASE SyncDone(p) BY <1>8, <2>6 DEF SyncDone
  <2>7. CASE SyncFails(p) BY <1>8, <2>7 DEF SyncFails, Fails
  <2>8. CASE CallFails(p) BY <1>8, <2>8 DEF CallFails, Fails
  <2>9. CASE LoopClears(p) BY <1>8, <2>9 DEF LoopClears, clearClient
  <2>10. CASE Lock(p) BY <1>8, <2>10 DEF Lock
  <2>11. CASE TakeNext(p)
    <3>1. UNION pending \subseteq Names
      OBVIOUS
    <3>2. CASE HasNext(p) BY <1>8, <2>11, <3>1, <3>2 DEF TakeNext
    <3>3. CASE ~HasNext(p)
      <4>1. /\ pc' = [pc EXCEPT ![p] = "none"]
            /\ seen' = [seen EXCEPT ![p] = Nobody]
            /\ running' = FALSE /\ workerMu' = Nobody
            /\ UNCHANGED <<client, connected, link, pending, job, cancelled, unreported,
                           owed, covering, lost>>
        BY <2>11, <3>3 DEF TakeNext, EndLoop
      <4>2. /\ pc' \in [Processes -> HandlerPCs \cup WatcherPCs \cup LoopPCs]
            /\ \A c \in Conns : pc'[c] \in HandlerPCs
            /\ pc'[Watcher] \in WatcherPCs
            /\ \A l \in Loops : pc'[l] \in LoopPCs
        BY <1>8, <4>1
      <4>3. seen' \in [Processes -> Conns \cup {Nobody}]
        BY <4>1
      <4>4. QED BY <4>1, <4>2, <4>3
    <3>4. QED BY <3>2, <3>3
  <2>12. QED
    BY <1>8, <2>1, <2>2, <2>3, <2>4, <2>5, <2>6, <2>7, <2>8, <2>9, <2>10, <2>11
    DEF LoopStep
<1>9. QED BY <1>1, <1>2, <1>3, <1>4, <1>5, <1>6, <1>7, <1>8 DEF Step

\* The application's shared state and its goroutines always have their types.
THEOREM WorkerTypeCorrect == Spec => []TypeOK
<1>1. Init => TypeOK
  <2> SUFFICES ASSUME Init PROVE TypeOK
    OBVIOUS
  <2>1. /\ pc \in [Processes -> HandlerPCs \cup WatcherPCs \cup LoopPCs]
        /\ \A c \in Conns : pc[c] \in HandlerPCs
        /\ pc[Watcher] \in WatcherPCs
        /\ \A l \in Loops : pc[l] \in LoopPCs
    BY ProcessesAssumption DEF Init, Processes, Callers, HandlerPCs, WatcherPCs, LoopPCs
  <2>2. QED BY <2>1 DEF Init, TypeOK, Full
<1>2. TypeOK /\ [Next]_vars => TypeOK'
  <2>1. TypeOK /\ UNCHANGED vars => TypeOK'
    BY DEF TypeOK, vars, appVars, work, threads, history
  <2>2. QED BY <2>1, NextIsStep, SurroundingsTypeOK, StepTypeOK
<1>3. QED BY <1>1, <1>2, PTL DEF Spec

-----------------------------------------------------------------------------
(* At most one loop. *)

\* What no step of the surroundings touches.
LEMMA SurroundingsFrame ==
  Surroundings => /\ UNCHANGED <<client, running, pending, workerMu, seen, job>>
                  /\ \A p \in Loops \cup {Watcher} : pc'[p] = pc[p]
<1> SUFFICES ASSUME Surroundings
             PROVE  /\ UNCHANGED <<client, running, pending, workerMu, seen, job>>
                    /\ \A p \in Loops \cup {Watcher} : pc'[p] = pc[p]
  OBVIOUS
<1> USE ProcessesAssumption DEF appVars, work, threads, history
<1>1. CASE Cancel BY <1>1 DEF Cancel
<1>2. ASSUME NEW n \in Names, Edit(n)
      PROVE  UNCHANGED <<client, running, pending, workerMu, seen, job, pc>>
  BY <1>2 DEF Edit
<1>3. ASSUME NEW c \in Conns, GameLeaves(c)
      PROVE  UNCHANGED <<client, running, pending, workerMu, seen, job, pc>>
  BY <1>3 DEF GameLeaves
<1>4. ASSUME NEW c \in Conns, Accept(c)
      PROVE  /\ UNCHANGED <<client, running, pending, workerMu, seen, job>>
             /\ \A p \in Loops \cup {Watcher} : pc'[p] = pc[p]
  BY <1>4 DEF Accept, Goto
<1>5. QED BY <1>1, <1>2, <1>3, <1>4 DEF Surroundings

LEMMA StepLoopInv ==
  ASSUME TypeOK, LoopInv, NEW p \in Processes, Step(p)
  PROVE  LoopInv'
<1> USE ProcessesAssumption
    DEF TypeOK, LoopInv, SingleLoop, RunningHasLoop, Active, Processes, Callers,
        appVars, work, threads, history, Goto
<1>1. CASE p \in Callers /\ Enqueue(p)
  <2>1. CASE running BY <1>1, <2>1 DEF Enqueue, Return
  <2>2. CASE ~running BY <1>1, <2>2 DEF Enqueue, Return
  <2>3. QED BY <2>1, <2>2
<1>2. CASE p \in Callers /\ Decide(p)
  <2>1. CASE Connected(seen[p])
    <3>1. PICK l \in Loops :
             /\ running' = TRUE
             /\ pc' = [pc EXCEPT ![l] = "check",
                                 ![p] = IF p = Watcher THEN "idle" ELSE "serve"]
      BY <1>2, <2>1 DEF Decide, Spawn
    <3>2. \A m \in Loops : pc[m] = "none"
      BY <1>2 DEF Decide
    <3>3. \A q \in Callers : pc[q] = "decide" => q = p
      BY <1>2 DEF Decide
    <3>4. QED BY <1>2, <3>1, <3>2, <3>3
  <2>2. CASE ~Connected(seen[p]) BY <1>2, <2>2 DEF Decide, Return
  <2>3. QED BY <2>1, <2>2
<1>3. CASE p = Watcher /\ Flush BY <1>3 DEF Flush
<1>4. CASE p \in Conns /\ (setClient(p) \/ Disconnected(p) \/ ContextDone(p) \/ HandlerClears(p))
  BY <1>4 DEF setClient, Disconnected, ContextDone, HandlerClears
<1>5. CASE p \in Loops /\ LoopStep(p)
  <2>1. Active(p) /\ running /\ \A m \in Loops \ {p} : pc[m] = "none"
    BY <1>5
    DEF LoopStep, Check, Checked, Stop, Start, ReadClient, RunSync, SyncDone, SyncFails,
        CallFails, LoopClears, Lock, TakeNext
  <2>2. \A q \in Callers : pc[q] # "decide"
    BY <2>1
  <2>3. /\ \A q \in Processes \ {p} : pc'[q] = pc[q]
        /\ \/ pc'[p] # "none" /\ UNCHANGED running
           \/ pc'[p] = "none" /\ running' = FALSE
    <3>1. CASE Stop(p) \/ TakeNext(p)
      BY <1>5, <3>1 DEF Stop, TakeNext, EndLoop
    <3>2. CASE ~(Stop(p) \/ TakeNext(p))
      BY <1>5, <3>2
      DEF LoopStep, Check, Checked, Start, ReadClient, RunSync, SyncDone, SyncFails,
          CallFails, Fails, LoopClears, Lock
    <3>3. QED BY <3>1, <3>2
  <2>4. QED BY <1>5, <2>1, <2>2, <2>3
<1>6. QED BY <1>1, <1>2, <1>3, <1>4, <1>5 DEF Step

LEMMA LoopInvInvariant == Spec => []LoopInv
<1>1. Init => LoopInv
  BY ProcessesAssumption
  DEF Init, LoopInv, SingleLoop, RunningHasLoop, Active, Processes, Callers
<1>2. TypeOK /\ LoopInv /\ [Next]_vars => LoopInv'
  <2>1. LoopInv /\ UNCHANGED vars => LoopInv'
    BY DEF LoopInv, SingleLoop, RunningHasLoop, Active, vars, work, threads
  <2>2. TypeOK /\ LoopInv /\ Surroundings => LoopInv'
    <3> SUFFICES ASSUME TypeOK, LoopInv, Surroundings PROVE LoopInv'
      OBVIOUS
    <3>1. \A p \in Callers : pc'[p] = "decide" => pc[p] = "decide"
      BY ProcessesAssumption
      DEF TypeOK, Callers, Processes, Surroundings, Cancel, Edit, GameLeaves, Accept, Goto,
          appVars, work, threads, history
    <3>2. QED
      BY <3>1, SurroundingsFrame DEF LoopInv, SingleLoop, RunningHasLoop, Active
  <2>3. QED BY <2>1, <2>2, NextIsStep, StepLoopInv
<1>3. QED BY <1>1, <1>2, WorkerTypeCorrect, PTL DEF Spec

\* Two loops never run at once, however many goroutines call queueSync, connect,
\* disconnect or end meanwhile.
THEOREM OnlyOneLoop == Spec => []SingleLoop
<1>1. LoopInv => SingleLoop
  BY DEF LoopInv
<1>2. QED BY <1>1, LoopInvInvariant, PTL

\* running never outlives the loop it stands for.
THEOREM RunningIsTrue == Spec => []RunningHasLoop
<1>1. LoopInv => RunningHasLoop
  BY DEF LoopInv
<1>2. QED BY <1>1, LoopInvInvariant, PTL

-----------------------------------------------------------------------------
(* One connection is served at a time. *)

LEMMA StepClientInv ==
  ASSUME TypeOK, ClientInv, NEW p \in Processes, Step(p)
  PROVE  ClientInv'
<1> USE ProcessesAssumption
    DEF TypeOK, ClientInv, OneClient, Processes, Callers,
        appVars, work, threads, history, Goto, ForgetClient
<1>1. CASE p \in Callers /\ Enqueue(p)
  <2>1. CASE running BY <1>1, <2>1 DEF Enqueue, Return
  <2>2. CASE ~running BY <1>1, <2>2 DEF Enqueue, Return
  <2>3. QED BY <2>1, <2>2
<1>2. CASE p \in Callers /\ Decide(p)
  <2>1. CASE Connected(seen[p])
    <3>1. PICK l \in Loops :
             pc' = [pc EXCEPT ![l] = "check",
                              ![p] = IF p = Watcher THEN "idle" ELSE "serve"]
      BY <1>2, <2>1 DEF Decide, Spawn
    <3>2. QED BY <1>2, <3>1 DEF Decide
  <2>2. CASE ~Connected(seen[p]) BY <1>2, <2>2 DEF Decide, Return
  <2>3. QED BY <2>1, <2>2
<1>3. CASE p = Watcher /\ Flush BY <1>3 DEF Flush
<1>4. CASE p \in Conns /\ setClient(p)
  <2>1. CASE Vacant BY <1>4, <2>1 DEF setClient, Vacant
  <2>2. CASE ~Vacant BY <1>4, <2>2 DEF setClient
  <2>3. QED BY <2>1, <2>2
<1>5. CASE p \in Conns /\ Disconnected(p) BY <1>5 DEF Disconnected
<1>6. CASE p \in Conns /\ ContextDone(p) BY <1>6 DEF ContextDone
<1>7. CASE p \in Conns /\ HandlerClears(p) BY <1>7 DEF HandlerClears, clearClient
<1>8. CASE p \in Loops /\ LoopStep(p)
  <2>1. CASE Check(p) BY <1>8, <2>1 DEF Check, ReadClient
  <2>2. CASE Checked(p) BY <1>8, <2>2 DEF Checked
  <2>3. CASE Stop(p) BY <1>8, <2>3 DEF Stop
  <2>4. CASE Start(p) BY <1>8, <2>4 DEF Start, ReadClient
  <2>5. CASE RunSync(p) BY <1>8, <2>5 DEF RunSync, Connected
  <2>6. CASE SyncDone(p) BY <1>8, <2>6 DEF SyncDone
  <2>7. CASE SyncFails(p) BY <1>8, <2>7 DEF SyncFails, Fails
  <2>8. CASE CallFails(p) BY <1>8, <2>8 DEF CallFails, Fails
  <2>9. CASE LoopClears(p) BY <1>8, <2>9 DEF LoopClears, clearClient
  <2>10. CASE Lock(p) BY <1>8, <2>10 DEF Lock
  <2>11. CASE TakeNext(p)
    <3>1. /\ pc' = [pc EXCEPT ![p] = "check"] \/ pc' = [pc EXCEPT ![p] = "none"]
          /\ seen' = [seen EXCEPT ![p] = Nobody]
          /\ UNCHANGED <<client, connected, link>>
      BY <2>11 DEF TakeNext, EndLoop
    <3>2. QED BY <1>8, <3>1
  <2>12. QED
    BY <1>8, <2>1, <2>2, <2>3, <2>4, <2>5, <2>6, <2>7, <2>8, <2>9, <2>10, <2>11
    DEF LoopStep
<1>9. QED BY <1>1, <1>2, <1>3, <1>4, <1>5, <1>6, <1>7, <1>8 DEF Step

LEMMA SurroundingsClientInv == TypeOK /\ ClientInv /\ Surroundings => ClientInv'
<1> SUFFICES ASSUME TypeOK, ClientInv, Surroundings PROVE ClientInv'
  OBVIOUS
<1> USE ProcessesAssumption
    DEF TypeOK, ClientInv, OneClient, Processes, Callers,
        appVars, work, threads, history, Goto
<1>1. CASE Cancel BY <1>1 DEF Cancel
<1>2. ASSUME NEW n \in Names, Edit(n) PROVE ClientInv' BY <1>2 DEF Edit
<1>3. ASSUME NEW c \in Conns, GameLeaves(c) PROVE ClientInv' BY <1>3 DEF GameLeaves
<1>4. ASSUME NEW c \in Conns, Accept(c) PROVE ClientInv' BY <1>4 DEF Accept
<1>5. QED BY <1>1, <1>2, <1>3, <1>4 DEF Surroundings

LEMMA ClientInvInvariant == Spec => []ClientInv
<1>1. Init => ClientInv
  BY ProcessesAssumption DEF Init, ClientInv, OneClient, Processes, Callers
<1>2. TypeOK /\ ClientInv /\ [Next]_vars => ClientInv'
  <2>1. ClientInv /\ UNCHANGED vars => ClientInv'
    BY DEF ClientInv, OneClient, vars, appVars, work, threads
  <2>2. QED BY <2>1, NextIsStep, SurroundingsClientInv, StepClientInv
<1>3. QED BY <1>1, <1>2, WorkerTypeCorrect, PTL DEF Spec

\* A connected client whose handler went past setClient is the active client, so
\* no two connections are served together, whoever disconnects them and when.
THEOREM OneConnectionServed == Spec => []OneClient
<1>1. ClientInv => OneClient
  BY DEF ClientInv
<1>2. QED BY <1>1, ClientInvInvariant, PTL

-----------------------------------------------------------------------------
(* No job waits for nobody, where there is one connection. *)

OneConnection == \A c, d \in Conns : c = d

\* Without an active client, whoever is connected has not come to setClient yet.
LEMMA NoClient ==
  ASSUME TypeOK, ClientInv, StrandInv, client = Nobody, NEW c \in Conns, connected[c]
  PROVE  pc[c] \in {"new", "accepted"}
<1>1. pc[c] \in HandlerPCs
  BY DEF TypeOK
<1>2. pc[c] \notin {"queue", "decide", "serve"}
  BY ProcessesAssumption DEF ClientInv, OneClient
<1>3. pc[c] \notin {"clear", "closed"}
  BY DEF StrandInv
<1>4. QED BY <1>1, <1>2, <1>3 DEF HandlerPCs

\* A client that was found disconnected was the only one.
LEMMA FoundNobody ==
  ASSUME OneConnection, TypeOK, NEW p \in Processes, ~Connected(seen[p]), seen[p] # Nobody
  PROVE  NobodyLeft
<1>1. seen[p] \in Conns /\ ~connected[seen[p]]
  BY DEF TypeOK, Connected
<1>2. QED BY <1>1 DEF OneConnection, NobodyLeft

LEMMA SurroundingsStrandInv ==
  TypeOK /\ StrandInv /\ Surroundings => StrandInv'
<1> SUFFICES ASSUME TypeOK, StrandInv, Surroundings PROVE StrandInv'
  OBVIOUS
<1> USE ProcessesAssumption
    DEF TypeOK, StrandInv, NobodyToServe, NobodyLeft, Waiting, Active, Processes, Callers,
        appVars, work, threads, history, Goto
<1>1. CASE Cancel BY <1>1 DEF Cancel
<1>2. ASSUME NEW n \in Names, Edit(n) PROVE StrandInv' BY <1>2 DEF Edit
<1>3. ASSUME NEW c \in Conns, GameLeaves(c) PROVE StrandInv' BY <1>3 DEF GameLeaves
<1>4. ASSUME NEW c \in Conns, Accept(c) PROVE StrandInv'
  <2>1. /\ pc[c] = "new" /\ pc' = [pc EXCEPT ![c] = "accepted"]
        /\ connected' = [connected EXCEPT ![c] = TRUE]
        /\ UNCHANGED <<pending, workerMu, running, seen>>
    BY <1>4 DEF Accept
  <2>2. NobodyToServe => NobodyToServe'
    BY <2>1
  <2>3. QED BY <2>1, <2>2
<1>5. QED BY <1>1, <1>2, <1>3, <1>4 DEF Surroundings

LEMMA EnqueueStrandInv ==
  ASSUME TypeOK, LoopInv, ClientInv, StrandInv, NEW p \in Callers, Enqueue(p)
  PROVE  StrandInv'
<1> USE ProcessesAssumption DEF TypeOK, Processes, Callers, appVars, work, threads, history
<1>1. /\ pc[p] = "queue" /\ workerMu = Nobody
      /\ UNCHANGED <<client, connected, running>>
  BY DEF Enqueue
<1>2. \A q \in Callers : pc[q] # "decide"
  BY <1>1 DEF LoopInv
<1>3. CASE running
  <2>1. pc' = [pc EXCEPT ![p] = IF p = Watcher THEN "idle" ELSE "serve"] /\ UNCHANGED seen
    BY <1>3 DEF Enqueue, Return, Goto
  <2>2. QED BY <1>1, <1>2, <1>3, <2>1 DEF StrandInv, NobodyLeft, Active
<1>4. CASE ~running
  <2>1. /\ workerMu' = p /\ p # Nobody
        /\ seen' = [seen EXCEPT ![p] = client]
        /\ pc' = [pc EXCEPT ![p] = "decide"]
    BY <1>4 DEF Enqueue, Goto
  <2>2. client = Nobody => NobodyToServe'
    BY <1>1, <2>1, NoClient DEF NobodyToServe, Waiting
  <2>3. QED BY <1>1, <1>2, <2>1, <2>2 DEF StrandInv, NobodyLeft, Active
<1>5. QED BY <1>3, <1>4

LEMMA DecideStrandInv ==
  ASSUME OneConnection, TypeOK, LoopInv, ClientInv, StrandInv, NEW p \in Callers, Decide(p)
  PROVE  StrandInv'
<1> USE ProcessesAssumption DEF TypeOK, Processes, Callers, appVars, work, threads, history
<1>1. /\ pc[p] = "decide" /\ workerMu' = Nobody
      /\ seen' = [seen EXCEPT ![p] = Nobody]
      /\ UNCHANGED <<client, connected>>
  BY DEF Decide, ForgetClient
<1>2. \A q \in Callers : pc[q] = "decide" => q = p
  BY <1>1 DEF LoopInv
<1>3. CASE Connected(seen[p])
  <2>1. PICK l \in Loops :
           /\ pending' = {} /\ running' = TRUE
           /\ pc' = [pc EXCEPT ![l] = "check",
                               ![p] = IF p = Watcher THEN "idle" ELSE "serve"]
    BY <1>3 DEF Decide, Spawn
  <2>2. \A c \in Conns : pc[c] \notin {"new", "accepted"}
    BY <1>3 DEF OneConnection, Connected, ClientInv
  <2>3. QED BY <1>1, <1>2, <2>1, <2>2 DEF StrandInv, NobodyLeft, Active
<1>4. CASE ~Connected(seen[p])
  <2>1. /\ pc' = [pc EXCEPT ![p] = IF p = Watcher THEN "idle" ELSE "serve"]
        /\ UNCHANGED <<running, pending>>
    BY <1>4 DEF Decide, Return, Goto
  <2>2. NobodyToServe
    BY <1>1, <1>4, FoundNobody DEF StrandInv, NobodyToServe, NobodyLeft
  <2>3. NobodyToServe'
    BY <1>1, <2>1, <2>2 DEF NobodyToServe, Waiting
  <2>4. QED BY <1>1, <1>2, <2>1, <2>3 DEF StrandInv, NobodyLeft, Active
<1>5. QED BY <1>3, <1>4

LEMMA HandlerStrandInv ==
  ASSUME TypeOK, ClientInv, StrandInv, OneConnection, NEW c \in Conns,
         setClient(c) \/ Disconnected(c) \/ ContextDone(c) \/ HandlerClears(c)
  PROVE  StrandInv'
<1> USE ProcessesAssumption DEF TypeOK, Processes, Callers, appVars, work, threads, history
<1>1. UNCHANGED <<running, pending, workerMu, seen>>
  BY DEF setClient, Disconnected, ContextDone, HandlerClears
<1>2. CASE setClient(c)
  <2>1. client = Nobody
    BY <1>2 DEF OneConnection, setClient, ClientInv
  <2>2. pc[c] = "accepted" /\ pc' = [pc EXCEPT ![c] = "queue"] /\ UNCHANGED connected
    BY <1>2, <2>1 DEF setClient, Vacant, Goto
  <2>3. QED
    BY <1>1, <2>2 DEF StrandInv, NobodyToServe, NobodyLeft, Waiting, Active
<1>3. CASE Disconnected(c) \/ ContextDone(c) \/ HandlerClears(c)
  <2>1. /\ pc[c] \in {"serve", "clear"}
        /\ pc' = [pc EXCEPT ![c] = "closed"] \/ pc' = [pc EXCEPT ![c] = "clear"]
        /\ ~connected'[c]
        /\ \A d \in Conns : connected'[d] => connected[d]
    BY <1>3 DEF Disconnected, ContextDone, HandlerClears, Goto, StrandInv
  <2>2. (NobodyToServe => NobodyToServe') /\ (NobodyLeft => NobodyLeft')
    BY <2>1 DEF NobodyToServe, NobodyLeft, Waiting
  <2>3. QED BY <1>1, <2>1, <2>2 DEF StrandInv, Active
<1>4. QED BY <1>2, <1>3

LEMMA LoopStrandInv ==
  ASSUME OneConnection, TypeOK, LoopInv, ClientInv, StrandInv, NEW l \in Loops, LoopStep(l)
  PROVE  StrandInv'
<1> USE ProcessesAssumption DEF TypeOK, Processes, Callers, appVars, work, threads, history
<1>1. /\ running /\ Active(l)
      /\ \A p \in Callers : pc[p] # "decide"
      /\ \A c \in Conns : pc[c] \notin {"new", "accepted"}
  <2>1. Active(l)
    BY DEF LoopStep, Active, Check, Checked, Stop, Start, ReadClient, RunSync, SyncDone,
           SyncFails, CallFails, LoopClears, Lock, TakeNext
  <2>2. QED BY <2>1 DEF LoopInv, StrandInv
<1>2. /\ \A m \in Processes \ {l} : pc'[m] = pc[m] /\ seen'[m] = seen[m]
      /\ \A c \in Conns : connected'[c] => connected[c]
  BY DEF LoopStep, Check, Checked, Stop, Start, ReadClient, RunSync, SyncDone, SyncFails,
         CallFails, Fails, LoopClears, Lock, TakeNext, EndLoop, Goto, ForgetClient
<1>3. (NobodyToServe => NobodyToServe') /\ (NobodyLeft => NobodyLeft')
  BY <1>2 DEF NobodyToServe, NobodyLeft, Waiting
<1>4. client = Nobody => NobodyLeft
  BY <1>1, NoClient DEF NobodyLeft
<1>5. ~Connected(seen[l]) /\ (seen[l] = Nobody => NobodyLeft) => NobodyLeft
  BY FoundNobody
<1>6. ASSUME running' \/ pending' = {} \/ NobodyLeft,
             pc'[l] = "stop" => NobodyLeft,
             pc'[l] \in {"checking", "tail"} /\ seen'[l] = Nobody => NobodyLeft
      PROVE  StrandInv'
  <2>1. NobodyLeft => NobodyToServe
    BY DEF NobodyLeft, NobodyToServe
  <2>2. QED BY <1>1, <1>2, <1>3, <1>6, <2>1 DEF StrandInv, Active
<1>7. CASE Check(l) \/ Start(l)
  <2>1. /\ pc'[l] \in {"checking", "starting"} /\ seen'[l] = client
        /\ UNCHANGED running
    BY <1>7 DEF Check, Start, ReadClient, Goto
  <2>2. QED BY <1>1, <1>4, <1>6, <2>1
<1>8. CASE Checked(l)
  <2>1. /\ pc[l] = "checking" /\ UNCHANGED running
        /\ pc'[l] = IF Connected(seen[l]) THEN "start" ELSE "stop"
    BY <1>8 DEF Checked, Goto
  <2>2. QED BY <1>1, <1>5, <1>6, <2>1 DEF StrandInv
<1>9. CASE Stop(l)
  <2>1. pc[l] = "stop" /\ pc'[l] = "none"
    BY <1>9 DEF Stop, Goto
  <2>2. QED BY <1>6, <2>1 DEF StrandInv
<1>10. CASE RunSync(l) \/ SyncDone(l) \/ SyncFails(l) \/ CallFails(l) \/ LoopClears(l)
  <2>1. pc'[l] \in {"sync", "after", "clear"} /\ UNCHANGED running
    BY <1>10 DEF RunSync, SyncDone, SyncFails, CallFails, Fails, LoopClears, Goto
  <2>2. QED BY <1>1, <1>6, <2>1
<1>11. CASE Lock(l)
  <2>1. pc'[l] = "tail" /\ seen'[l] = client /\ UNCHANGED running
    BY <1>11 DEF Lock, Goto
  <2>2. QED BY <1>1, <1>4, <1>6, <2>1
<1>12. CASE TakeNext(l)
  <2>1. pc[l] = "tail" /\ pc'[l] \in {"check", "none"}
    BY <1>12 DEF TakeNext, EndLoop, Goto
  <2>2. CASE HasNext(l) BY <1>6, <1>12, <2>1, <2>2 DEF TakeNext
  <2>3. CASE ~HasNext(l)
    <3>1. UNCHANGED pending
      BY <1>12, <2>3 DEF TakeNext, EndLoop
    <3>2. pending = {} \/ NobodyLeft
      BY <1>5, <2>1, <2>3 DEF HasNext, StrandInv
    <3>3. QED BY <1>6, <2>1, <3>1, <3>2
  <2>4. QED BY <2>2, <2>3
<1>13. QED BY <1>7, <1>8, <1>9, <1>10, <1>11, <1>12 DEF LoopStep

\* With one connection, a job that waits while no loop runs waits for a client that is
\* not there: whoever left it behind, at the end of the loop or in queueSync, saw no
\* client, and the handler of a client to come brings its own job.  With two this is
\* false, as the second may be set while the loop of the first one ends.
THEOREM NoJobIsStranded == ASSUME OneConnection PROVE Spec => []NoStrandedJob
<1>1. Init => StrandInv
  BY ProcessesAssumption DEF Init, StrandInv, Processes, Callers, Active
<1>2. TypeOK /\ LoopInv /\ ClientInv /\ StrandInv /\ [Next]_vars => StrandInv'
  <2>1. StrandInv /\ UNCHANGED vars => StrandInv'
    BY DEF StrandInv, NobodyToServe, NobodyLeft, Waiting, Active, vars, appVars, work, threads
  <2>2. ASSUME TypeOK, LoopInv, ClientInv, StrandInv, NEW p \in Processes, Step(p)
        PROVE  StrandInv'
    <3>1. CASE p \in Callers /\ Enqueue(p) BY <2>2, <3>1, EnqueueStrandInv
    <3>2. CASE p \in Callers /\ Decide(p) BY <2>2, <3>2, OneConnection, DecideStrandInv
    <3>3. CASE p = Watcher /\ Flush
      BY <2>2, <3>3, ProcessesAssumption
      DEF Flush, StrandInv, NobodyToServe, NobodyLeft, Waiting, Active, Goto, TypeOK,
          Processes, Callers, appVars, work, threads, history
    <3>4. CASE p \in Conns /\ (setClient(p) \/ Disconnected(p) \/ ContextDone(p)
                                \/ HandlerClears(p))
      BY <2>2, <3>4, OneConnection, HandlerStrandInv
    <3>5. CASE p \in Loops /\ LoopStep(p) BY <2>2, <3>5, OneConnection, LoopStrandInv
    <3>6. QED BY <2>2, <3>1, <3>2, <3>3, <3>4, <3>5 DEF Step
  <2>3. QED BY <2>1, <2>2, NextIsStep, SurroundingsStrandInv
<1>3. TypeOK /\ StrandInv => NoStrandedJob
  BY DEF StrandInv, NoStrandedJob, NobodyToServe, Waiting
<1>4. QED
  BY <1>1, <1>2, <1>3, WorkerTypeCorrect, LoopInvInvariant, ClientInvInvariant, PTL DEF Spec

-----------------------------------------------------------------------------
(* Nothing saved is forgotten. *)

\* Steps that touch no job and start or end no pass.
LEMMA IdleChangeInv ==
  ASSUME TypeOK, ChangeInv,
         UNCHANGED <<unreported, owed, covering, lost, pending, job>>,
         \A l \in Loops : /\ pc[l] \in BeforePass => pc'[l] \in BeforePass
                          /\ pc[l] = "sync" <=> pc'[l] = "sync",
         pc[Watcher] = "queue" => pc'[Watcher] = "queue"
  PROVE  ChangeInv'
BY DEF ChangeInv, NoChangeForgotten, Carried

LEMMA SurroundingsChangeInv == TypeOK /\ ChangeInv /\ Surroundings => ChangeInv'
<1> SUFFICES ASSUME TypeOK, ChangeInv, Surroundings PROVE ChangeInv'
  OBVIOUS
<1> USE DEF appVars, work, threads, history
<1>1. CASE Cancel BY <1>1, SurroundingsFrame, IdleChangeInv DEF Cancel
<1>2. ASSUME NEW n \in Names, Edit(n) PROVE ChangeInv'
  BY <1>2 DEF Edit, ChangeInv, NoChangeForgotten, Carried
<1>3. ASSUME NEW c \in Conns, GameLeaves(c) PROVE ChangeInv'
  BY <1>3, SurroundingsFrame, IdleChangeInv DEF GameLeaves
<1>4. ASSUME NEW c \in Conns, Accept(c) PROVE ChangeInv'
  BY <1>4, SurroundingsFrame, IdleChangeInv DEF Accept
<1>5. QED BY <1>1, <1>2, <1>3, <1>4 DEF Surroundings

LEMMA CallerChangeInv ==
  ASSUME TypeOK, LoopInv, ChangeInv, NEW p \in Callers, Enqueue(p) \/ Decide(p)
  PROVE  ChangeInv'
<1> USE ProcessesAssumption DEF TypeOK, Processes, Callers, appVars, work, threads, history
<1>1. CASE Enqueue(p)
  <2>1. /\ pending' = {(UNION pending) \cup job[p]}
        /\ pc[p] = "queue"
        /\ job' = [job EXCEPT ![p] = {}]
        /\ UNCHANGED <<unreported, owed, covering, lost>>
    BY <1>1 DEF Enqueue, mergeJobs, ForgetJob, Full
  <2>2. \A l \in Loops \cup {Watcher} : l # p => pc'[l] = pc[l]
    BY <1>1 DEF Enqueue, Return, Goto
  <2>3. \A l \in Loops : pc'[l] = pc[l] /\ job'[l] = job[l]
    BY <2>1, <2>2
  <2>4. \A n : Carried(n) => Carried(n)'
    <3> SUFFICES ASSUME NEW n, Carried(n) PROVE Carried(n)'
      OBVIOUS
    <3>1. CASE \E j \in pending : n \in j BY <3>1, <2>1 DEF Carried
    <3>2. CASE pc[Watcher] = "queue" /\ n \in job[Watcher]
      <4>1. CASE p = Watcher BY <3>2, <4>1, <2>1 DEF Carried
      <4>2. CASE p # Watcher BY <3>2, <4>2, <2>1, <2>2 DEF Carried
      <4>3. QED BY <4>1, <4>2
    <3>3. CASE n \in unreported BY <3>3, <2>1 DEF Carried
    <3>4. CASE \E l \in Loops : pc[l] \in BeforePass /\ n \in Covers(job[l])
      BY <3>4, <2>3 DEF Carried
    <3>5. QED BY <3>1, <3>2, <3>3, <3>4 DEF Carried
  <2>5. QED BY <2>1, <2>3, <2>4 DEF ChangeInv, NoChangeForgotten
<1>2. CASE Decide(p) /\ Connected(seen[p])
  <2>1. PICK l \in Loops :
           /\ pc[l] = "none"
           /\ pending' = {}
           /\ job' = [job EXCEPT ![l] = UNION pending]
           /\ pc' = [pc EXCEPT ![l] = "check",
                               ![p] = IF p = Watcher THEN "idle" ELSE "serve"]
    BY <1>2 DEF Decide, Spawn
  <2>2. pc[p] = "decide" /\ UNCHANGED <<unreported, owed, covering, lost>>
    BY <1>2 DEF Decide
  <2>3. \A m \in Loops \ {l} : pc'[m] = pc[m] /\ job'[m] = job[m]
    BY <2>1
  <2>4. /\ pc'[l] = "check" /\ job'[l] = UNION pending
        /\ pc[Watcher] = "queue" => pc'[Watcher] = "queue" /\ job'[Watcher] = job[Watcher]
    BY <2>1, <2>2
  <2>5. \A n \in Names : Carried(n) => Carried(n)'
    BY <2>1, <2>2, <2>3, <2>4 DEF Carried, BeforePass, Covers, Full
  <2>6. QED BY <2>1, <2>2, <2>3, <2>4, <2>5 DEF ChangeInv, NoChangeForgotten
<1>3. CASE Decide(p) /\ ~Connected(seen[p])
  <2>1. UNCHANGED <<unreported, owed, covering, lost, pending, job>>
    BY <1>3 DEF Decide
  <2>2. pc[p] = "decide" /\ \A q \in Processes \ {p} : pc'[q] = pc[q]
    BY <1>3 DEF Decide, Return, Goto
  <2>3. QED BY <2>1, <2>2, IdleChangeInv
<1>4. QED BY <1>1, <1>2, <1>3

LEMMA LoopChangeInv ==
  ASSUME TypeOK, LoopInv, ChangeInv, NEW l \in Loops, LoopStep(l)
  PROVE  ChangeInv'
<1> USE ProcessesAssumption DEF TypeOK, Processes, Callers, appVars, work, threads, history
<1>1. \A m \in Loops \ {l} : pc[m] = "none" /\ pc'[m] = "none"
  <2>1. Active(l)
    BY DEF LoopStep, Active, Check, Checked, Stop, Start, ReadClient, RunSync, SyncDone,
           SyncFails, CallFails, LoopClears, Lock, TakeNext
  <2>2. \A m \in Loops \ {l} : pc[m] = "none"
    BY <2>1 DEF LoopInv, SingleLoop, Active
  <2>3. \A m \in Processes \ {l} : pc'[m] = pc[m]
    BY DEF LoopStep, Check, Checked, Stop, Start, ReadClient, RunSync, SyncDone,
           SyncFails, CallFails, LoopClears, Lock, TakeNext, EndLoop, Goto
  <2>4. QED BY <2>2, <2>3
<1>2. pc'[Watcher] = pc[Watcher]
  BY DEF LoopStep, Check, Checked, Stop, Start, ReadClient, RunSync, SyncDone,
         SyncFails, CallFails, LoopClears, Lock, TakeNext, EndLoop, Goto
<1>3. CASE Check(l) \/ Checked(l) \/ Start(l) \/ Lock(l) \/ LoopClears(l)
  <2>1. /\ UNCHANGED <<unreported, owed, covering, lost, pending, job>>
        /\ pc[l] \in BeforePass => pc'[l] \in BeforePass
        /\ pc[l] # "sync" /\ pc'[l] # "sync"
    BY <1>3
    DEF Check, Checked, Start, Lock, LoopClears, ReadClient, Goto, BeforePass
  <2>2. QED BY <1>1, <1>2, <2>1, IdleChangeInv
<1> USE DEF ChangeInv, NoChangeForgotten, Carried
<1>4. CASE Stop(l)
  <2>1. /\ pc[l] = "stop" /\ pc'[l] = "none"
        /\ lost' = lost \cup (Covers(job[l]) \cap owed)
        /\ job'[Watcher] = job[Watcher]
        /\ UNCHANGED <<unreported, owed, covering, pending>>
    BY <1>4 DEF Stop, Goto, ForgetJob
  <2>2. /\ covering' = covering /\ \A m \in Loops : pc[m] # "sync" /\ pc'[m] # "sync"
    BY <1>1, <2>1
  <2>3. \A n \in owed : Carried(n) => Carried(n)' \/ n \in lost'
    BY <1>1, <1>2, <2>1 DEF BeforePass
  <2>4. QED BY <2>1, <2>2, <2>3
<1>5. CASE RunSync(l)
  <2>1. /\ pc[l] = "starting"
        /\ \/ pc'[l] = "sync" /\ covering' = Covers(job[l]) /\ UNCHANGED <<job, lost>>
           \/ /\ pc'[l] = "after" /\ job'[Watcher] = job[Watcher] /\ UNCHANGED covering
              /\ lost' = lost \cup (Covers(job[l]) \cap owed)
        /\ UNCHANGED <<unreported, owed, pending>>
    BY <1>5 DEF RunSync, Goto, ForgetJob
  <2>2. covering = {}
    BY <1>1, <2>1
  <2>3. \A n \in owed : Carried(n) => Carried(n)' \/ n \in lost' \/ n \in covering'
    BY <1>1, <1>2, <2>1 DEF BeforePass
  <2>4. /\ \A n \in lost : n \in lost'
        /\ covering' # {} => pc'[l] = "sync"
        /\ pc'[l] = "sync" => covering' \subseteq Covers(job'[l])
    BY <2>1, <2>2
  <2>5. QED BY <1>1, <2>1, <2>2, <2>3, <2>4
<1>6. CASE SyncDone(l)
  <2>1. /\ pc[l] = "sync" /\ pc'[l] = "after"
        /\ owed' = owed \ covering /\ lost' = lost \ covering /\ covering' = {}
        /\ job'[Watcher] = job[Watcher]
        /\ UNCHANGED <<unreported, pending>>
    BY <1>6 DEF SyncDone, Goto, ForgetJob
  <2>2. QED BY <1>1, <1>2, <2>1 DEF BeforePass
<1>7. CASE SyncFails(l) \/ CallFails(l)
  <2>1. /\ pc[l] = "sync" /\ pc'[l] \in {"after", "clear"}
        /\ lost' = lost \cup (Covers(job[l]) \cap owed) /\ covering' = {}
        /\ job'[Watcher] = job[Watcher]
        /\ UNCHANGED <<unreported, owed, pending>>
    BY <1>7 DEF SyncFails, CallFails, Fails, Goto, ForgetJob
  <2>2. QED BY <1>1, <1>2, <2>1 DEF BeforePass
<1>8. CASE TakeNext(l)
  <2>1. /\ pc[l] = "tail"
        /\ job'[Watcher] = job[Watcher]
        /\ \/ pc'[l] = "check" /\ job'[l] = UNION pending
           \/ pc'[l] = "none" /\ UNCHANGED pending
        /\ UNCHANGED <<unreported, owed, covering, lost>>
    BY <1>8 DEF TakeNext, EndLoop, Goto
  <2>2. \A n \in Names : Carried(n) => Carried(n)'
    BY <1>1, <1>2, <2>1 DEF BeforePass, Covers, Full
  <2>3. QED BY <1>1, <2>1, <2>2
<1>9. QED BY <1>3, <1>4, <1>5, <1>6, <1>7, <1>8 DEF LoopStep

LEMMA StepChangeInv ==
  ASSUME TypeOK, LoopInv, ChangeInv, NEW p \in Processes, Step(p)
  PROVE  ChangeInv'
<1>1. CASE p \in Callers /\ (Enqueue(p) \/ Decide(p))
  BY <1>1, CallerChangeInv
<1>2. CASE p = Watcher /\ Flush
  BY <1>2, ProcessesAssumption
  DEF Flush, Goto, ChangeInv, NoChangeForgotten, Carried, TypeOK, Processes, Callers,
      appVars, work, threads, history
<1>3. CASE p \in Conns /\ (setClient(p) \/ Disconnected(p) \/ ContextDone(p) \/ HandlerClears(p))
  <2>1. /\ UNCHANGED <<unreported, owed, covering, lost, pending, job>>
        /\ \A q \in Loops \cup {Watcher} : pc'[q] = pc[q]
    BY <1>3, ProcessesAssumption
    DEF setClient, Disconnected, ContextDone, HandlerClears, Goto, TypeOK, Processes, Callers,
        appVars, work, threads, history
  <2>2. QED BY <2>1, IdleChangeInv
<1>4. CASE p \in Loops /\ LoopStep(p)
  BY <1>4, LoopChangeInv
<1>5. QED BY <1>1, <1>2, <1>3, <1>4 DEF Step

LEMMA ChangeInvInvariant == Spec => []ChangeInv
<1>1. Init => ChangeInv
  BY DEF Init, ChangeInv, NoChangeForgotten
<1>2. TypeOK /\ LoopInv /\ ChangeInv /\ [Next]_vars => ChangeInv'
  <2>1. ChangeInv /\ UNCHANGED vars => ChangeInv'
    BY DEF ChangeInv, NoChangeForgotten, Carried, vars, appVars, work, threads, history
  <2>2. QED BY <2>1, NextIsStep, SurroundingsChangeInv, StepChangeInv
<1>3. QED BY <1>1, <1>2, WorkerTypeCorrect, LoopInvInvariant, PTL DEF Spec

\* Until a pass covers it, a saved change is in the hands of the watcher, of the
\* pending job or of the loop, unless its pass failed or its job was dropped.
THEOREM ChangesAreKept == Spec => []NoChangeForgotten
<1>1. ChangeInv => NoChangeForgotten
  BY DEF ChangeInv
<1>2. QED BY <1>1, ChangeInvInvariant, PTL

-----------------------------------------------------------------------------
(* Refinement: each step of SyncWorker is a step of ChangeLife, or none. *)

\* A handler asks for full passes only.
HandlerJobs == \A c \in Conns : job[c] = Full

LEMMA HandlerJobsInvariant == Spec => []HandlerJobs
<1> USE ProcessesAssumption DEF TypeOK, HandlerJobs, Processes, Callers,
        appVars, work, threads, history
<1>1. Init => HandlerJobs
  BY DEF Init
<1>2. TypeOK /\ HandlerJobs /\ [Next]_vars => HandlerJobs'
  <2> SUFFICES ASSUME TypeOK, HandlerJobs, [Next]_vars PROVE HandlerJobs'
    OBVIOUS
  <2>1. CASE UNCHANGED vars BY <2>1 DEF vars
  <2>2. CASE Surroundings BY <2>2, SurroundingsFrame
  <2>3. ASSUME NEW p \in Callers, Enqueue(p) \/ Decide(p) PROVE HandlerJobs'
    BY <2>3 DEF Enqueue, Decide, Spawn, ForgetJob, Full
  <2>4. CASE Flush BY <2>4 DEF Flush
  <2>5. ASSUME NEW c \in Conns,
               setClient(c) \/ Disconnected(c) \/ ContextDone(c) \/ HandlerClears(c)
        PROVE  HandlerJobs'
    BY <2>5 DEF setClient, Disconnected, ContextDone, HandlerClears
  <2>6. ASSUME NEW l \in Loops, LoopStep(l) PROVE \A p \in Processes \ {l} : job'[p] = job[p]
    BY <2>6
    DEF LoopStep, Check, Checked, Stop, Start, ReadClient, RunSync, SyncDone, SyncFails,
        CallFails, Fails, LoopClears, Lock, TakeNext, EndLoop, ForgetJob
  <2>7. QED BY <2>1, <2>2, <2>3, <2>4, <2>5, <2>6, NextIsStep DEF Step
<1>3. QED BY <1>1, <1>2, WorkerTypeCorrect, PTL DEF Spec

\* Nobody learns of a change, and nobody forgets one.
LEMMA SameLives ==
  ASSUME UNCHANGED <<owed, covering, lost>>, \A n \in Names : Carried(n)' <=> Carried(n)
  PROVE  UNCHANGED [n \in Names |-> Life(n)]
BY DEF Life

\* A full job is taken up.
LEMMA RevivedLives ==
  ASSUME ChangeInv, UNCHANGED <<owed, covering, lost>>, \A n \in Names : Carried(n)'
  PROVE  Changes!Revive
BY DEF ChangeInv, NoChangeForgotten, Life, Changes!Revive, Changes!Become, Changes!Are

\* A job is dropped.
LEMMA DroppedLives ==
  ASSUME ChangeInv, UNCHANGED <<owed, covering>>, covering = {}, lost \subseteq lost',
         \A n \in Names : Carried(n)' => Carried(n),
         \A n \in owed : Carried(n) => Carried(n)' \/ n \in lost'
  PROVE  \E changes \in SUBSET Names : Changes!GiveUp(changes)
<1> DEFINE dropped == {n \in Names : n \in owed /\ Carried(n) /\ ~Carried(n)'}
<1>1. dropped \subseteq Changes!Are("waiting")
  BY DEF Life, Changes!Are
<1>2. \A n \in Names : Life(n)' = IF n \in dropped THEN "given up" ELSE Life(n)
  BY DEF ChangeInv, NoChangeForgotten, Life
<1>3. Changes!GiveUp(dropped)
  BY <1>1, <1>2 DEF Changes!GiveUp, Changes!Become
<1>4. QED BY <1>3

LEMMA EditRefines == ASSUME TypeOK, NEW n \in Names, Edit(n) PROVE Changes!Save(n)
<1>1. \A m \in Names : Life(m)' = IF m = n THEN "waiting" ELSE Life(m)
  <2> SUFFICES ASSUME NEW m \in Names
               PROVE  Life(m)' = IF m = n THEN "waiting" ELSE Life(m)
    OBVIOUS
  <2>1. Carried(m)' <=> (Carried(m) \/ m = n)
    BY DEF Edit, Carried, threads, work
  <2>2. QED BY <2>1 DEF Edit, Life, TypeOK
<1>2. QED BY <1>1 DEF Changes!Save, Changes!Become

LEMMA CallerRefines ==
  ASSUME TypeOK, LoopInv, ChangeInv, HandlerJobs, NEW p \in Callers, Enqueue(p) \/ Decide(p)
  PROVE  Changes!Revive \/ UNCHANGED [n \in Names |-> Life(n)]
<1> USE ProcessesAssumption DEF TypeOK, Processes, Callers, appVars, work, threads, history
<1>1. CASE Enqueue(p)
  <2>1. /\ pending' = {(UNION pending) \cup job[p]}
        /\ pc[p] = "queue" /\ pc'[p] # "queue"
        /\ job' = [job EXCEPT ![p] = {}]
        /\ UNCHANGED <<unreported, owed, covering, lost>>
    BY <1>1 DEF Enqueue, mergeJobs, ForgetJob, Full, Return, Goto
  <2>2. \A l \in Loops \cup {Watcher} : l # p => pc'[l] = pc[l]
    BY <1>1 DEF Enqueue, Return, Goto
  <2>3. \A l \in Loops : pc'[l] = pc[l] /\ job'[l] = job[l]
    BY <2>1, <2>2
  <2>4. ASSUME NEW n \in Names PROVE Carried(n)' <=> Carried(n)
    <3>1. CASE p = Watcher
      BY <2>1, <2>3, <3>1 DEF Carried
    <3>2. CASE p # Watcher
      <4>1. job[p] = {}
        BY <3>2 DEF HandlerJobs, Full
      <4>2. pc'[Watcher] = pc[Watcher] /\ job'[Watcher] = job[Watcher]
        BY <2>1, <2>2, <3>2
      <4>3. QED BY <2>1, <2>3, <4>1, <4>2 DEF Carried
    <3>3. QED BY <3>1, <3>2
  <2>5. QED BY <2>1, <2>4, SameLives
<1>2. CASE Decide(p) /\ Connected(seen[p])
  <2>1. PICK l \in Loops :
           /\ pc[l] = "none"
           /\ pending' = {}
           /\ job' = [job EXCEPT ![l] = UNION pending]
           /\ pc' = [pc EXCEPT ![l] = "check",
                               ![p] = IF p = Watcher THEN "idle" ELSE "serve"]
    BY <1>2 DEF Decide, Spawn
  <2>2. pc[p] = "decide" /\ UNCHANGED <<unreported, owed, covering, lost>>
    BY <1>2 DEF Decide
  <2>3. /\ \A m \in Loops \ {l} : pc'[m] = pc[m] /\ job'[m] = job[m]
        /\ pc'[l] = "check" /\ job'[l] = UNION pending
        /\ pc[Watcher] = "queue" <=> pc'[Watcher] = "queue"
        /\ job'[Watcher] = job[Watcher]
    BY <2>1, <2>2
  <2>4. CASE UNION pending = {}
    BY <2>2, <2>3, <2>4, RevivedLives DEF Carried, BeforePass, Covers, Full
  <2>5. CASE UNION pending # {}
    <3>1. \A n \in Names : Carried(n)' <=> Carried(n)
      BY <2>1, <2>2, <2>3, <2>5 DEF Carried, BeforePass, Covers, Full
    <3>2. QED BY <2>2, <3>1, SameLives
  <2>6. QED BY <2>4, <2>5
<1>3. CASE Decide(p) /\ ~Connected(seen[p])
  <2>1. UNCHANGED <<unreported, owed, covering, lost, pending, job>>
    BY <1>3 DEF Decide
  <2>2. /\ pc[p] = "decide" /\ pc'[p] \in {"idle", "serve"}
        /\ \A q \in Processes \ {p} : pc'[q] = pc[q]
    BY <1>3 DEF Decide, Return, Goto
  <2>3. \A n \in Names : Carried(n)' <=> Carried(n)
    BY <2>1, <2>2 DEF Carried
  <2>4. QED BY <2>1, <2>3, SameLives
<1>4. QED BY <1>1, <1>2, <1>3

\* A loop that goes on carries what was pending.
LEMMA NextJobCarries ==
  ASSUME NEW l \in Loops, pc[l] = "tail", pc'[l] = "check", UNION pending # {},
         pending' = {}, job'[l] = UNION pending, unreported' = unreported,
         pc'[Watcher] = pc[Watcher], job'[Watcher] = job[Watcher],
         \A m \in Loops \ {l} : pc[m] = "none" /\ pc'[m] = "none"
  PROVE  \A n \in Names : Carried(n)' <=> Carried(n)
<1>1. Covers(job[l])' = UNION pending
  BY DEF Covers, Full
<1>2. \A m \in Loops : pc[m] \notin BeforePass /\ (pc'[m] \in BeforePass <=> m = l)
  BY DEF BeforePass
<1>3. \A n \in Names : (\E m \in Loops : pc'[m] \in BeforePass /\ n \in Covers(job[m])')
                        <=> \E j \in pending : n \in j
  BY <1>1, <1>2
<1>4. QED BY <1>2, <1>3 DEF Carried

LEMMA LoopRefines ==
  ASSUME TypeOK, LoopInv, ChangeInv, NEW l \in Loops, LoopStep(l)
  PROVE  [Changes!Next]_[n \in Names |-> Life(n)]
<1> USE ProcessesAssumption DEF TypeOK, Processes, Callers, appVars, work, threads, history
<1>1. \A m \in Loops \ {l} : pc[m] = "none" /\ pc'[m] = "none"
  <2>1. Active(l)
    BY DEF LoopStep, Active, Check, Checked, Stop, Start, ReadClient, RunSync, SyncDone,
           SyncFails, CallFails, LoopClears, Lock, TakeNext
  <2>2. \A m \in Loops \ {l} : pc[m] = "none"
    BY <2>1 DEF LoopInv, SingleLoop, Active
  <2>3. \A m \in Processes \ {l} : pc'[m] = pc[m]
    BY DEF LoopStep, Check, Checked, Stop, Start, ReadClient, RunSync, SyncDone,
           SyncFails, CallFails, LoopClears, Lock, TakeNext, EndLoop, Goto
  <2>4. QED BY <2>2, <2>3
<1>2. pc'[Watcher] = pc[Watcher] /\ job'[Watcher] = job[Watcher]
  BY DEF LoopStep, Check, Checked, Stop, Start, ReadClient, RunSync, SyncDone,
         SyncFails, CallFails, Fails, LoopClears, Lock, TakeNext, EndLoop, Goto, ForgetJob
<1>3. pc[l] # "sync" => covering = {}
  BY <1>1 DEF ChangeInv
<1>4. CASE Check(l) \/ Checked(l) \/ Start(l) \/ Lock(l) \/ LoopClears(l)
  <2>1. /\ UNCHANGED <<unreported, owed, covering, lost, pending, job>>
        /\ pc[l] \in BeforePass <=> pc'[l] \in BeforePass
    BY <1>4
    DEF Check, Checked, Start, Lock, LoopClears, ReadClient, Goto, BeforePass
  <2>2. \A n \in Names : Carried(n)' <=> Carried(n)
    BY <1>1, <1>2, <2>1 DEF Carried
  <2>3. QED BY <2>1, <2>2, SameLives
<1>5. CASE Stop(l)
  <2>1. /\ pc[l] = "stop" /\ pc'[l] = "none"
        /\ lost' = lost \cup (Covers(job[l]) \cap owed)
        /\ UNCHANGED <<unreported, owed, covering, pending>>
    BY <1>5 DEF Stop, Goto
  <2>2. /\ \A n \in Names : Carried(n)' => Carried(n)
        /\ \A n \in owed : Carried(n) => Carried(n)' \/ n \in lost'
    BY <1>1, <1>2, <2>1 DEF Carried, BeforePass
  <2>3. QED BY <1>3, <2>1, <2>2, DroppedLives DEF Changes!Next
<1>6. CASE RunSync(l) /\ ~Connected(seen[l])
  <2>1. /\ pc[l] = "starting" /\ pc'[l] = "after"
        /\ lost' = lost \cup (Covers(job[l]) \cap owed)
        /\ UNCHANGED <<unreported, owed, covering, pending>>
    BY <1>6 DEF RunSync, Goto
  <2>2. /\ \A n \in Names : Carried(n)' => Carried(n)
        /\ \A n \in owed : Carried(n) => Carried(n)' \/ n \in lost'
    BY <1>1, <1>2, <2>1 DEF Carried, BeforePass
  <2>3. QED BY <1>3, <2>1, <2>2, DroppedLives DEF Changes!Next
<1>7. CASE RunSync(l) /\ Connected(seen[l])
  <2> DEFINE begun == owed \cap Covers(job[l])
  <2>1. /\ pc[l] = "starting" /\ pc'[l] = "sync" /\ covering' = Covers(job[l])
        /\ UNCHANGED <<job, lost, unreported, owed, pending>>
    BY <1>7 DEF RunSync, Goto
  <2>2. covering = {}
    BY <1>3, <2>1
  <2>3. begun \subseteq Changes!Are("waiting") /\ Changes!Are("syncing") = {}
    BY <2>1, <2>2 DEF Changes!Are, Life, Carried, BeforePass
  <2>4. \A n \in Names \ Covers(job[l]) : Carried(n)' <=> Carried(n)
    BY <1>1, <1>2, <2>1 DEF Carried, BeforePass
  <2>5. \A n \in Names : Life(n)' = IF n \in begun THEN "syncing" ELSE Life(n)
    BY <2>1, <2>2, <2>4 DEF Life
  <2>6. Changes!Begin(begun)
    BY <2>3, <2>5 DEF Changes!Begin, Changes!Become
  <2>7. QED BY <2>6 DEF Changes!Next
<1>8. CASE SyncDone(l)
  <2>1. /\ pc[l] = "sync" /\ pc'[l] = "after"
        /\ owed' = owed \ covering /\ lost' = lost \ covering /\ covering' = {}
        /\ UNCHANGED <<unreported, pending>>
    BY <1>8 DEF SyncDone, Goto
  <2>2. \A n \in Names : Carried(n)' <=> Carried(n)
    BY <1>1, <1>2, <2>1 DEF Carried, BeforePass
  <2>3. Changes!Finish
    BY <2>1, <2>2 DEF Changes!Finish, Changes!Become, Changes!Are, Life
  <2>4. QED BY <2>3 DEF Changes!Next
<1>9. CASE SyncFails(l) \/ CallFails(l)
  <2> DEFINE again == {n \in Names : Life(n) = "syncing" /\ Carried(n)}
  <2>1. /\ pc[l] = "sync" /\ pc'[l] \in {"after", "clear"}
        /\ lost' = lost \cup (Covers(job[l]) \cap owed) /\ covering' = {}
        /\ UNCHANGED <<unreported, owed, pending>>
    BY <1>9 DEF SyncFails, CallFails, Fails, Goto
  <2>2. \A n \in Names : Carried(n)' <=> Carried(n)
    BY <1>1, <1>2, <2>1 DEF Carried, BeforePass
  <2>3. covering \subseteq Covers(job[l])
    BY <2>1 DEF ChangeInv
  <2>4. \A n \in Names : Life(n)' = IF n \in again THEN "waiting"
                                   ELSE IF Life(n) = "syncing" THEN "given up"
                                   ELSE Life(n)
    BY <2>1, <2>2, <2>3 DEF Life, ChangeInv, NoChangeForgotten
  <2>5. again \in SUBSET Changes!Are("syncing")
    BY DEF Changes!Are
  <2>6. [n \in Names |-> Life(n)]' =
          [n \in Names |-> IF n \in again THEN "waiting"
                          ELSE IF [m \in Names |-> Life(m)][n] = "syncing" THEN "given up"
                          ELSE [m \in Names |-> Life(m)][n]]
    <3> HIDE DEF again
    <3>1. \A n \in Names : [m \in Names |-> Life(m)][n] = Life(n)
      OBVIOUS
    <3>2. QED BY <2>4, <3>1
  <2>7. QED BY <2>5, <2>6 DEF Changes!Fail, Changes!Next
<1>10. CASE TakeNext(l)
  <2>1. /\ pc[l] = "tail"
        /\ \/ pc'[l] = "check" /\ job'[l] = UNION pending /\ pending' = {}
           \/ pc'[l] = "none" /\ UNCHANGED pending
        /\ UNCHANGED <<unreported, owed, covering, lost>>
    BY <1>10 DEF TakeNext, EndLoop, Goto
  <2>2. CASE pc'[l] = "check" /\ UNION pending = {}
    BY <2>1, <2>2, RevivedLives DEF Carried, BeforePass, Covers, Full, Changes!Next
  <2>3. CASE pc'[l] = "none" \/ UNION pending # {}
    <3>1. \A n \in Names : Carried(n)' <=> Carried(n)
      <4>1. CASE pc'[l] = "none"
        BY <1>1, <1>2, <2>1, <4>1 DEF Carried, BeforePass, Covers, Full
      <4>2. CASE pc'[l] = "check" /\ UNION pending # {}
        BY <1>1, <1>2, <2>1, <4>2, NextJobCarries
      <4>3. QED BY <2>1, <2>3, <4>1, <4>2
    <3>2. QED BY <2>1, <3>1, SameLives
  <2>4. QED BY <2>1, <2>2, <2>3
<1>11. QED BY <1>4, <1>5, <1>6, <1>7, <1>8, <1>9, <1>10 DEF LoopStep

LEMMA StepRefines ==
  ASSUME TypeOK, LoopInv, ChangeInv, HandlerJobs, [Next]_vars
  PROVE  [Changes!Next]_[n \in Names |-> Life(n)]
<1> USE ProcessesAssumption DEF TypeOK, Processes, Callers, appVars, work, threads, history
<1>1. ASSUME UNCHANGED <<unreported, owed, covering, lost, pending, job>>,
             \A p \in Loops \cup {Watcher} : pc'[p] = pc[p]
      PROVE  UNCHANGED [n \in Names |-> Life(n)]
  BY <1>1, SameLives DEF Carried
<1>2. CASE UNCHANGED vars BY <1>1, <1>2 DEF vars
<1>3. ASSUME NEW n \in Names, Edit(n) PROVE Changes!Next
  BY <1>3, EditRefines DEF Changes!Next
<1>4. ASSUME Cancel \/ \E c \in Conns : GameLeaves(c) \/ Accept(c)
      PROVE  UNCHANGED [n \in Names |-> Life(n)]
  <2>1. UNCHANGED <<unreported, owed, covering, lost>>
    BY <1>4 DEF Cancel, GameLeaves, Accept
  <2>2. QED BY <1>1, <1>4, <2>1, SurroundingsFrame DEF Surroundings
<1>5. ASSUME NEW p \in Callers, Enqueue(p) \/ Decide(p)
      PROVE  [Changes!Next]_[n \in Names |-> Life(n)]
  BY <1>5, CallerRefines DEF Changes!Next
<1>6. ASSUME Flush PROVE UNCHANGED [n \in Names |-> Life(n)]
  <2>1. \A n \in Names : Carried(n)' <=> Carried(n)
    BY <1>6 DEF Flush, Goto, Carried
  <2>2. QED BY <1>6, <2>1, SameLives DEF Flush
<1>7. ASSUME NEW c \in Conns,
             setClient(c) \/ Disconnected(c) \/ ContextDone(c) \/ HandlerClears(c)
      PROVE  UNCHANGED [n \in Names |-> Life(n)]
  <2>1. /\ UNCHANGED <<unreported, owed, covering, lost, pending, job>>
        /\ \A p \in Loops \cup {Watcher} : pc'[p] = pc[p]
    BY <1>7 DEF setClient, Disconnected, ContextDone, HandlerClears, Goto
  <2>2. QED BY <1>1, <2>1
<1>8. ASSUME NEW l \in Loops, LoopStep(l) PROVE [Changes!Next]_[n \in Names |-> Life(n)]
  BY <1>8, LoopRefines
<1>9. QED BY <1>2, <1>3, <1>4, <1>5, <1>6, <1>7, <1>8, NextIsStep DEF Step, Surroundings

\* A saved change goes through the life of ChangeLife: it is with the game after a
\* pass that began after it and ran alone, or it was given up with its job.
THEOREM WorkerRefines == Spec => ImplementsChangeLife
<1>1. Init => Changes!Init
  BY DEF Init, Changes!Init, Life
<1>2. TypeOK /\ LoopInv /\ ChangeInv /\ HandlerJobs /\ [Next]_vars
        => [Changes!Next]_[n \in Names |-> Life(n)]
  BY StepRefines
<1>3. QED
  BY <1>1, <1>2, WorkerTypeCorrect, LoopInvInvariant, ChangeInvInvariant,
     HandlerJobsInvariant, PTL
  DEF Spec, ImplementsChangeLife, Changes!Spec

=============================================================================
