---------------------------- MODULE ClientProofs ----------------------------
(***************************************************************************)
(* Theorems about Client, for any number of calls and any largest id.      *)
(***************************************************************************)
EXTENDS Client, TLAPS

Locked == {"check", "write", "read", "mark", "handle"}

\* Whoever is between Lock and Unlock holds client.mu.
LockInv == \A k \in Calls : pc[k] \in Locked => mu = k

(***************************************************************************)
(* HandleInv strengthens HandledOnce: only who has marked the client runs  *)
(* the handler, and there is one such goroutine.                           *)
(***************************************************************************)
HandleInv ==
    /\ HandledOnce
    /\ connected => handled = 0 /\ handler = "serve"
    /\ handler = "handle" => handled = 0
    /\ \A k \in Calls : pc[k] = "handle" => handled = 0 /\ ~connected /\ handler # "handle"

(***************************************************************************)
(* WireInv strengthens OwnAnswer.  While the game repeats nothing there is *)
(* at most one request on the wire or one answer.  A request belongs to    *)
(* the call that reads, or, once the connection is closed, to one that has *)
(* given up; an answer belongs to the call that reads, and tells the truth.*)
(***************************************************************************)
Written == {"read", "mark", "handle", "error"}

RequestOf(k) ==
    /\ requests = <<[call |-> k, id |-> id[k]]>>
    /\ answers = <<>>
    /\ ~performed[k]
    /\ pc[k] = "read" \/ (link = "closed" /\ pc[k] \in Written)

AnswerTo(k) ==
    /\ requests = <<>>
    /\ \E body \in {"ok", "refused"} :
         /\ answers = <<[id |-> id[k], body |-> body]>>
         /\ body = "ok" => performed[k]
    /\ pc[k] = "read"

Empty == requests = <<>> /\ answers = <<>>

InTurn ==
    /\ Empty \/ \E k \in Calls : RequestOf(k) \/ AnswerTo(k)
    /\ link = "closed" => answers = <<>>
    /\ \A k \in Calls : performed[k] => pc[k] \in Written \cup {"ok"}

WireInv == repeats = 0 => InTurn

-----------------------------------------------------------------------------
\* The wrapped id is an id: never zero, never larger than MaxID.
LEMMA IncrementType == \A i \in IDs : Increment(i) \in IDs
BY CallsAssumption DEF IDs, Increment

\* What is on the wire stays a sequence of messages.
LEMMA AppendType ==
  ASSUME NEW S, NEW s \in Seq(S), NEW e \in S PROVE Append(s, e) \in Seq(S)
OBVIOUS

LEMMA TailType ==
  ASSUME NEW S, NEW s \in Seq(S), s # <<>> PROVE Head(s) \in S /\ Tail(s) \in Seq(S)
OBVIOUS

LEMMA InitTypeOK == Init => TypeOK
BY CallsAssumption DEF Init, TypeOK, IDs, Answers

LEMMA StepTypeOK == TypeOK /\ [Next]_vars => TypeOK'
<1> SUFFICES ASSUME TypeOK, [Next]_vars PROVE TypeOK'
  OBVIOUS
<1> USE CallsAssumption DEF TypeOK, client, wire, game, Goto, Return
<1>1. ASSUME NEW k \in Calls, Make(k) \/ CallStep(k) PROVE TypeOK'
  <2>1. CASE Make(k) BY <2>1 DEF Make
  <2>2. CASE Lock(k) BY <2>2 DEF Lock
  <2>3. CASE NotConnected(k) BY <2>3 DEF NotConnected
  <2>4. CASE TakeID(k) BY <2>4, IncrementType DEF TakeID
  <2>5. ASSUME Send(k), pc[k] = "write" PROVE requests' \in Seq([call : Calls, id : IDs])
    <3>1. [call |-> k, id |-> id[k]] \in [call : Calls, id : IDs] BY <2>5
    <3>2. Append(requests, [call |-> k, id |-> id[k]]) \in Seq([call : Calls, id : IDs])
      BY <3>1, AppendType
    <3>3. QED BY <2>5, <3>2 DEF Send
  <2>6. CASE Write(k) BY <2>5, <2>6 DEF Write
  <2>7. CASE WriteFails(k)
    <3>1. requests' \in Seq([call : Calls, id : IDs]) BY <2>5, <2>7 DEF WriteFails
    <3>2. QED BY <2>7, <3>1 DEF WriteFails
  <2>8. CASE Read(k)
    <3>1. answers' \in Seq(Answers) BY <2>8, TailType DEF Read
    <3>2. QED BY <2>8, <3>1 DEF Read
  <2>9. CASE ReadFails(k) BY <2>9 DEF ReadFails
  <2>10. CASE Mark(k) BY <2>10 DEF Mark
  <2>11. CASE Handle(k) BY <2>11 DEF Handle
  <2>12. QED
    BY <1>1, <2>1, <2>2, <2>3, <2>4, <2>6, <2>7, <2>8, <2>9, <2>10, <2>11 DEF CallStep
<1>2. CASE HandlerStep \/ ContextDone
  <2>1. CASE Disconnected BY <2>1 DEF Disconnected
  <2>2. CASE HandleContextDone BY <2>2 DEF HandleContextDone
  <2>3. CASE Close BY <2>3 DEF Close
  <2>4. CASE ContextDone BY <2>4 DEF ContextDone
  <2>5. QED BY <1>2, <2>1, <2>2, <2>3, <2>4 DEF HandlerStep
<1>3. CASE Answer
  <2>1. Head(requests) \in [call : Calls, id : IDs] /\ requests' \in Seq([call : Calls, id : IDs])
    BY <1>3, TailType DEF Answer
  <2>2. PICK done \in BOOLEAN, body \in {"ok", "refused"} :
          /\ performed' = [performed EXCEPT ![Head(requests).call] = done]
          /\ Deliver([id |-> Head(requests).id, body |-> body])
          /\ sent' = sent \cup {[id |-> Head(requests).id, body |-> body]}
    BY <1>3 DEF Answer
  <2>3. [id |-> Head(requests).id, body |-> body] \in Answers BY <2>1 DEF Answers
  <2>4. answers' \in Seq(Answers) BY <2>2, <2>3, AppendType DEF Deliver
  <2>5. QED BY <1>3, <2>1, <2>2, <2>3, <2>4 DEF Answer
<1>4. CASE Leave BY <1>4 DEF Leave
<1>5. ASSUME NEW m \in sent, Repeat(m) PROVE TypeOK'
  <2>1. answers' \in Seq(Answers) BY <1>5, AppendType DEF Repeat, Deliver
  <2>2. QED BY <1>5, <2>1 DEF Repeat
<1>6. CASE UNCHANGED vars BY <1>6 DEF vars
<1>7. QED BY <1>1, <1>2, <1>3, <1>4, <1>5, <1>6 DEF Next

\* Every variable of the client keeps its type; the next request id, which wraps
\* around, is never zero.
THEOREM ClientTypeCorrect == Spec => []TypeOK
BY InitTypeOK, StepTypeOK, PTL DEF Spec

-----------------------------------------------------------------------------
(* The disconnect handler. *)

LEMMA StepLockInv == TypeOK /\ LockInv /\ [Next]_vars => LockInv'
<1> SUFFICES ASSUME TypeOK, LockInv, [Next]_vars PROVE LockInv'
  OBVIOUS
<1> USE CallsAssumption DEF TypeOK, LockInv, Locked, client, wire, game, Goto, Return
<1>1. ASSUME NEW k \in Calls, Make(k) \/ CallStep(k) PROVE LockInv'
  <2>1. CASE Make(k) \/ Lock(k) BY <2>1 DEF Make, Lock, Unlocked
  <2>2. CASE NotConnected(k) \/ TakeID(k) BY <2>2 DEF NotConnected, TakeID
  <2>3. CASE Write(k) \/ WriteFails(k) BY <2>3 DEF Write, WriteFails
  <2>4. CASE Read(k) \/ ReadFails(k) BY <2>4 DEF Read, ReadFails
  <2>5. CASE Mark(k) \/ Handle(k) BY <2>5 DEF Mark, Handle
  <2>6. QED BY <1>1, <2>1, <2>2, <2>3, <2>4, <2>5 DEF CallStep
<1>2. CASE HandlerStep \/ ContextDone
  BY <1>2 DEF HandlerStep, Disconnected, HandleContextDone, Close, ContextDone
<1>3. CASE Answer \/ Leave BY <1>3 DEF Answer, Leave
<1>4. ASSUME NEW m \in sent, Repeat(m) PROVE LockInv' BY <1>4 DEF Repeat
<1>5. CASE UNCHANGED vars BY <1>5 DEF vars
<1>6. QED BY <1>1, <1>2, <1>3, <1>4, <1>5 DEF Next

LEMMA StepHandleInv == TypeOK /\ LockInv /\ HandleInv /\ [Next]_vars => HandleInv'
<1> SUFFICES ASSUME TypeOK, LockInv, HandleInv, [Next]_vars PROVE HandleInv'
  OBVIOUS
<1> USE DEF TypeOK, LockInv, Locked, HandleInv, HandledOnce, client, wire, game, Goto, Return
<1>1. ASSUME NEW k \in Calls, Make(k) \/ CallStep(k) PROVE HandleInv'
  <2>1. CASE Make(k) \/ Lock(k) BY <2>1 DEF Make, Lock
  <2>2. CASE NotConnected(k) \/ TakeID(k) BY <2>2 DEF NotConnected, TakeID
  <2>3. CASE Write(k) \/ WriteFails(k) BY <2>3 DEF Write, WriteFails
  <2>4. CASE Read(k) \/ ReadFails(k) BY <2>4 DEF Read, ReadFails
  <2>5. CASE Mark(k) BY <2>5 DEF Mark, First
  <2>6. CASE Handle(k) BY <2>6 DEF Handle
  <2>7. QED BY <1>1, <2>1, <2>2, <2>3, <2>4, <2>5, <2>6 DEF CallStep
<1>2. CASE HandlerStep \/ ContextDone
  <2>1. CASE Disconnected BY <2>1 DEF Disconnected
  <2>2. CASE HandleContextDone BY <2>2 DEF HandleContextDone
  <2>3. CASE Close BY <2>3 DEF Close
  <2>4. CASE ContextDone BY <2>4 DEF ContextDone, First
  <2>5. QED BY <1>2, <2>1, <2>2, <2>3, <2>4 DEF HandlerStep
<1>3. CASE Answer \/ Leave BY <1>3 DEF Answer, Leave
<1>4. ASSUME NEW m \in sent, Repeat(m) PROVE HandleInv' BY <1>4 DEF Repeat
<1>5. CASE UNCHANGED vars BY <1>5 DEF vars
<1>6. QED BY <1>1, <1>2, <1>3, <1>4, <1>5 DEF Next

LEMMA LockInvInvariant == Spec => []LockInv
<1>1. Init => LockInv BY DEF Init, LockInv, Locked
<1>2. QED BY <1>1, ClientTypeCorrect, StepLockInv, PTL DEF Spec

\* The disconnect handler runs at most once, whoever notices the end, so that the
\* channel is closed once and app.client is cleared once.
THEOREM HandlerRunsOnce == Spec => []HandledOnce
<1>1. Init => HandleInv BY DEF Init, HandleInv, HandledOnce
<1>2. Spec => []HandleInv
  BY <1>1, ClientTypeCorrect, LockInvInvariant, StepHandleInv, PTL DEF Spec
<1>3. HandleInv => HandledOnce BY DEF HandleInv
<1>4. QED BY <1>2, <1>3, PTL

-----------------------------------------------------------------------------
(* The wire. *)

\* A call that reads is the only one between Lock and Unlock.
LEMMA OneReader ==
  ASSUME LockInv, NEW j \in Calls, NEW k \in Calls, pc[j] = "read", pc[k] \in Locked
  PROVE  j = k
BY DEF LockInv, Locked

\* While a call is at a place other than read, the wire is empty or closed.
LEMMA NothingInFlight ==
  ASSUME LockInv, InTurn, link # "closed",
         NEW k \in Calls, pc[k] \in Locked \ {"read"}
  PROVE  Empty
BY OneReader DEF InTurn, RequestOf, AnswerTo, Empty, Locked

LEMMA QuietCallInTurn ==
  ASSUME TypeOK, LockInv, InTurn, NEW k \in Calls,
         Make(k) \/ Lock(k) \/ NotConnected(k) \/ TakeID(k) \/ Mark(k) \/ Handle(k)
  PROVE  InTurn'
<1> USE DEF InTurn, Empty, RequestOf, AnswerTo, Written, TypeOK, client, wire, game, Goto, Return
<1>1. CASE Make(k) BY <1>1 DEF Make
<1>2. CASE Lock(k) BY <1>2 DEF Lock
<1>3. CASE NotConnected(k) BY <1>3 DEF NotConnected
<1>4. CASE TakeID(k) BY <1>4 DEF TakeID
<1>5. CASE Mark(k) BY <1>5 DEF Mark
<1>6. CASE Handle(k) BY <1>6 DEF Handle
<1>7. QED BY <1>1, <1>2, <1>3, <1>4, <1>5, <1>6

LEMMA WriteInTurn ==
  ASSUME TypeOK, LockInv, InTurn, NEW k \in Calls, Write(k) \/ WriteFails(k)
  PROVE  InTurn'
<1> USE DEF TypeOK, client, wire, game, Goto
<1>1. ~performed[k] /\ pc[k] = "write" /\ pc' = [pc EXCEPT ![k] = pc'[k]]
      /\ pc'[k] \in {"read", "mark"}
  BY DEF Write, WriteFails, InTurn, Written
<1>2. (link' = "closed" => answers' = <<>>)
      /\ \A j \in Calls : performed'[j] => pc'[j] \in Written \cup {"ok"}
  BY <1>1 DEF Write, WriteFails, InTurn, Written
<1>3. ASSUME link # "closed"
      PROVE  Empty' \/ RequestOf(k)'
  <2>1. Empty BY <1>1, <1>3, NothingInFlight DEF Locked
  <2>2. requests' \in {<<>>, <<[call |-> k, id |-> id[k]]>>}
    BY <2>1 DEF Write, WriteFails, Send, Empty
  <2>3. answers' = <<>> /\ id' = id /\ performed' = performed
    BY <2>1 DEF Write, WriteFails, Empty
  <2>4. pc'[k] = "read" \/ (link' = "closed" /\ pc'[k] = "mark")
    BY DEF Write, WriteFails
  <2>5. QED BY <1>1, <2>2, <2>3, <2>4 DEF Empty, RequestOf, Written
<1>4. ASSUME link = "closed"
      PROVE  Empty' \/ \E j \in Calls : RequestOf(j)'
  <2>1. WriteFails(k) /\ requests' = requests /\ link' = "closed" /\ answers' = <<>>
    BY <1>4 DEF Write, WriteFails, Send
  <2>2. id' = id /\ performed' = performed BY <2>1 DEF WriteFails
  <2>3. CASE requests = <<>> BY <2>1, <2>3 DEF Empty
  <2>4. CASE requests # <<>>
    <3>1. PICK j \in Calls : RequestOf(j)
      BY <1>4, <2>4 DEF InTurn, Empty, AnswerTo
    <3>2. j # k BY <1>1, <3>1 DEF RequestOf, Written
    <3>3. RequestOf(j)' BY <1>1, <2>1, <2>2, <3>1, <3>2, <1>4 DEF RequestOf
    <3>4. QED BY <3>3
  <2>5. QED BY <2>3, <2>4
<1>5. QED BY <1>1, <1>2, <1>3, <1>4 DEF InTurn

LEMMA ReadInTurn ==
  ASSUME TypeOK, LockInv, InTurn, NEW k \in Calls, Read(k) \/ ReadFails(k)
  PROVE  InTurn'
<1> USE DEF TypeOK, client, wire, game, Goto, Return, Written
<1>1. CASE Read(k)
  <2>1. Empty'
    <3>1. PICK j \in Calls : AnswerTo(j)
      BY <1>1 DEF Read, InTurn, Empty, RequestOf
    <3>2. QED BY <1>1, <3>1 DEF Read, AnswerTo, Empty
  <2>2. \A j \in Calls : performed'[j] => pc'[j] \in Written \cup {"ok"}
    BY <1>1 DEF Read, InTurn
  <2>3. link' = "closed" => answers' = <<>>
    BY <1>1 DEF Read, InTurn
  <2>4. QED BY <1>1, <2>1, <2>2, <2>3 DEF Read, InTurn
<1>2. CASE ReadFails(k)
  <2>1. \A j \in Calls : performed'[j] => pc'[j] \in Written \cup {"ok"}
    BY <1>2 DEF ReadFails, InTurn
  <2>2. Empty' \/ \E j \in Calls : RequestOf(j)'
    <3>1. CASE requests = <<>> BY <1>2, <3>1 DEF ReadFails, Empty
    <3>2. CASE requests # <<>>
      <4>1. PICK j \in Calls : RequestOf(j)
        BY <3>2 DEF InTurn, Empty, AnswerTo
      <4>2. pc'[j] \in Written BY <1>2, <4>1 DEF ReadFails, RequestOf
      <4>3. RequestOf(j)' BY <1>2, <4>1, <4>2 DEF ReadFails, RequestOf
      <4>4. QED BY <4>3
    <3>3. QED BY <3>1, <3>2
  <2>3. QED BY <1>2, <2>1, <2>2 DEF ReadFails, InTurn
<1>3. QED BY <1>1, <1>2

LEMMA AnswerInTurn ==
  ASSUME TypeOK, InTurn, Answer PROVE InTurn'
<1> USE DEF TypeOK, client, wire, game, Written
<1>1. PICK done \in BOOLEAN, body \in {"ok", "refused"} :
        /\ body = "ok" => done
        /\ performed' = [performed EXCEPT ![Head(requests).call] = done]
        /\ Deliver([id |-> Head(requests).id, body |-> body])
  BY DEF Answer
<1>2. link' = link /\ pc' = pc /\ id' = id /\ requests' = Tail(requests) BY DEF Answer
<1>3. PICK k \in Calls : RequestOf(k) BY DEF InTurn, Empty, AnswerTo, Answer
<1>4. Head(requests) = [call |-> k, id |-> id[k]] /\ requests' = <<>>
  BY <1>2, <1>3 DEF RequestOf
<1>5. performed' = [performed EXCEPT ![k] = done] /\ Deliver([id |-> id[k], body |-> body])
  <2>1. Head(requests).call = k /\ Head(requests).id = id[k] BY <1>4
  <2>2. QED BY <1>1, <2>1
<1>6. pc[k] \in Written BY <1>3 DEF RequestOf
<1>7. CASE link = "up"
  <2>1. answers' = <<[id |-> id[k], body |-> body]>> /\ pc[k] = "read"
    BY <1>3, <1>5, <1>7 DEF Deliver, RequestOf
  <2>2. AnswerTo(k)' BY <1>1, <1>2, <1>4, <1>5, <2>1 DEF AnswerTo
  <2>3. QED BY <1>2, <1>5, <1>6, <1>7, <2>2 DEF InTurn
<1>8. CASE link # "up"
  <2>1. answers' = <<>> BY <1>3, <1>5, <1>8 DEF Deliver, RequestOf
  <2>2. QED BY <1>2, <1>4, <1>5, <1>6, <2>1 DEF InTurn, Empty
<1>9. QED BY <1>7, <1>8

LEMMA SideInTurn ==
  ASSUME TypeOK, InTurn, HandlerStep \/ ContextDone \/ Leave PROVE InTurn'
<1> USE DEF TypeOK, InTurn, Empty, RequestOf, AnswerTo, client, wire, game, Written
<1>1. CASE Disconnected \/ ContextDone BY <1>1 DEF Disconnected, ContextDone
<1>2. CASE HandleContextDone BY <1>2 DEF HandleContextDone
<1>3. CASE Close BY <1>3 DEF Close
<1>4. CASE Leave BY <1>4 DEF Leave
<1>5. QED BY <1>1, <1>2, <1>3, <1>4 DEF HandlerStep

LEMMA StepWireInv == TypeOK /\ LockInv /\ WireInv /\ [Next]_vars => WireInv'
<1> SUFFICES ASSUME TypeOK, LockInv, WireInv, [Next]_vars, repeats' = 0 PROVE InTurn'
  BY DEF WireInv
<1>1. ASSUME NEW m \in sent, Repeat(m) PROVE FALSE BY <1>1, CallsAssumption DEF Repeat, TypeOK
<1>2. CASE UNCHANGED vars
  BY <1>2 DEF WireInv, InTurn, Empty, RequestOf, AnswerTo, vars, wire, game
<1>3. ASSUME NEW k \in Calls, Make(k) \/ CallStep(k) PROVE InTurn'
  <2>1. repeats = 0
    BY <1>3 DEF CallStep, Make, Lock, NotConnected, TakeID, Write, WriteFails, Read,
                ReadFails, Mark, Handle, game
  <2>2. QED
    BY <1>3, <2>1, QuietCallInTurn, WriteInTurn, ReadInTurn DEF WireInv, CallStep
<1>4. CASE Answer \/ Leave \/ HandlerStep \/ ContextDone
  <2>1. repeats = 0
    BY <1>4 DEF Answer, Leave, HandlerStep, Disconnected, HandleContextDone, Close,
                ContextDone, game
  <2>2. QED BY <1>4, <2>1, AnswerInTurn, SideInTurn DEF WireInv
<1>5. QED BY <1>1, <1>2, <1>3, <1>4 DEF Next

LEMMA WireInvInvariant == Spec => []WireInv
<1>1. Init => WireInv BY DEF Init, WireInv, InTurn, Empty
<1>2. QED BY <1>1, ClientTypeCorrect, LockInvInvariant, StepWireInv, PTL DEF Spec

\* As long as the game repeats nothing, whatever fails, times out or is refused,
\* the message a call reads is its own answer, even when ids wrap around.
THEOREM AnswersAreOwn == Spec => []OwnAnswer
<1>1. LockInv /\ WireInv => OwnAnswer
  <2> SUFFICES ASSUME LockInv, InTurn, NEW k \in Calls, pc[k] = "read", answers # <<>>
               PROVE  Head(answers).id = id[k]
    BY DEF WireInv, OwnAnswer
  <2>1. PICK j \in Calls : AnswerTo(j) BY DEF InTurn, Empty, RequestOf
  <2>2. j = k BY <2>1, OneReader DEF AnswerTo, Locked
  <2>3. QED BY <2>1, <2>2 DEF AnswerTo
<1>2. QED BY <1>1, LockInvInvariant, WireInvInvariant, PTL

-----------------------------------------------------------------------------
(* Refinement: each step of Client is a step of RemoteCalls, or none. *)

\* How the place of a call maps to the stage of the abstract call.
LEMMA StageOf ==
  ASSUME TypeOK, NEW k \in Calls, NEW label, pc' = [pc EXCEPT ![k] = label]
  PROVE  call' = [call EXCEPT ![k] = Stage(label)]
BY DEF call, TypeOK

LEMMA InitRefines == Init => Abstract!Init
BY DEF Init, Abstract!Init, call, Stage

LEMMA CallStepRefines ==
  ASSUME TypeOK, LockInv, InTurn, NEW k \in Calls, Make(k) \/ CallStep(k)
  PROVE  Abstract!Make(k) \/ Abstract!Succeed(k) \/ Abstract!Fail(k) \/ UNCHANGED <<call, performed>>
<1>1. call \in [Calls -> {"new", "open", "ok", "error"}] /\ call[k] = Stage(pc[k])
  BY DEF call, Stage, TypeOK
<1>2. performed' = performed
  BY DEF CallStep, Make, Lock, NotConnected, TakeID, Write, WriteFails, Read, ReadFails,
         Mark, Handle, game
<1>3. PICK label : pc' = [pc EXCEPT ![k] = label]
  BY DEF CallStep, Make, Lock, NotConnected, TakeID, Write, WriteFails, Read, ReadFails,
         Mark, Handle, Goto, Return
<1>4. pc'[k] = label /\ call' = [call EXCEPT ![k] = Stage(label)]
  BY <1>3, StageOf DEF TypeOK
<1>5. CASE Make(k)
  <2>1. label = "lock" BY <1>4, <1>5 DEF Make, Goto, TypeOK
  <2>2. QED BY <1>1, <1>2, <1>4, <1>5, <2>1 DEF Make, Stage, Abstract!Make
<1>6. CASE Lock(k) \/ TakeID(k) \/ Write(k) \/ WriteFails(k) \/ ReadFails(k)
  <2>1. label \in {"check", "write", "read", "mark"}
        /\ pc[k] \in {"lock", "check", "write", "read"}
    BY <1>4, <1>6 DEF Lock, TakeID, Write, WriteFails, ReadFails, Goto, TypeOK
  <2>2. QED BY <1>1, <1>2, <1>4, <2>1 DEF Stage
<1>7. CASE Mark(k)
  <2>1. label \in {"handle", "error"} /\ pc[k] = "mark"
    BY <1>4, <1>7 DEF Mark, Goto, Return, TypeOK
  <2>2. QED BY <1>1, <1>2, <1>4, <2>1 DEF Stage, Abstract!Fail
<1>8. CASE NotConnected(k) \/ Handle(k)
  <2>1. label = "error" /\ pc[k] \in {"check", "handle"}
    BY <1>4, <1>8 DEF NotConnected, Handle, Goto, Return, TypeOK
  <2>2. QED BY <1>1, <1>2, <1>4, <2>1 DEF Stage, Abstract!Fail
<1>9. CASE Read(k)
  <2>1. PICK j \in Calls : AnswerTo(j)
    BY <1>9 DEF Read, InTurn, Empty, RequestOf
  <2>2. j = k BY <1>9, <2>1, OneReader DEF Read, AnswerTo, Locked
  <2>3. Validates(k, Head(answers)) => performed[k] BY <2>1, <2>2 DEF AnswerTo, Validates
  <2>4. label = (IF Validates(k, Head(answers)) THEN "ok" ELSE "error") /\ pc[k] = "read"
    BY <1>4, <1>9 DEF Read, Goto, Return, TypeOK
  <2>5. QED BY <1>1, <1>2, <1>4, <2>3, <2>4 DEF Stage, Abstract!Succeed, Abstract!Fail
<1>10. QED BY <1>5, <1>6, <1>7, <1>8, <1>9 DEF CallStep

LEMMA AnswerRefines ==
  ASSUME TypeOK, InTurn, Answer
  PROVE  (\E k \in Calls : Abstract!Perform(k)) \/ UNCHANGED <<call, performed>>
<1>1. PICK k \in Calls : RequestOf(k) BY DEF InTurn, Empty, AnswerTo, Answer
<1>2. Head(requests).call = k BY <1>1 DEF RequestOf
<1>3. PICK done \in BOOLEAN : performed' = [performed EXCEPT ![k] = done]
  BY <1>2 DEF Answer
<1>4. call' = call BY DEF Answer, call
<1>5. call[k] \in {"open", "error"} /\ ~performed[k]
  BY <1>1 DEF call, Stage, RequestOf, Written
<1>6. CASE done = TRUE BY <1>3, <1>4, <1>5, <1>6 DEF Abstract!Perform
<1>7. CASE done = FALSE BY <1>3, <1>4, <1>5, <1>7 DEF TypeOK
<1>8. QED BY <1>6, <1>7

LEMMA StepRefines ==
  ASSUME TypeOK, LockInv, InTurn, [Next]_vars
  PROVE  [Abstract!Next]_(Abstract!vars)
<1> USE DEF Abstract!vars, Abstract!Next
<1>1. ASSUME NEW k \in Calls, Make(k) \/ CallStep(k) PROVE [Abstract!Next]_(Abstract!vars)
  BY <1>1, CallStepRefines
<1>2. CASE Answer BY <1>2, AnswerRefines
<1>3. CASE HandlerStep \/ ContextDone \/ Leave \/ UNCHANGED vars
  BY <1>3 DEF HandlerStep, Disconnected, HandleContextDone, Close, ContextDone, Leave,
              vars, client, game, call
<1>4. ASSUME NEW m \in sent, Repeat(m) PROVE UNCHANGED <<call, performed>>
  BY <1>4 DEF Repeat, call
<1>5. QED BY <1>1, <1>2, <1>3, <1>4 DEF Next

\* A pass may take the success of a call at its word, and must take a failure for
\* either: requestRaw, with its ids, its two mutexes and MarkDisconnected, keeps the
\* promise of RemoteCalls with a game that answers each request once.
THEOREM ClientRefines == ASSUME MaxRepeats = 0 PROVE Spec => ImplementsRemoteCalls
<1>1. TypeOK /\ WireInv => InTurn BY MaxRepeats = 0 DEF TypeOK, WireInv
<1>2. TypeOK /\ LockInv /\ WireInv /\ [Next]_vars => [Abstract!Next]_(Abstract!vars)
  BY <1>1, StepRefines
<1>3. QED
  BY <1>2, InitRefines, ClientTypeCorrect, LockInvInvariant, WireInvInvariant, PTL
     DEF Spec, ImplementsRemoteCalls, Abstract!Spec

\* What Syncer takes for granted of a call that returned no error: the game did it.
THEOREM SuccessIsTrue == ASSUME MaxRepeats = 0 PROVE Spec => []Abstract!SuccessIsPerformed
<1> USE DEF Abstract!SuccessIsPerformed
<1>1. Init => Abstract!SuccessIsPerformed BY DEF Init, call, Stage
<1>2. ASSUME TypeOK, Abstract!SuccessIsPerformed, [Abstract!Next]_(Abstract!vars)
      PROVE  Abstract!SuccessIsPerformed'
  <2>1. call \in [Calls -> {"new", "open", "ok", "error"}] /\ performed \in [Calls -> BOOLEAN]
    <3>1. \A k \in Calls : Stage(pc[k]) \in {"new", "open", "ok", "error"} BY DEF Stage
    <3>2. QED BY <1>2, <3>1 DEF TypeOK, call
  <2>2. ASSUME NEW k \in Calls, Abstract!Make(k) \/ Abstract!Fail(k) \/ Abstract!Succeed(k)
        PROVE  Abstract!SuccessIsPerformed'
    BY <1>2, <2>1, <2>2 DEF Abstract!Make, Abstract!Fail, Abstract!Succeed
  <2>3. ASSUME NEW k \in Calls, Abstract!Perform(k) PROVE Abstract!SuccessIsPerformed'
    BY <1>2, <2>1, <2>3 DEF Abstract!Perform
  <2>4. CASE UNCHANGED <<call, performed>> BY <1>2, <2>4
  <2>5. QED BY <1>2, <2>2, <2>3, <2>4 DEF Abstract!Next, Abstract!vars
<1>3. QED
  BY <1>1, <1>2, ClientTypeCorrect, ClientRefines, PTL
     DEF Spec, ImplementsRemoteCalls, Abstract!Spec
=============================================================================
