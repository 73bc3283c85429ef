------------------------------- MODULE Client -------------------------------
(***************************************************************************)
(* internal/bitburner: one websocket connection and the JSON-RPC calls     *)
(* made on it.                                                             *)
(*                                                                         *)
(* A call writes its request and reads one message, under client.mu.  The  *)
(* connection's handler (handleWebSocket) and every call that fails may    *)
(* mark the client disconnected.  The game answers requests one after the  *)
(* other; it may repeat an answer, and it may go away at any time.         *)
(***************************************************************************)
EXTENDS Naturals, Sequences, FiniteSets

CONSTANTS
    Calls,       \* calls, each made once
    MaxID,       \* the largest request id (2^64 - 1 in the code)
    MaxRepeats,  \* bound: how many answers the game repeats
    Nobody       \* client.mu is free

ASSUME CallsAssumption ==
    /\ Nobody \notin Calls
    /\ MaxID \in Nat \ {0}
    /\ MaxRepeats \in Nat

VARIABLES
    mu,          \* who holds client.mu
    nextID,      \* client.nextID
    connected,   \* client.connected
    handled,     \* how often the disconnect handler was run
    pc,          \* where each call is in requestRaw
    id,          \* the request id of each call, or 0
    handler,     \* where the connection's handler is
    link,        \* "up", "down" (the game is gone) or "closed" (by this side)
    requests,    \* written, not yet taken by the game
    answers,     \* sent by the game, not yet read
    sent,        \* every answer the game has given
    repeats,     \* how many it repeated
    performed    \* the game did what the call asks for

client == <<mu, nextID, connected, handled>>
wire   == <<link, requests, answers>>
game   == <<sent, repeats, performed>>
vars   == <<client, pc, id, handler, wire, game>>

IDs == 1..MaxID
\* "OK" (or metadata that decodes) against an error, or a message that is malformed.
Answers == [id : IDs, body : {"ok", "refused"}]

TypeOK ==
    /\ mu \in Calls \cup {Nobody}
    /\ nextID \in IDs
    /\ connected \in BOOLEAN
    /\ handled \in Nat
    /\ pc \in [Calls -> {"new", "lock", "check", "write", "read", "mark", "handle", "ok", "error"}]
    /\ id \in [Calls -> IDs \cup {0}]
    /\ \A k \in Calls : pc[k] = "write" => id[k] \in IDs
    /\ handler \in {"serve", "handle", "close", "done"}
    /\ link \in {"up", "down", "closed"}
    /\ requests \in Seq([call : Calls, id : IDs])
    /\ answers \in Seq(Answers)
    /\ sent \subseteq Answers
    /\ repeats \in 0..MaxRepeats
    /\ performed \in [Calls -> BOOLEAN]

\* newClient, after the upgrade.
Init ==
    /\ mu = Nobody
    /\ nextID = 1
    /\ connected = TRUE
    /\ handled = 0
    /\ pc = [k \in Calls |-> "new"]
    /\ id = [k \in Calls |-> 0]
    /\ handler = "serve"
    /\ link = "up"
    /\ requests = <<>>
    /\ answers = <<>>
    /\ sent = {}
    /\ repeats = 0
    /\ performed = [k \in Calls |-> FALSE]

Goto(k, label) == pc' = [pc EXCEPT ![k] = label]

-----------------------------------------------------------------------------
(* requestRaw. *)

Make(k) ==
    /\ pc[k] = "new"
    /\ Goto(k, "lock")
    /\ UNCHANGED <<client, id, handler, wire, game>>

Free == TRUE                                                              \* mutant
Unlocked == mu = Nobody

Lock(k) ==
    /\ pc[k] = "lock"
    /\ Unlocked
    /\ mu' = k
    /\ Goto(k, "check")
    /\ UNCHANGED <<nextID, connected, handled, id, handler, wire, game>>

ReturnLocked(k, result) == Goto(k, result) /\ UNCHANGED mu                \* mutant
\* The call returns, and the deferred Unlock runs.
Return(k, result) == Goto(k, result) /\ mu' = Nobody

NotConnected(k) ==
    /\ pc[k] = "check"
    /\ ~connected
    /\ Return(k, "error")
    /\ UNCHANGED <<nextID, connected, handled, id, handler, wire, game>>

IncrementOnly(i) == (i + 1) % (MaxID + 1)                                 \* mutant
\* The next id; it wraps around, and zero is skipped.
Increment(i) == IF i = MaxID THEN 1 ELSE i + 1

TakeID(k) ==
    /\ pc[k] = "check"
    /\ connected
    /\ id' = [id EXCEPT ![k] = nextID]
    /\ nextID' = Increment(nextID)
    /\ Goto(k, "write")
    /\ UNCHANGED <<mu, connected, handled, handler, wire, game>>

Send(k) ==
    requests' = IF link = "up" THEN Append(requests, [call |-> k, id |-> id[k]]) ELSE requests

\* A write to a peer that is gone may succeed; nobody gets it.
Write(k) ==
    /\ pc[k] = "write"
    /\ link # "closed"
    /\ Send(k)
    /\ Goto(k, "read")
    /\ UNCHANGED <<client, id, handler, link, answers, game>>

\* An error, a timeout, or the connection is closed; the request may have gone out.
WriteFails(k) ==
    /\ pc[k] = "write"
    /\ Send(k) \/ UNCHANGED requests
    /\ link' = "closed"
    /\ answers' = <<>>
    /\ Goto(k, "mark")
    /\ UNCHANGED <<client, id, handler, game>>

AnyAnswer(k, m) == m.body = "ok"                                          \* mutant
\* ValidateResponse and RequireOK.
Validates(k, m) == m.id = id[k] /\ m.body = "ok"

\* One message is read, and the connection stays whatever it says.
Read(k) ==
    /\ pc[k] = "read"
    /\ answers # <<>>
    /\ answers' = Tail(answers)
    /\ Return(k, IF Validates(k, Head(answers)) THEN "ok" ELSE "error")
    /\ UNCHANGED <<nextID, connected, handled, id, handler, link, requests, game>>

\* The read fails or times out, which closes the connection.
ReadFails(k) ==
    /\ pc[k] = "read"
    /\ link' = "closed"
    /\ answers' = <<>>
    /\ Goto(k, "mark")
    /\ UNCHANGED <<client, id, handler, requests, game>>

FirstAlways == TRUE                                                       \* mutant
\* MarkDisconnected does nothing for a client that is marked already.
First == connected

MarkSilently(k) ==                                                        \* mutant
    /\ pc[k] = "mark"
    /\ connected' = FALSE
    /\ Return(k, "error")
    /\ UNCHANGED <<nextID, handled, id, handler, wire, game>>
Mark(k) ==
    /\ pc[k] = "mark"
    /\ IF First
       THEN connected' = FALSE /\ Goto(k, "handle") /\ UNCHANGED mu
       ELSE Return(k, "error") /\ UNCHANGED connected
    /\ UNCHANGED <<nextID, handled, id, handler, wire, game>>

\* onDisconnect, before the call returns.
Handle(k) ==
    /\ pc[k] = "handle"
    /\ handled' = handled + 1
    /\ Return(k, "error")
    /\ UNCHANGED <<nextID, connected, id, handler, wire, game>>

-----------------------------------------------------------------------------
(* The handler of the connection. *)

Disconnected ==
    /\ handler = "serve"
    /\ ~connected
    /\ handler' = "close"
    /\ UNCHANGED <<client, pc, id, wire, game>>

\* A context is done: MarkDisconnected, and its handler.
ContextDone ==
    /\ handler = "serve"
    /\ IF First
       THEN connected' = FALSE /\ handler' = "handle"
       ELSE handler' = "close" /\ UNCHANGED connected
    /\ UNCHANGED <<mu, nextID, handled, pc, id, wire, game>>

HandleContextDone ==
    /\ handler = "handle"
    /\ handled' = handled + 1
    /\ handler' = "close"
    /\ UNCHANGED <<mu, nextID, connected, pc, id, wire, game>>

\* The deferred Close.
Close ==
    /\ handler = "close"
    /\ link' = "closed"
    /\ answers' = <<>>
    /\ handler' = "done"
    /\ UNCHANGED <<client, pc, id, requests, game>>

-----------------------------------------------------------------------------
(* The game. *)

Deliver(m) == answers' = IF link = "up" THEN Append(answers, m) ELSE answers

\* It takes a request, does it or not, and answers; OK only for what it did.
Answer ==
    /\ requests # <<>>
    /\ requests' = Tail(requests)
    /\ LET r == Head(requests)
       IN  \E done \in BOOLEAN, body \in {"ok", "refused"} :
             LET m == [id |-> r.id, body |-> body]
             IN  /\ body = "ok" => done
                 /\ performed' = [performed EXCEPT ![r.call] = done]
                 /\ Deliver(m)
                 /\ sent' = sent \cup {m}
    /\ UNCHANGED <<client, pc, id, handler, link, repeats>>

Repeat(m) ==
    /\ repeats < MaxRepeats
    /\ link = "up"
    /\ repeats' = repeats + 1
    /\ Deliver(m)
    /\ UNCHANGED <<client, pc, id, handler, link, requests, sent, performed>>

\* It goes away, with what it had not taken.
Leave ==
    /\ link = "up"
    /\ link' = "down"
    /\ requests' = <<>>
    /\ UNCHANGED <<client, pc, id, handler, answers, game>>

-----------------------------------------------------------------------------
CallStep(k) ==
    \/ Lock(k) \/ NotConnected(k) \/ TakeID(k) \/ Write(k) \/ WriteFails(k)
    \/ Read(k) \/ ReadFails(k) \/ Mark(k) \/ Handle(k)

HandlerStep == Disconnected \/ HandleContextDone \/ Close

Next ==
    \/ \E k \in Calls : Make(k) \/ CallStep(k)
    \/ HandlerStep \/ ContextDone
    \/ Answer \/ Leave \/ \E m \in sent : Repeat(m)

Spec == Init /\ [][Next]_vars

\* Each goroutine runs when it can; a read or write ends within RequestTimeout.
FairSpec ==
    /\ Spec
    /\ \A k \in Calls : WF_vars(CallStep(k))
    /\ WF_vars(HandlerStep)

-----------------------------------------------------------------------------
(* Properties. *)

Stage(label) == IF label \in {"new", "ok", "error"} THEN label ELSE "open"
call == [k \in Calls |-> Stage(pc[k])]

Abstract == INSTANCE RemoteCalls WITH Calls <- Calls, call <- call, performed <- performed

\* A pass may take success at its word: it is told only to the call whose request
\* the game performed, once, whatever is late, repeated, refused or lost.
ImplementsRemoteCalls == Abstract!Spec

\* As long as the game repeats nothing, the message a call finds is its own
\* answer: no path through requestRaw leaves an answer for a later call to read.
OwnAnswer ==
    \A k \in Calls :
        (repeats = 0 /\ pc[k] = "read" /\ answers # <<>>) => Head(answers).id = id[k]

\* The disconnect handler clears app.client: it runs at most once, though a call
\* and the connection's handler may both notice the end; a second close of the
\* channel would panic.
HandledOnce == handled <= 1

\* And it has run for a client that was marked, once nobody is about to run it.
HandledInTheEnd == ~connected ~> handled = 1

\* A call returns: an answer, an error or the timeout.
CallReturns == \A k \in Calls : pc[k] = "lock" ~> pc[k] \in {"ok", "error"}

=============================================================================
