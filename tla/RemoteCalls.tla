---------------------------- MODULE RemoteCalls -----------------------------
(***************************************************************************)
(* What a sync pass may rely on when it calls the game (syncer.RemoteAPI): *)
(* a call that succeeds has taken effect, a call that fails may have, or   *)
(* may do so later.  PushFile, PushFileFails and their kin in Syncer are   *)
(* the steps below; Client implements this.                                *)
(***************************************************************************)
CONSTANT Calls           \* every call is made once

VARIABLES
    call,                \* "new", "open" (made), then "ok" or "error" (returned)
    performed            \* the game did what the call asks for

vars == <<call, performed>>

Init ==
    /\ call = [k \in Calls |-> "new"]
    /\ performed = [k \in Calls |-> FALSE]

Make(k) ==
    /\ call[k] = "new"
    /\ call' = [call EXCEPT ![k] = "open"]
    /\ UNCHANGED performed

\* At most once, and never before the call or after its success was told.
Perform(k) ==
    /\ call[k] \in {"open", "error"}
    /\ ~performed[k]
    /\ performed' = [performed EXCEPT ![k] = TRUE]
    /\ UNCHANGED call

Succeed(k) ==
    /\ call[k] = "open"
    /\ performed[k]
    /\ call' = [call EXCEPT ![k] = "ok"]
    /\ UNCHANGED performed

Fail(k) ==
    /\ call[k] = "open"
    /\ call' = [call EXCEPT ![k] = "error"]
    /\ UNCHANGED performed

Next == \E k \in Calls : Make(k) \/ Perform(k) \/ Succeed(k) \/ Fail(k)

Spec == Init /\ [][Next]_vars

\* What Syncer!PushFile and Syncer!DeleteFile take for granted.
SuccessIsPerformed == \A k \in Calls : call[k] = "ok" => performed[k]

=============================================================================
