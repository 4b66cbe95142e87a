------------------------------ MODULE HmacSpec ------------------------------
(***************************************************************************)
(* What an HMAC-SHA512 state promises: finalize returns HMAC(K, m) of      *)
(* RFC 2104 for the key of init and the concatenation m of every update   *)
(* payload since init or the last reset; update and finalize after        *)
(* finalize fail and change nothing; reset starts a new message under the  *)
(* same key, whatever state it is called in ("reset equals a fresh        *)
(* init").  No hashers, no pads: the message is kept whole.                *)
(***************************************************************************)
EXTENDS HmacSha512

CONSTANTS
    Keys,     \* SecretKey values
    Chunks    \* the byte strings one update call may pass

VARIABLES
    key,        \* the key of init
    msg,        \* the bytes supplied since init or the last reset
    finalized,
    ret,        \* what the last call returned
    dropped     \* the state has been destroyed

vars == <<key, msg, finalized, ret, dropped>>

Ok == [kind |-> "ok"]
Err == [kind |-> "finalized_err"]
TagRet(t) == [kind |-> "tag", tag |-> t]

Init ==
    /\ key \in Keys
    /\ msg = <<>>
    /\ finalized = FALSE
    /\ ret = Ok
    /\ dropped = FALSE

Update(data) ==
    /\ ~dropped /\ ~finalized
    /\ msg' = msg \o data
    /\ ret' = Ok
    /\ UNCHANGED <<key, finalized, dropped>>

Finalize ==
    /\ ~dropped /\ ~finalized
    /\ finalized' = TRUE
    /\ ret' = TagRet(HMAC(key, msg))
    /\ UNCHANGED <<key, msg, dropped>>

Rejected ==
    /\ ~dropped /\ finalized
    /\ ret' = Err
    /\ UNCHANGED <<key, msg, finalized, dropped>>

Reset ==
    /\ ~dropped
    /\ msg' = <<>> /\ finalized' = FALSE
    /\ ret' = Ok
    /\ UNCHANGED <<key, dropped>>

\* Nothing can be called on a destroyed state.
Drop ==
    /\ ~dropped
    /\ dropped' = TRUE
    /\ UNCHANGED <<key, msg, finalized, ret>>

Next ==
    \/ \E data \in Chunks : Update(data)
    \/ Finalize
    \/ Rejected
    \/ Reset
    \/ Drop

Spec == Init /\ [][Next]_vars
=============================================================================
