-------------------------------- MODULE Hmac --------------------------------
(***************************************************************************)
(* The HMAC-SHA512 streaming state of src/hazardous/mac/hmac.rs: struct    *)
(* Hmac { ipad, opad_hasher, ipad_hasher, is_finalized }, its operations   *)
(* init (with pad_key_io), update, finalize, reset and drop, and the       *)
(* one-shot hmac and verify functions.                                     *)
(*                                                                         *)
(* SHA-512 is the sha2 crate's streaming hasher and is abstracted by what  *)
(* HMAC relies on (HmacSha512).  Data bytes are model values.             *)
(***************************************************************************)
EXTENDS HmacSha512, SequencesExt

CONSTANTS
    Keys,     \* SecretKey values (already padded to SHA2_BLOCKSIZE)
    Bytes,    \* the data bytes
    Chunks    \* the byte strings one update call may pass

VARIABLES
    ipad, opad_hasher, ipad_hasher, is_finalized,
    ret,      \* what the last call on the state returned
    dropped,  \* drop has run
    key,      \* history: the key of init
    msg,      \* history: the bytes passed to update since init or reset
    oneshot   \* what the last call of hmac() or verify() returned

vars == <<ipad, opad_hasher, ipad_hasher, is_finalized, ret, dropped, key, msg, oneshot>>

\* The cleared ipad buffer.
Cleared == <<"zero">>

Ok == [kind |-> "ok"]
Err == [kind |-> "finalized_err"]
TagRet(t) == [kind |-> "tag", tag |-> t]

Init ==
    \E k \in Keys :
        /\ ipad = PadKeyIo(k).ipad
        /\ ipad_hasher = PadKeyIo(k).ipad_hasher
        /\ opad_hasher = PadKeyIo(k).opad_hasher
        /\ is_finalized = FALSE
        /\ ret = Ok
        /\ dropped = FALSE
        /\ key = k
        /\ msg = <<>>
        /\ oneshot = [kind |-> "none"]

\* reset(): feed ipad to ipad_hasher again and clear is_finalized.  The
\* hasher is not replaced by a fresh one.
Reset ==
    /\ ~dropped
    /\ ipad_hasher' = Append(ipad_hasher, ipad)
    /\ is_finalized' = FALSE
    /\ ret' = Ok
    /\ msg' = <<>>
    /\ UNCHANGED <<ipad, opad_hasher, dropped, key, oneshot>>

Update(data) ==
    /\ ~dropped /\ ~is_finalized
    /\ ipad_hasher' = ipad_hasher \o data
    /\ ret' = Ok
    /\ msg' = msg \o data
    /\ UNCHANGED <<ipad, opad_hasher, is_finalized, dropped, key, oneshot>>

\* update or finalize after finalize: Err(FinalizationCryptoError).
Rejected ==
    /\ ~dropped /\ is_finalized
    /\ ret' = Err
    /\ UNCHANGED <<ipad, opad_hasher, ipad_hasher, is_finalized, dropped, key, msg, oneshot>>

\* A finalize whose mem::swap is missing: the inner hasher keeps its input.
FinalizeNoSwap ==
    /\ ~dropped /\ ~is_finalized
    /\ is_finalized' = TRUE
    /\ ret' = TagRet(OuterTag(opad_hasher, ipad_hasher))
    /\ UNCHANGED <<ipad, opad_hasher, ipad_hasher, dropped, key, msg, oneshot>>

\* A finalize that feeds opad_hasher itself instead of a clone of it.
FinalizeNoClone ==
    /\ ~dropped /\ ~is_finalized
    /\ is_finalized' = TRUE
    /\ ipad_hasher' = Fresh
    /\ opad_hasher' = Append(opad_hasher, Result(ipad_hasher))
    /\ ret' = TagRet(OuterTag(opad_hasher, ipad_hasher))
    /\ UNCHANGED <<ipad, dropped, key, msg, oneshot>>

\* finalize(): set is_finalized, swap a fresh hasher into ipad_hasher and
\* take the digest of the old one, feed it to a clone of opad_hasher.
Finalize ==
    /\ ~dropped /\ ~is_finalized
    /\ is_finalized' = TRUE
    /\ ipad_hasher' = Fresh
    /\ ret' = TagRet(OuterTag(opad_hasher, ipad_hasher))
    /\ UNCHANGED <<ipad, opad_hasher, dropped, key, msg, oneshot>>

\* impl Drop: only the ipad buffer is cleared.
Drop ==
    /\ ~dropped
    /\ dropped' = TRUE
    /\ ipad' = Cleared
    /\ UNCHANGED <<opad_hasher, ipad_hasher, is_finalized, ret, key, msg, oneshot>>

OneShot(k, data) ==
    /\ oneshot' = [kind |-> "tag", key |-> k, data |-> data, tag |-> HmacTag(k, data)]
    /\ UNCHANGED <<ipad, opad_hasher, ipad_hasher, is_finalized, ret, dropped, key, msg>>

\* A verify that forgets the update: it compares with the tag of no data.
VerifyNoUpdate(expected, k, data) ==
    /\ oneshot' = [kind |-> "verify", key |-> k, data |-> data,
                   tag |-> expected, ok |-> expected = HmacTag(k, <<>>)]
    /\ UNCHANGED <<ipad, opad_hasher, ipad_hasher, is_finalized, ret, dropped, key, msg>>

\* verify(expected, secret_key, data): Ok(true) on a match, else
\* Err(ValidationCryptoError).
Verify(expected, k, data) ==
    /\ oneshot' = [kind |-> "verify", key |-> k, data |-> data,
                   tag |-> expected, ok |-> expected = HmacTag(k, data)]
    /\ UNCHANGED <<ipad, opad_hasher, ipad_hasher, is_finalized, ret, dropped, key, msg>>

\* The tags a caller can hold: those of every key over every chunk.
CandidateTags == {HMAC(k, c) : k \in Keys, c \in Chunks}

Next ==
    \/ \E data \in Chunks : Update(data)
    \/ Rejected
    \/ Finalize
    \/ Reset
    \/ Drop
    \/ \E k \in Keys, data \in Chunks : OneShot(k, data)
    \/ \E k \in Keys, data \in Chunks, t \in CandidateTags : Verify(t, k, data)

Spec == Init /\ [][Next]_vars

\* Callers that reset a state only once it is finalized, as every reset
\* in the crate's tests does (double_finalize_with_reset_ok,
\* update_after_finalize_with_reset_ok).
NextResetAfterFinalize ==
    /\ Next
    /\ Reset => is_finalized

SpecResetAfterFinalize == Init /\ [][NextResetAfterFinalize]_vars

----------------------------------------------------------------------------
(* Properties.                                                             *)

TypeOK ==
    /\ ipad \in {Ipad(k) : k \in Keys} \cup {Cleared}
    /\ opad_hasher \in {<<Opad(k)>> : k \in Keys}
    /\ is_finalized \in BOOLEAN
    /\ ret.kind \in {"ok", "finalized_err", "tag"}
    /\ dropped \in BOOLEAN
    /\ key \in Keys
    /\ msg \in Seq(Bytes)
    /\ oneshot.kind \in {"none", "tag", "verify"}

(* Every tag finalize returns is HMAC-SHA512 under the state's key of the  *)
(* bytes passed to update since init or the last reset (spec: "reset      *)
(* equals a fresh init"; the inner hasher "reflects ipad ^ key followed by *)
(* all bytes supplied since the last reset").  It depends on finalize      *)
(* swapping a fresh hasher into ipad_hasher, on reset re-feeding ipad, and *)
(* on opad_hasher being cloned rather than fed.                            *)
TagIsHmac ==
    ret.kind = "tag" => ret.tag = HMAC(key, msg)

(* The streaming state implements HmacSpec: every call returns what the  *)
(* whole-message specification returns, with the key that opad_hasher was *)
(* fed at init and, until finalize, the message that ipad_hasher holds     *)
(* after key ^ ipad.  So reset must leave ipad_hasher holding key ^ ipad   *)
(* alone, finalize must swap a fresh hasher in and feed only a clone of    *)
(* opad_hasher, and calls after finalize must fail without effect.         *)
ABS == INSTANCE HmacSpec
         WITH key <- opad_hasher[1][2],
              msg <- IF is_finalized THEN msg ELSE Tail(ipad_hasher),
              finalized <- is_finalized

ImplementsHmacSpec == ABS!Spec

(* Destruction zeroizes all secret material (spec: "destruction zeroizes   *)
(* all secret material on every exit path"): once drop has run, neither    *)
(* the ipad buffer nor either hasher holds a key-derived pad block.        *)
(* impl Drop for Hmac clears only ipad.                                    *)
KeyDerived == {Ipad(k) : k \in Keys} \cup {Opad(k) : k \in Keys}

DropWipesKeyMaterial ==
    dropped => KeyDerived \cap ({ipad} \cup Range(ipad_hasher) \cup Range(opad_hasher)) = {}
=============================================================================
