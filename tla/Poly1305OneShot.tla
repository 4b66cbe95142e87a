--------------------------- MODULE Poly1305OneShot ---------------------------
(***************************************************************************)
(* The one-shot functions of src/hazardous/mac/poly1305.rs: poly1305()     *)
(* builds a state with init, passes all of data to one update call and    *)
(* returns what finalize returns; verify() compares that tag with the      *)
(* expected one.  Both unwrap the results of update and finalize, which    *)
(* cannot fail on a fresh state.  The state is a local of the function and *)
(* is dropped on return, so the only state the model keeps is what the    *)
(* last call returned.                                                     *)
(*                                                                         *)
(* One update call with the whole message runs the block loop of update   *)
(* as often as the message has whole blocks, which no sequence of short    *)
(* update calls of Poly1305 does.                                          *)
(*                                                                         *)
(* Nothing survives a call, so a call's result does not depend on earlier  *)
(* calls: every behaviour is the initial state and one call.               *)
(***************************************************************************)
EXTENDS Poly1305Arith

CONSTANTS
    Keys,       \* one-time keys: sequences of 2 * POLY1305_BLOCKSIZE units
    Data,       \* the messages a call may pass
    Expected    \* the tags a caller may pass to verify

VARIABLE oneshot  \* what the last call of poly1305() or verify() returned

vars == <<oneshot>>

Init == oneshot = [kind |-> "none"]

OneShot(key, data) ==
    oneshot' = [kind |-> "tag", key |-> key, data |-> data, tag |-> Poly1305Tag(key, data)]

\* A verify that compares with the tag of the empty message.
VerifyNoUpdate(expected, key, data) ==
    oneshot' = [kind |-> "verify", key |-> key, data |-> data, tag |-> expected,
                ok |-> Poly1305Tag(key, <<>>) = expected]

\* verify(expected, one_time_key, data): Ok(true) when the tags are equal
\* (compared in constant time), Err(ValidationCryptoError) otherwise.
Verify(expected, key, data) ==
    oneshot' = [kind |-> "verify", key |-> key, data |-> data, tag |-> expected,
                ok |-> Poly1305Tag(key, data) = expected]

Next ==
    /\ oneshot.kind = "none"
    /\ \/ \E key \in Keys, data \in Data : OneShot(key, data)
       \/ \E t \in Expected, key \in Keys, data \in Data : Verify(t, key, data)

Spec == Init /\ [][Next]_vars

----------------------------------------------------------------------------
(* Properties.                                                             *)

\* The RFC 8439 clamp, written from the RFC and not from the code's masks:
\* r[3], r[7], r[11], r[15] lose their top four bits and r[4], r[8], r[12]
\* their low two bits.  Scaled to units of 4 bytes, unit k loses its top
\* bit, and units 1 to 3 also their low bit.
RfcClampUnit(k, u) ==
    LET top == u % 2^(UnitBits - 1)
    IN IF k = 0 THEN top ELSE top - (top % 2)

RfcClamp(units) == LeNum([k \in 1 .. BS |-> RfcClampUnit(k - 1, units[k])])

\* The RFC 8439 MAC on whole numbers (Poly1305Spec) under the key's r and
\* s: r is the first half of the key read little-endian and clamped by
\* RfcClamp, s the second half.
RFC(rr, ss) == INSTANCE Poly1305Spec
                 WITH rv <- rr, sv <- ss, msg <- <<>>, finalized <- FALSE,
                      ret <- [kind |-> "ok"], dropped <- FALSE, Chunks <- {}

RfcMac(key, data) ==
    RFC(RfcClamp(SubSeq(key, 1, BS)), LeNum(SubSeq(key, BS + 1, 2 * BS)))!Mac(data)

(* poly1305() returns the RFC 8439 tag of its key and message, and verify()*)
(* accepts exactly the RFC tag.  A message of several blocks passed in one *)
(* update call goes round the block loop of update once per block; the     *)
(* per-limb clamp masks of initialize must together be the RFC's clamp;    *)
(* and when the accumulator ends in [p, 2^130) the final reduction must    *)
(* take g = h - p (the select of process_end_of_stream).                   *)
OneShotIsMac ==
    /\ oneshot.kind = "tag" => oneshot.tag = RfcMac(oneshot.key, oneshot.data)
    /\ oneshot.kind = "verify" =>
          (oneshot.ok <=> oneshot.tag = RfcMac(oneshot.key, oneshot.data))
=============================================================================
