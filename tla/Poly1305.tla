------------------------------ MODULE Poly1305 ------------------------------
(***************************************************************************)
(* The Poly1305 streaming state of src/hazardous/mac/poly1305.rs: struct   *)
(* Poly1305 { a, r, s, leftover, buffer, is_finalized } and its operations *)
(* init, update, finalize, reset and drop.  The arithmetic is that of      *)
(* Poly1305Arith.                                                          *)
(***************************************************************************)
EXTENDS Poly1305Arith

CONSTANTS
    Keys,     \* one-time keys: sequences of 2 * POLY1305_BLOCKSIZE units
    Chunks    \* the byte strings one update call may pass

VARIABLES
    a, r, s, leftover, buffer, is_finalized,
    ret,      \* what the last call returned
    dropped,  \* drop has run
    msg       \* history: the units passed to update since init or reset

vars == <<a, r, s, leftover, buffer, is_finalized, ret, dropped, msg>>

Ok == [kind |-> "ok", tag |-> <<>>]
Err == [kind |-> "finalized_err", tag |-> <<>>]
TagRet(t) == [kind |-> "tag", tag |-> t]

----------------------------------------------------------------------------
(* The operations.  Each one is a whole pub fn of impl Poly1305.           *)

\* init(one_time_key)
Init ==
    \E key \in Keys :
        /\ a = [i \in Limbs |-> 0]
        /\ r = Initialize(key).r
        /\ s = Initialize(key).s
        /\ leftover = 0
        /\ buffer = ZeroBuffer
        /\ is_finalized = FALSE
        /\ ret = Ok
        /\ dropped = FALSE
        /\ msg = <<>>

\* update(data) after finalize: Err(FinalizationCryptoError).
UpdateRejected ==
    /\ ~dropped /\ is_finalized
    /\ ret' = Err
    /\ UNCHANGED <<a, r, s, leftover, buffer, is_finalized, dropped, msg>>

\* update(data) that only tops up the leftover buffer and returns early.
UpdatePartial(data) ==
    /\ ~dropped /\ ~is_finalized
    /\ leftover # 0 /\ leftover + Len(data) < BS
    /\ buffer' = Fill(buffer, leftover, data)
    /\ leftover' = leftover + Len(data)
    /\ ret' = Ok
    /\ msg' = msg \o data
    /\ UNCHANGED <<a, r, s, is_finalized, dropped>>

\* update(data) that completes the leftover block (if any), absorbs every
\* whole block of the rest and keeps the residue in buffer.
UpdateBlocks(data) ==
    /\ ~dropped /\ ~is_finalized
    /\ leftover = 0 \/ leftover + Len(data) >= BS
    /\ \E u \in {UpdateBlocksState(a, r, buffer, leftover, data, is_finalized)} :
          /\ a' = u.a
          /\ buffer' = u.buffer
          /\ leftover' = u.leftover
    /\ ret' = Ok
    /\ msg' = msg \o data
    /\ UNCHANGED <<r, s, is_finalized, dropped>>

\* finalize() a second time: Err(FinalizationCryptoError).
FinalizeRejected ==
    /\ ~dropped /\ is_finalized
    /\ ret' = Err
    /\ UNCHANGED <<a, r, s, leftover, buffer, is_finalized, dropped, msg>>

\* finalize(): is_finalized is set first, so the padded last block is
\* absorbed with hibit 0; then the final reduction writes a[0..3].
FinalizeOk ==
    /\ ~dropped /\ ~is_finalized
    /\ is_finalized' = TRUE
    /\ \E a2 \in {FinalizeAcc(a, r, s, buffer, leftover)} :
          /\ a' = a2
          /\ ret' = TagRet(TagOf(a2))
    /\ UNCHANGED <<r, s, leftover, buffer, dropped, msg>>

\* A reset without "self.a = [0u32; 5]": the accumulator of the last
\* message (the tag words, after finalize) is kept.
ResetKeepsAcc ==
    /\ ~dropped
    /\ leftover' = 0
    /\ is_finalized' = FALSE
    /\ buffer' = ZeroBuffer
    /\ ret' = Ok
    /\ msg' = <<>>
    /\ UNCHANGED <<a, r, s, dropped>>

\* reset(): back to the state init leaves, keeping r and s.
Reset ==
    /\ ~dropped
    /\ a' = [i \in Limbs |-> 0]
    /\ leftover' = 0
    /\ is_finalized' = FALSE
    /\ buffer' = ZeroBuffer
    /\ ret' = Ok
    /\ msg' = <<>>
    /\ UNCHANGED <<r, s, dropped>>

\* impl Drop: a, r, s and buffer are cleared; nothing runs afterwards.
Drop ==
    /\ ~dropped
    /\ dropped' = TRUE
    /\ a' = [i \in Limbs |-> 0]
    /\ r' = [i \in Limbs |-> 0]
    /\ s' = [k \in 0 .. 3 |-> 0]
    /\ buffer' = ZeroBuffer
    /\ UNCHANGED <<leftover, is_finalized, ret, msg>>

Next ==
    \/ \E data \in Chunks : UpdatePartial(data) \/ UpdateBlocks(data)
    \/ UpdateRejected
    \/ FinalizeOk
    \/ FinalizeRejected
    \/ Reset
    \/ Drop

Spec == Init /\ [][Next]_vars

----------------------------------------------------------------------------
(* Properties.                                                             *)

TypeOK ==
    /\ a \in [Limbs -> Nat]
    /\ r \in [Limbs -> 0 .. (LimbMod - 1)]
    /\ s \in [0 .. 3 -> Unit]
    /\ leftover \in 0 .. (BS - 1)
    /\ buffer \in [1 .. BS -> Unit]
    /\ is_finalized \in BOOLEAN
    /\ ret.kind \in {"ok", "finalized_err", "tag"}
    /\ dropped \in BOOLEAN
    /\ msg \in Seq(Unit)

(* The streaming state implements Poly1305Spec: however update calls      *)
(* split the message (leftover top-up, whole blocks, residue), finalize    *)
(* returns the RFC 8439 tag of everything passed since init or reset: the  *)
(* partial last block padded with 0x01 and absorbed without hibit, the     *)
(* limbs carried and reduced to the canonical value mod P, + s mod 2^128.  *)
(* A call after finalize fails and changes nothing, reset starts a new     *)
(* message under the same key, and drop wipes r and s.                     *)
ABS == INSTANCE Poly1305Spec
         WITH rv <- Value(r),
              sv <- LeNum([k \in 1 .. 4 |-> s[k - 1]]),
              finalized <- is_finalized

ImplementsPoly1305Spec == ABS!Spec

(* Limb headroom of process_block and process_end_of_stream: in every      *)
(* reachable state, whatever block update or finalize absorbs next, none   *)
(* of the u32 additions, u64 products and sums, "as u32" carry casts or    *)
(* the "c * 5" fold needs more bits than the code's word has, and neither  *)
(* does the full carry of the final reduction, either on the accumulator  *)
(* as it is or after finalize has absorbed the padded last block.  The     *)
(* carry slack left in limb 1 by one block is what the next block has to  *)
(* absorb.                                                                 *)
\* Every block the inputs can form.
Blocks == [1 .. BS -> UNION {Range(c) : c \in Chunks}]

Headroom ==
    /\ \A blk \in Blocks, fin \in BOOLEAN :
          ~BlockOverflows(a, r, blk, fin)
    /\ ~EndOverflows(a)
    /\ ~EndOverflows(PaddedLast(a, r, buffer, leftover))
=============================================================================
