---------------------------- MODULE Poly1305Spec ----------------------------
(***************************************************************************)
(* What a Poly1305 state promises: finalize returns the RFC 8439 MAC of    *)
(* the concatenation of every update payload since init or the last        *)
(* reset, in call order, however the payloads were split.  The MAC is the  *)
(* RFC's definition (section 2.5.1) on whole numbers: split the message    *)
(* into 16-byte blocks, read each little-endian with a 0x01 byte appended, *)
(* acc = ((acc + n) * r) mod P block by block, tag = (acc + s) mod 2^128.  *)
(* No limbs, no carries, no leftover buffer.  Poly1305.tla is shown to     *)
(* implement it.                                                           *)
(***************************************************************************)
EXTENDS Poly1305Common

ASSUME (5 * LIMB_BITS) % 2 = 0

CONSTANT Chunks   \* the byte strings one update call may pass

VARIABLES
    rv,         \* r as a number
    sv,         \* s as a number
    msg,        \* the units supplied since init or the last reset
    finalized,
    ret,        \* what the last call returned
    dropped     \* the state has been destroyed

vars == <<rv, sv, msg, finalized, ret, dropped>>

Ok == [kind |-> "ok", tag |-> <<>>]
Err == [kind |-> "finalized_err", tag |-> <<>>]
TagRet(t) == [kind |-> "tag", tag |-> t]

TagBits == 4 * UnitBits

\* x * y mod P for x, y < P, in halves of H bits so that every product and
\* sum stays inside TLC's integers; 2^(2H) = 2^(5 * LIMB_BITS) = 5 mod P.
H == (5 * LIMB_BITS) \div 2
Times5(t) == (((2 * ((2 * t) % P)) % P) + t) % P
ShiftH(t) == (5 * (t \div 2^H) + (t % 2^H) * 2^H) % P
MulModP(x, y) ==
    LET xh == x \div 2^H
        xl == x % 2^H
        yh == y \div 2^H
        yl == y % 2^H
        mid == (((xh * yl) % P) + ((xl * yh) % P)) % P
    IN (((Times5((xh * yh) % P) + ShiftH(mid)) % P) + ((xl * yl) % P)) % P

\* The polynomial of the RFC over the blocks of m, starting from acc:
\* every block, full or not, is read with one unit of value 1 after it.
RECURSIVE PolyEval(_, _)
PolyEval(acc, m) ==
    IF m = <<>> THEN acc
    ELSE LET k == IF Len(m) < POLY1305_BLOCKSIZE THEN Len(m) ELSE POLY1305_BLOCKSIZE
             n == LeNum(Append(SubSeq(m, 1, k), 1))
         IN PolyEval(MulModP((acc + n) % P, rv), SubSeq(m, k + 1, Len(m)))

\* The tag: (acc + s) mod 2^128 as four little-endian tag words.
Mac(m) ==
    LET t == (PolyEval(0, m) + sv) % 2^TagBits
    IN [i \in 1 .. 4 |-> (t \div 2^(UnitBits * (i - 1))) % 2^UnitBits]

Init ==
    /\ rv \in 0 .. (2^(5 * LIMB_BITS) - 1)
    /\ sv \in 0 .. (2^TagBits - 1)
    /\ msg = <<>>
    /\ finalized = FALSE
    /\ ret = Ok
    /\ dropped = FALSE

Update(data) ==
    /\ ~dropped /\ ~finalized
    /\ msg' = msg \o data
    /\ ret' = Ok
    /\ UNCHANGED <<rv, sv, finalized, dropped>>

Finalize ==
    /\ ~dropped /\ ~finalized
    /\ finalized' = TRUE
    /\ ret' = TagRet(Mac(msg))
    /\ UNCHANGED <<rv, sv, msg, dropped>>

\* update or finalize after finalize fails and changes nothing else.
Rejected ==
    /\ ~dropped /\ finalized
    /\ ret' = Err
    /\ UNCHANGED <<rv, sv, msg, finalized, dropped>>

\* reset starts a new message under the same key.
Reset ==
    /\ ~dropped
    /\ msg' = <<>> /\ finalized' = FALSE
    /\ ret' = Ok
    /\ UNCHANGED <<rv, sv, dropped>>

\* Destruction wipes the key.
Drop ==
    /\ ~dropped
    /\ dropped' = TRUE
    /\ rv' = 0 /\ sv' = 0
    /\ UNCHANGED <<msg, finalized, ret>>

Next ==
    \/ \E data \in Chunks : Update(data)
    \/ Finalize
    \/ Rejected
    \/ Reset
    \/ Drop

Spec == Init /\ [][Next]_vars

=============================================================================
