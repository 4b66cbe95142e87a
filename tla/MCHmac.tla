------------------------------- MODULE MCHmac -------------------------------
(***************************************************************************)
(* Model-checking instance of Hmac: two keys and two data bytes as model   *)
(* values, update calls of up to two bytes.                                *)
(***************************************************************************)
EXTENDS Hmac, TLC

CONSTANTS k1, k2, b1, b2

MCKeys == {k1, k2}
MCBytes == {b1, b2}
MCChunks == BoundedSeq(MCBytes, 2)

\* Keys and bytes are only compared for equality, and no property names one.
Symmetry == Permutations(MCKeys) \cup Permutations(MCBytes)

\* Bounds: what the inner hasher holds and the current message.  Five
\* symbols cover a pad block, two updates and a re-fed pad block.
MaxHasherLen == 5
MaxMsgLen == 4
StateBound == Len(ipad_hasher) <= MaxHasherLen /\ Len(msg) <= MaxMsgLen
=============================================================================
