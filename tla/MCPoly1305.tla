----------------------------- MODULE MCPoly1305 -----------------------------
(***************************************************************************)
(* Model-checking instance of Poly1305: limbs of 6 bits (26 in the code),  *)
(* so numbers of 30 bits, u32 words of 12 bits, u64 words of 24 bits and   *)
(* 7-bit units, 4 to a block.                                              *)
(***************************************************************************)
EXTENDS Poly1305

\* Unit values of the input: the extremes, which maximise carries.
MCUnits == {0, 2^UnitBits - 1}

\* Every update call of at most 6 units: enough to top up a leftover of 3,
\* absorb a whole block and keep a residue in one call.
MaxChunk == 6
MCChunks == BoundedSeq(MCUnits, MaxChunk)

\* Keys: r with every limb at its maximum and s all ones (the pad carries
\* out of every word); and an irregular r and s.
MCKeys == { <<127, 127, 127, 127, 127, 127, 127, 127>>,
            <<5, 90, 33, 77, 1, 0, 64, 3>> }

\* The clamp is not scaled: r keeps every bit of its limbs, a superset of
\* the clamped values of the code.
MCRMask == [i \in 0 .. 4 |-> 2^LIMB_BITS - 1]

\* For the headroom run: single units and whole blocks.  Every block
\* content is still absorbed from every leftover position, and the
\* accumulator carries from block to block are the same as with MCChunks.
MCHeadroomChunks == {c \in BoundedSeq(MCUnits, BS) : Len(c) \in {1, BS}}

\* Bound on the message: 9 units is two full blocks and a partial one.
MaxMsgLen == 9
MsgBound == Len(msg) <= MaxMsgLen

\* The same system with the bound on its steps rather than on its states:
\* no state past the bound is generated, so Headroom, which is costly,
\* is evaluated on the states within the bound only.
BoundedNext == Next /\ MsgBound'
BoundedSpec == Init /\ [][BoundedNext]_vars
=============================================================================
