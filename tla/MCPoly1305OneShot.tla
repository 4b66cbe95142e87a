-------------------------- MODULE MCPoly1305OneShot --------------------------
(***************************************************************************)
(* Model-checking instance of Poly1305OneShot, at the widths of           *)
(* MCPoly1305 (6-bit limbs, 7-bit units, 4 units to a block).             *)
(***************************************************************************)
EXTENDS Poly1305OneShot

\* The clamp of the code, scaled: the RFC clears the top 4 bits of bytes 3,
\* 7, 11, 15 and the low 2 bits of bytes 4, 8, 12; here the top bit of
\* every unit and the low bit of units 1..3 are cleared.  Per limb this
\* is 63, 63 - 3, 63 - 6, 63 - 12 and, on the 4-bit top limb, 15 - 8, as
\* the code's masks 0x3ffffff, 0x3ffff03, 0x3ffc0ff, 0x3f03fff, 0x00fffff.
MCClampMask == [i \in 0 .. 4 |-> <<63, 60, 57, 51, 7>>[i + 1]]

\* Keys: everything 1 (r at the clamp's maximum, s carries out of every
\* word), an irregular key, r = 0 with an all-ones s, and r = 3.
MCKeys == { <<127, 127, 127, 127, 127, 127, 127, 127>>,
            <<5, 90, 33, 77, 1, 0, 64, 3>>,
            <<0, 0, 0, 0, 127, 127, 127, 127>>,
            <<3, 0, 0, 0, 9, 0, 0, 0>> }

\* The block m with (m + 2^28) * 3 = 2^30 - 1 = p + 4: under r = 3 the
\* product needs no reduction, so the accumulator ends at p + 4, in
\* [p, 2^30), and finalize must subtract p.  The carries of the other
\* messages never end there.
MCAboveP == <<85, 42, 85, 42>>

\* Every message of up to 9 units over the extremes: up to two whole
\* blocks and a partial one in one update call.
MaxData == 9
MCData == BoundedSeq({0, 127}, MaxData) \cup {MCAboveP}

\* Expected tags: the right tag of a few messages under every key, and a
\* tag that is right for no message of MCVerifyData, so verify both
\* accepts and rejects.
MCVerifyData == {<<>>, <<127>>, <<127, 127, 127, 127, 127>>}
MCExpected == {RfcMac(k, d) : k \in MCKeys, d \in MCVerifyData} \cup {<<1, 2, 3, 4>>}
=============================================================================
