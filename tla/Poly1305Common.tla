--------------------------- MODULE Poly1305Common ---------------------------
(***************************************************************************)
(* Widths shared by the Poly1305 modules.                                  *)
(*                                                                         *)
(* src/hazardous/mac/poly1305.rs works on 130-bit numbers held in five     *)
(* 26-bit limbs inside u32 words (6 bits of headroom), forms 64-bit        *)
(* products, reads 16-byte blocks and writes a tag of four 32-bit words.   *)
(* TLC's integers stop at 2^31, so the model keeps the SHAPE of every      *)
(* width and scales its size with one constant, LIMB_BITS (26 in the       *)
(* code):                                                                  *)
(*   limb            LIMB_BITS                     (26)                    *)
(*   u32 word        LIMB_BITS + 6                 (32)                    *)
(*   u64 word        2 * (LIMB_BITS + 6)           (64)                    *)
(*   block           5 * LIMB_BITS - 2 bits        (128)                   *)
(*   tag word        a quarter of a block          (32)                    *)
(* A block is POLY1305_BLOCKSIZE = 4 units of one tag word each: a unit    *)
(* of the model stands for 4 bytes of the code, so "leftover" counts       *)
(* units from 0 to 3 instead of bytes from 0 to 15.                        *)
(***************************************************************************)
EXTENDS Integers, Sequences

CONSTANT LIMB_BITS

ASSUME LIMB_BITS \in Nat /\ LIMB_BITS >= 2 /\ (5 * LIMB_BITS - 2) % 4 = 0

POLY1305_BLOCKSIZE == 4

\* Bits of one unit of a block, of one tag word and of one word of the pad s.
UnitBits == (5 * LIMB_BITS - 2) \div 4

\* The values a unit of input can take.
Unit == 0 .. (2^UnitBits - 1)

\* The prime 2^130 - 5, scaled.
P == 2^(5 * LIMB_BITS) - 5

\* A little-endian sequence of units read as one number.
RECURSIVE LeNum(_)
LeNum(units) ==
    IF units = <<>> THEN 0
    ELSE Head(units) + 2^UnitBits * LeNum(Tail(units))

=============================================================================
