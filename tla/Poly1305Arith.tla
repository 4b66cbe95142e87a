----------------------------- MODULE Poly1305Arith -----------------------------
(***************************************************************************)
(* The pure computations of src/hazardous/mac/poly1305.rs, shared by the   *)
(* streaming state (Poly1305) and the one-shot functions                  *)
(* (Poly1305OneShot): initialize's key read and clamp, the limb arithmetic *)
(* of process_block and process_end_of_stream, and the parts of update and finalize that    *)
(* compute the next accumulator and buffer.  Widths are those of           *)
(* Poly1305Common.  Limb i of the code is index i here (0..4); buffer      *)
(* index i of the code is index i+1 of a buffer sequence.                  *)
(***************************************************************************)
EXTENDS Poly1305Common, SequencesExt, Bitwise

CONSTANT R_MASK   \* the clamp masks of r, limb by limb

BS == POLY1305_BLOCKSIZE
L == LIMB_BITS
LimbMod == 2^L                   \* & 0x3ffffff is % LimbMod
WordMod == 2^(L + 6)             \* u32
WideMod == 2^(2 * (L + 6))       \* u64
TagMod == 2^UnitBits             \* a tag word
Limbs == 0 .. 4

ZeroBuffer == [i \in 1 .. BS |-> 0]

\* Five values, given in limb order, as a function of the limb index.
Vec(tuple) == [i \in Limbs |-> tuple[i + 1]]

\* Four values as a function of the word index 0..3.
Words(tuple) == [k \in 0 .. 3 |-> tuple[k + 1]]

\* The number held in five limbs.
Value(h) == h[0] + LimbMod * (h[1] + LimbMod * (h[2] + LimbMod * (h[3] + LimbMod * h[4])))

\* Limb i of a block read from the 32-bit window at byte 3i, shifted 2i.
Window(m, i) == m \div 2^(L * i)

\* An initialize without the "& 0x3ffffff" limb masks: r keeps every bit
\* of its 32-bit window.
InitializeNoMask(key) ==
    LET rn == LeNum(SubSeq(key, 1, BS))
    IN [r |-> [i \in Limbs |-> Window(rn, i) % WordMod],
        s |-> [k \in 0 .. 3 |-> key[BS + 1 + k]]]

\* initialize: clamp r from the first half of the key, s from the second.
Initialize(key) ==
    LET rn == LeNum(SubSeq(key, 1, BS))
    IN [r |-> [i \in Limbs |-> (IF i < 4 THEN Window(rn, i) % LimbMod
                                          ELSE Window(rn, i)) & R_MASK[i]],
        s |-> [k \in 0 .. 3 |-> key[BS + 1 + k]]]

(***************************************************************************)
(* process_block, one operator per step of the code.  Each returns the     *)
(* five u32/u64 values the code holds after that step, so that            *)
(* BlockOverflows can check their widths.                                  *)
(***************************************************************************)
\* (x >> 26) as u32
Carry(x) == (x \div LimbMod) % WordMod

\* h += m: limb i of the block read from its window; (read >> 8) | hibit
\* on the top limb, where the window lies below hibit, so | is +.
AddBlock(acc, data, fin) ==
    LET m == LeNum(data)
        hibit == IF fin THEN 0 ELSE 2^(L - 2)
        hl(i) == acc[i] + (IF i < 4 THEN Window(m, i) % LimbMod ELSE Window(m, i) + hibit)
    IN Vec(<<hl(0), hl(1), hl(2), hl(3), hl(4)>>)

\* s_i = r_i * 5 (s_0 is never used by the code).
Times5Limbs(rr) == Vec(<<rr[0] * 5, rr[1] * 5, rr[2] * 5, rr[3] * 5, rr[4] * 5>>)

\* h *= r: d_j pairs h_k with r_(j-k), or with s_(j-k+5) when k > j.
Products(h, rr) ==
    LET sr == Times5Limbs(rr)
        dl(j) == LET prod(k) == h[k] * (IF k <= j THEN rr[j - k] ELSE sr[j - k + 5])
                 IN prod(0) + prod(1) + prod(2) + prod(3) + prod(4)
    IN Vec(<<dl(0), dl(1), dl(2), dl(3), dl(4)>>)

\* Partial h %= p: d_j += c, c = (d_j >> 26) as u32, from d_0 to d_4.
CarryChain(d) ==
    LET t1 == d[1] + Carry(d[0])
        t2 == d[2] + Carry(t1)
        t3 == d[3] + Carry(t2)
    IN Vec(<<d[0], t1, t2, t3, d[4] + Carry(t3)>>)

\* Low 26 bits of every d_j; h0 += c * 5 with the carry out of d_4;
\* h1 += h0 >> 26.
FoldTop(t) ==
    LET h0 == (t[0] % LimbMod) + Carry(t[4]) * 5
    IN Vec(<<h0 % LimbMod, (t[1] % LimbMod) + h0 \div LimbMod,
             t[2] % LimbMod, t[3] % LimbMod, t[4] % LimbMod>>)

\* A process_block that sets hibit whatever is_finalized says.
ProcessBlockAlwaysHibit(acc, rr, data, fin) ==
    FoldTop(CarryChain(Products(AddBlock(acc, data, FALSE), rr)))

ProcessBlock(acc, rr, data, fin) ==
    FoldTop(CarryChain(Products(AddBlock(acc, data, fin), rr)))

\* The loop of update: absorb every whole block of bytes (hibit set).
RECURSIVE AbsorbBlocks(_, _, _, _)
AbsorbBlocks(acc, rr, bytes, fin) ==
    IF Len(bytes) < BS THEN acc
    ELSE AbsorbBlocks(ProcessBlock(acc, rr, SubSeq(bytes, 1, BS), fin), rr,
                      SubSeq(bytes, BS + 1, Len(bytes)), fin)

(***************************************************************************)
(* process_end_of_stream, step by step.                                    *)
(***************************************************************************)
\* Full carry h1 -> h2 -> h3 -> h4 -> h0 (times 5): the values before the
\* masks, limb 0 after h0 += c * 5.
TopCarry(acc) ==
    LET f2 == acc[2] + acc[1] \div LimbMod
        f3 == acc[3] + f2 \div LimbMod
        f4 == acc[4] + f3 \div LimbMod
    IN Vec(<<acc[0] + (f4 \div LimbMod) * 5, acc[1], f2, f3, f4>>)

\* The limbs after the full carry; h1 += h0 >> 26 is the last step.
FullCarry(acc) ==
    LET u == TopCarry(acc)
    IN Vec(<<u[0] % LimbMod, (u[1] % LimbMod) + u[0] \div LimbMod,
             u[2] % LimbMod, u[3] % LimbMod, u[4] % LimbMod>>)

\* g = h + 5 - 2^130 with wrapping u32 adds; the top limb is not masked.
MinusP(h) ==
    LET g0 == (h[0] + 5) % WordMod
        g1 == (h[1] + g0 \div LimbMod) % WordMod
        g2 == (h[2] + g1 \div LimbMod) % WordMod
        g3 == (h[3] + g2 \div LimbMod) % WordMod
    IN Vec(<<g0 % LimbMod, g1 % LimbMod, g2 % LimbMod, g3 % LimbMod,
             (h[4] + g3 \div LimbMod - LimbMod) % WordMod>>)

\* A final reduction that always keeps h, never h - p.
SelectNoReduce(h, g) == h

\* mask = (g4 >> 31) - 1, wrapping: all ones when g4 is not negative.
\* Every limb is (h & !mask) | (g & mask).
Select(h, g) ==
    LET mask == (g[4] \div 2^(L + 5) - 1) % WordMod
        sl(i) == (h[i] & (WordMod - 1 - mask)) | (g[i] & mask)
    IN Vec(<<sl(0), sl(1), sl(2), sl(3), sl(4)>>)

\* h % 2^128 as four words: word k is h_k >> 6k | h_(k+1) << (26 - 6k).
Repack(h) ==
    LET shift == UnitBits - L
        wl(k) == ((h[k] \div 2^(shift * k)) | (h[k + 1] * 2^(L - shift * k))) % TagMod
    IN Words(<<wl(0), wl(1), wl(2), wl(3)>>)

\* (h + pad) % 2^128 through u64 adds, f >> 32 carried to the next word.
AddPad(w, ss) ==
    LET f0 == w[0] + ss[0]
        f1 == w[1] + ss[1] + f0 \div TagMod
        f2 == w[2] + ss[2] + f1 \div TagMod
        f3 == w[3] + ss[3] + f2 \div TagMod
    IN Words(<<f0 % TagMod, f1 % TagMod, f2 % TagMod, f3 % TagMod>>)

\* self.a[0..3] = the tag words; a[4] keeps its value.
ProcessEndOfStream(acc, ss) ==
    LET h == FullCarry(acc)
        o == AddPad(Repack(Select(h, MinusP(h))), ss)
    IN [i \in Limbs |-> IF i < 4 THEN o[i] ELSE acc[4]]

\* Width checks: an operation the code does with + or * (not wrapping_*)
\* or an "as u32" cast that would need more bits than the code gives it.
BlockOverflows(acc, rr, data, fin) ==
    LET h == AddBlock(acc, data, fin)
        d == Products(h, rr)
        t == CarryChain(d)
    IN \/ \E i \in Limbs : \/ h[i] >= WordMod \/ Times5Limbs(rr)[i] >= WordMod
                           \/ d[i] >= WideMod \/ t[i] >= WideMod
                           \/ t[i] \div LimbMod >= WordMod
       \/ Carry(t[4]) * 5 >= WordMod
       \/ (t[0] % LimbMod) + Carry(t[4]) * 5 >= WordMod
       \/ FoldTop(t)[1] >= WordMod

EndOverflows(acc) ==
    \/ \E i \in Limbs : TopCarry(acc)[i] >= WordMod
    \/ FullCarry(acc)[1] >= WordMod

\* buf with bytes written from index off + 1 on.
Fill(buf, off, bytes) ==
    [i \in 1 .. BS |-> IF off < i /\ i <= off + Len(bytes) THEN bytes[i - off]
                       ELSE buf[i]]

\* The blocks path of update from accumulator acc, buffer buf holding lo
\* units: complete the leftover block (if any) and absorb it, absorb every
\* whole block of the rest, keep the residue in the buffer.
UpdateBlocksState(acc, rr, buf, lo, data, fin) ==
    LET want == IF lo = 0 THEN 0 ELSE BS - lo
        filled == Fill(buf, lo, SubSeq(data, 1, want))
        a1 == IF lo = 0 THEN acc ELSE ProcessBlock(acc, rr, filled, fin)
        rest == SubSeq(data, want + 1, Len(data))
        tail == SubSeq(rest, (Len(rest) \div BS) * BS + 1, Len(rest))
    IN [a |-> AbsorbBlocks(a1, rr, rest, fin),
        buffer |-> Fill(IF lo = 0 THEN buf ELSE filled, 0, tail),
        leftover |-> Len(tail)]

\* The accumulator before the final reduction of finalize: the residue
\* padded with a 1 unit and zeros, absorbed with hibit 0 (is_finalized is
\* already set).
PaddedLast(acc, rr, buf, lo) ==
    LET local == [i \in 1 .. BS |-> CASE i <= lo -> buf[i]
                                        [] i = lo + 1 -> 1
                                        [] OTHER -> 0]
    IN IF lo # 0 THEN ProcessBlock(acc, rr, local, TRUE) ELSE acc

\* The accumulator finalize leaves: the padded last block, then the final
\* reduction into a[0..3].
FinalizeAcc(acc, rr, ss, buf, lo) ==
    ProcessEndOfStream(PaddedLast(acc, rr, buf, lo), ss)

\* write_u32_into(&self.a[0..4]): the tag words.
TagOf(acc) == [i \in 1 .. 4 |-> acc[i - 1]]

\* poly1305(one_time_key, data): init, update(data), finalize.
Poly1305Tag(key, data) ==
    LET k == Initialize(key)
        u == UpdateBlocksState(Vec(<<0, 0, 0, 0, 0>>), k.r, ZeroBuffer, 0, data, FALSE)
    IN TagOf(FinalizeAcc(u.a, k.r, k.s, u.buffer, u.leftover))
=============================================================================
