--------------------------- MODULE MCPoly1305Tests ---------------------------
(***************************************************************************)
(* The unit tests of poly1305.rs over more keys and messages than their    *)
(* literals, at the widths of MCPoly1305.                                  *)
(***************************************************************************)
EXTENDS Poly1305Tests

\* The code's clamp, scaled as in MCPoly1305OneShot.
MCTestClamp == [i \in 0 .. 4 |-> <<63, 60, 57, 51, 7>>[i + 1]]

\* The tests' all-zero key, a key of all ones and an irregular key.
MCTestKeys == { <<0, 0, 0, 0, 0, 0, 0, 0>>,
                <<127, 127, 127, 127, 127, 127, 127, 127>>,
                <<5, 90, 33, 77, 1, 0, 64, 3>> }

\* Whole blocks and partial blocks over the extreme unit values; the
\* literals [0u8; 16] and b"Tests" are one of each.
MCBlocks1 == [1 .. BS -> {0, 127}]
MCShorts == {m \in BoundedSeq({0, 127}, BS - 1) : m # << >>}
MCTestChunks == MCBlocks1 \cup MCShorts
=============================================================================
