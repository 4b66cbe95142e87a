# TLA+ models of orion's MAC primitives

This directory models the two files of `src/`:

- `src/src/hazardous/mac/poly1305.rs`: Poly1305 (RFC 8439).
- `src/src/hazardous/mac/hmac.rs`: HMAC-SHA512 (RFC 2104).

Both are synchronous, single-threaded streaming states owned by one caller. Nothing runs concurrently and nothing is persisted, so what is hard about them is this:
- the order of the calls: `init`, `update`*, `finalize`, `reset`, drop;
- the buffering of partial blocks;
- the limb arithmetic of Poly1305, whose correctness depends on carries and headroom that no unit test reaches systematically.

## Inventory

| Part | State (code) | Operations | Module |
|---|---|---|---|
| Poly1305 limb arithmetic | locals of `process_block`, `process_end_of_stream`; `r`, `s` from `initialize` | `initialize`, `process_block`, `process_end_of_stream` | `Poly1305Common`, `Poly1305Arith` |
| Poly1305 streaming state | `a[5]`, `r[5]`, `s[4]`, `leftover`, `buffer[16]`, `is_finalized` | `init`, `update`, `finalize`, `reset`, `Drop` | `Poly1305` (refines `Poly1305Spec`) |
| Poly1305 one-shot / verify | none (builds a fresh state) | `poly1305`, `verify` | `Poly1305OneShot` |
| HMAC streaming state | `ipad[128]`, `opad_hasher`, `ipad_hasher`, `is_finalized` | `init` + `pad_key_io`, `update`, `finalize`, `reset`, `Drop` | `Hmac`, `HmacSha512` (refines `HmacSpec`) |
| HMAC one-shot / verify | none | `hmac`, `verify` | `Hmac` |
| SHA-512 | `sha2` crate | `input`, `result`, `clone`, `default` | abstracted (injective digest) |
| Key and tag containers | macros outside `src/` | construction, generation, zeroize, `==` | `Poly1305Containers` (`OneTimeKey`/`Tag::from_slice`, from the spec) |
| Debug formatting | none | `impl Debug` (`{:?}`) | not modelled (no state change) |
| Constant-time comparison | — | `Tag == Tag` | not modelled (timing) |
| Unit tests (`#[test]`) | locals of each test | the calls each test makes | `Poly1305Tests`, `HmacTests` |

How the parts interact:
- Each streaming state owns its key material.
- The one-shot functions build, use and drop a state of their own.
- HMAC's state composes two SHA-512 hashers: the outer one is fed `key ^ opad` once at init and is only ever cloned; the inner one is fed `key ^ ipad` and the data.

## Modules

- **`Poly1305Common`** holds the widths. TLC's integers are 32-bit, so the model keeps the shape of every width of the code and scales its size with one constant `LIMB_BITS` (26 in the code, 6 in the runs):

  | Quantity | Model | Code |
  |---|---|---|
  | limb | 6 bits | 26 bits |
  | u32 | 12 bits | 32 bits |
  | u64 | 24 bits | 64 bits |
  | block | 28 bits | 128 bits |
  | prime | 2^30 − 5 | 2^130 − 5 |

  A *unit* is a quarter block (4 bytes of the code), so `leftover` counts 0..3 units instead of 0..15 bytes. `LeNum` is `LittleEndian::read_u32` over units.
- **`Poly1305Arith`** holds the pure computations, shared by the streaming state and the one-shot functions.
  - `Initialize` is the key read and clamp.
  - `process_block` is one operator per step of the code, each returning the five values the code holds after that step: `AddBlock` (`h += m` with hibit), `Times5Limbs` (`s_i = r_i*5`), `Products` (the five u64 sums), `CarryChain` (`d_j += c`) and `FoldTop` (`h0 += c*5; h1 += c`). `ProcessBlock` composes them.
  - `process_end_of_stream` is split the same way: `TopCarry`/`FullCarry` (full carry), `MinusP` (wrapping `g = h + 5 - 2^130`), `Select` (sign-bit mask), `Repack` (`h mod 2^128` into four words) and `AddPad` (`+ s` through u64 adds).
  - `UpdateBlocksState` is the block path of `update` (top-up, the `while` loop, the residue). `FinalizeAcc` is the padding and final reduction of `finalize`. `Poly1305Tag` is `poly1305()`: `init`, one `update`, `finalize`.
  - `BlockOverflows` and `EndOverflows` compare the intermediates with the code's word widths.
- **`Poly1305`** is the streaming state.
  - Variables are the struct's fields, plus `ret` (what the last call returned), `dropped`, and the history variable `msg` (units passed since init or reset).
  - Actions:
    - `Init` is `init` + `initialize`.
    - `UpdateRejected`, `UpdatePartial` and `UpdateBlocks` are the three exits of `update`: after finalize, the early return while the leftover buffer is not full, and the path that absorbs whole blocks and keeps a residue.
    - `FinalizeRejected` and `FinalizeOk` are the two exits of `finalize`.
    - `Reset` and `Drop` are the remaining operations.
- **`Poly1305Containers`** models `OneTimeKey::from_slice` and `Tag::from_slice` from the spec, because the macros are not in `src/`: a slice of exactly `POLY1305_KEYSIZE` (two blocks) or `POLY1305_BLOCKSIZE` units is copied, and any other length fails with `InvalidLength`. The sizes come from the macro invocations in `poly1305.rs`.
- **`Poly1305OneShot`** models `poly1305()` and `verify()`. Each call builds and drops a state of its own, so the only variable is what the last call returned, and a behaviour is one call.
- **`Poly1305Spec`** is the abstract promise: `finalize` returns the RFC 8439 MAC, computed on whole numbers, of the concatenation of all update payloads since init/reset. Calls after finalize fail, `reset` starts a new message under the same key, and drop wipes the key. `Poly1305` implements it under the refinement mapping `rv <- Value(r)`, `sv <- LeNum(s)`, `finalized <- is_finalized`.
- **`HmacSha512`** is the SHA-512 abstraction and RFC 2104's HMAC. A hasher is the sequence of what was fed to it, and `result()` is an injective digest `<<"digest", seq>>`. This is exact for what HMAC's correctness depends on: which bytes reach which hasher, in which order.
- **`HmacSpec`** is the HMAC promise on whole messages: finalize returns `HMAC(key, msg)` for the bytes since init or reset, calls after finalize fail, and reset starts a new message under the same key in any state.
- **`Hmac`**:
  - Variables: the struct's fields, plus `ret`, `dropped`, the history variables `key` and `msg`, and `oneshot` (the result of the last `hmac`/`verify` call).
  - Actions: `Init` (with `PadKeyIo`), `Update`, `Rejected` (both `is_finalized` early returns), `Finalize` (swap + clone), `Reset`, `Drop`, `OneShot` and `Verify`.
  - `SpecResetAfterFinalize` is the same system with callers that reset only finalized states, the usage every test of the crate follows.
  - The refinement mapping onto `HmacSpec` takes the key from the pad block `opad_hasher` was fed, and the message, until finalize, from what `ipad_hasher` holds after `key ^ ipad`.
- **`Poly1305Tests`** and **`HmacTests`** model the `#[test]` functions of each file. A test is a script of calls, and the variables `script`, `pc`, `saved` (a tag kept for a later `==`) and `failed` drive it. Each step is the model's action for the call. `unwrap()`, `is_err()`, `assert_eq!` and `==` are checked on the result. The literal keys and messages are generalised to small sets that contain them.
- **`MCPoly1305`**, **`MCPoly1305OneShot`**, **`MCPoly1305Tests`**, **`MCHmac`** and **`MCHmacTests`** supply the constants for TLC.

## Runs

| Run | Cfg | Expect | Checks |
|---|---|---|---|
| `poly1305_refinement` | `MCPoly1305.cfg` | pass | `TypeOK`, `ImplementsPoly1305Spec` |
| `poly1305_headroom` | `MCPoly1305Headroom.cfg` | pass | `Headroom` |
| `poly1305_oneshot` | `MCPoly1305OneShot.cfg` | pass | `OneShotIsMac` |
| `poly1305_tests` | `MCPoly1305Tests.cfg` | pass | `TestsPass` |
| `hmac_reset_after_finalize` | `MCHmac.cfg` | pass | `TypeOK`, `ImplementsHmacSpec` |
| `hmac_reset_unfinalized` | `MCHmacReset.cfg` | violation | `TagIsHmac` |
| `hmac_drop_wipes` | `MCHmacDrop.cfg` | violation | `DropWipesKeyMaterial` |
| `hmac_tests` | `MCHmacTests.cfg` | pass | `TestsPass` |

- **`ImplementsPoly1305Spec`** checks the whole streaming state plus the limb arithmetic against the RFC. It covers every split of a message into update calls, the leftover boundary cases, the hibit of the final block (which depends on `is_finalized` being set first), stale buffer bytes and reset. Its inputs never leave the accumulator in [p, 2^130), so the branch of the final reduction that subtracts p is checked by `OneShotIsMac` instead.
- **`Headroom`** checks, in every reachable state and for every block the next update or finalize could absorb, that no plain (non-wrapping) addition, multiplication or `as u32` cast of `process_block` or of the full carry exceeds its word. The full carry is checked on the accumulator as it is and on the accumulator after finalize has absorbed the padded last block (`PaddedLast`).
- **`OneShotIsMac`** checks `poly1305()` and `verify()` against the RFC MAC on whole numbers, with r read as one number and clamped by `RfcClamp`, which is written from the RFC's description (clear the top bits of r[3], r[7], r[11], r[15] and the low bits of r[4], r[8], r[12]) and not from the code's masks. It covers:
  - every message of up to 9 units in a single `update` call, so the `while` loop of `update` runs twice, which no streaming run reaches;
  - that the five per-limb masks of `initialize`, the code's masks scaled to the model, together are the RFC clamp;
  - a key with r = 3 and a block m with (m + 2^28)·3 = p + 4. The accumulator then ends in [p, 2^130), and the select of `process_end_of_stream` must take g = h − p. The mutant `SelectNoReduce` is caught only by this block.
- **`ImplementsHmacSpec`** checks, for callers that reset only after finalize, that every call of the streaming HMAC state returns what `HmacSpec` returns. The inner hasher must hold exactly `key ^ ipad` and the message at every step, not only at finalize.
- `hmac()` and `verify()` are actions of `Hmac` and fire in the runs, but no property is stated about them: over the SHA-512 abstraction, the tag they compute is `HMAC(key, data)` by definition.
- **`TagIsHmac`** checks that every finalize returns HMAC(key, data since init/reset). The violation run checks it with unrestricted callers.
- **`TestsPass`** checks that every assertion and every `unwrap()` of the crate's tests holds in the model.

What the test runs show about the tests:
- Every Poly1305 test uses the all-zero one-time key. Then r = 0 and s = 0, so every tag is 0 whatever the state holds. With that key alone the tests pass even on a `reset` that keeps the accumulator `a` (the mutant `ResetKeepsAcc`). Under the other keys of the run, `update_after_finalize_with_reset_ok` catches it.
- No HMAC test compares a tag produced after a `reset`, and `reset_after_update_correct_resets` compares only `ipad` and `is_finalized`, not the hashers. So the HMAC tests pass on the model of the code, with its reset defect. They also pass with a `finalize` that does not swap in a fresh inner hasher or that feeds `opad_hasher` itself: the mutants `FinalizeNoSwap` and `FinalizeNoClone` leave `TestsPass` true.

Findings (see `PROJECT.json`):
- `Hmac::reset` does not replace the inner hasher. `init; reset; finalize`, `update; reset`, or `reset; reset` each feed `key ^ ipad` twice, and the next tag is wrong. The spec promises "reset ≡ reinit" and an idempotent reset.
- `impl Drop for Hmac` clears only `ipad`, while the spec says destruction zeroizes all secret material.

## Bounds and why they are enough

- **Poly1305.**
  - Unit values are {0, 127}, the extremes that maximise every carry.
  - Update calls take up to 6 units. That is enough to top up a leftover of 3, absorb a whole block, and keep a residue in one call.
  - Messages are up to 9 units: two full blocks and a partial one.
  - Two keys:
    - one with r and s all ones, so every limb and every pad word carries;
    - one irregular.
  - The clamp masks are all ones. This is a superset of the code's clamped r, so headroom is checked pessimistically.
  - At 6-bit limbs the carry slack of limb 1 is relatively larger than at 26 bits, so the headroom margins of the model are no looser than the code's.
  - The headroom run uses only single units and whole blocks per call. It reaches the same 18,990 states as the full set of chunks, in half the time.
  - Both Poly1305 runs use `BoundedSpec`, which is `Next` with the message bound on the next state. No state past the bound is generated, so the costly invariant is evaluated only on states within the bound.
- **Poly1305 one-shot.**
  - Every message of up to 9 units over {0, 127}: 1023 messages, some with two whole blocks and a residue.
  - Four keys: the two of `MCPoly1305`, one with r = 0, and one with r = 3 for the block that ends in [p, 2^130).
  - The scaled clamp: the top bit of every unit and the low bit of units 1..3 are cleared, as the RFC clears the top 4 bits of bytes 3, 7, 11, 15 and the low 2 bits of bytes 4, 8, 12.
  - `verify()` is checked against the right tag of three messages under every key, and against a tag that matches none of them.
- **Tests.**
  - The Poly1305 tests run under three keys (the tests' all-zero key among them) and every whole block and every partial block of 1 to 3 units over {0, 127}. A unit is 4 bytes, so b"Tests" (5 bytes) is represented by the partial blocks.
  - The HMAC tests run over every pair of distinct keys and of distinct non-empty messages of `MCHmac`.
- **HMAC.**
  - Two keys and two bytes as model values, with symmetry. Symmetry is sound because no property names a key or a byte.
  - Chunks of up to 2 bytes.
  - At most 5 symbols in the inner hasher and 4 bytes in a message. The shortest counterexample needs 2 calls.

## Fairness and liveness

The library never acts on its own. Every operation is a synchronous call made by its owner, so no "eventually" holds of the states themselves that the caller does not decide. No specification has fairness, and no run checks liveness. The one place where the code drives itself, a `#[test]` body, runs its calls in sequence, and each call of the model is enabled in every state the earlier calls leave: its guards (`is_finalized` or not) are complementary. So its completion follows from the shape of the guards, and it is not stated as a property.

Every run sets `CHECK_DEADLOCK FALSE`, and in each case the code stops too:
- in the streaming runs, nothing is enabled after drop, because the value is gone;
- in the one-shot run, a behaviour is one call;
- in the test runs, a behaviour ends with the test's last call.

## Not modelled

- **SHA-512 internals** come from the `sha2` crate.
- **The container macros** (`construct_secret_key!`, `construct_hmac_key!`, `construct_tag!`) are not in `src/`. `OneTimeKey::from_slice` and `Tag::from_slice` are modelled from the spec (`Poly1305Containers`). The HMAC `SecretKey` is taken as `pad_key_io` receives it, already padded to the block. `generate()` draws from the OS RNG, which is I/O. Zeroize on drop and the constant-time `==` are about memory and timing, which the states cannot tell apart.
- **Timing.** Constant-time comparison is about timing.
- **`Debug`** of both states changes no state and writes constant text plus `is_finalized`. A property about it could only restate its format string.
- **The `Err(UnknownCryptoError)` length check of `process_block`** is unreachable: callers always pass 16 bytes, and the model passes 4 units.

## Plan for later work

1. Model an HMAC whose `reset` replaces the inner hasher, as the spec asks, and check it against `HmacSpec` for unrestricted callers.
