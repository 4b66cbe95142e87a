---------------------------- MODULE Poly1305Tests ----------------------------
(***************************************************************************)
(* The unit tests of src/hazardous/mac/poly1305.rs as scenarios of the     *)
(* streaming state of Poly1305 and of the one-shot functions.  A test is a *)
(* script of calls; each step is the model's action for that call, and the *)
(* test's assertions, and the unwrap() of a result the test expects to be  *)
(* Ok, are checked on the result.                                          *)
(*                                                                         *)
(* The tests use the all-zero key, [0u8; 16] (one whole block) and         *)
(* b"Tests" (a partial block).  Here the key ranges over Keys, a whole     *)
(* block over Blocks and a partial block over Shorts, the tests' literals  *)
(* among them.  The key-length tests pass slices one unit short of, one   *)
(* unit over, and exactly POLY1305_KEYSIZE to OneTimeKey::from_slice       *)
(* (31, 33 and 32 bytes in the code).                                      *)
(***************************************************************************)
EXTENDS Poly1305, Poly1305Containers

CONSTANTS
    Blocks1,  \* messages of one whole block, as [0u8; 16]
    Shorts    \* messages shorter than a block, as b"Tests"

VARIABLES
    key,      \* the one-time key of the test
    script,   \* the calls of the test
    pc,       \* the index of the next call
    saved,    \* a tag the test keeps for a later comparison
    failed    \* an assertion or an unwrap() has failed

testVars == <<vars, key, script, pc, saved, failed>>

\* The calls of a script.
Upd(d, e) == [op |-> "update", data |-> d, expect |-> e]
Fin(e) == [op |-> "finalize", expect |-> e]
Rst == [op |-> "reset"]
SameAsInit == [op |-> "same_as_init"]
VerifyCall(t, d, e) == [op |-> "verify", tag |-> t, data |-> d, expect |-> e]
KeyFromSlice(n, e) == [op |-> "from_slice", len |-> n, expect |-> e]
OneShotCall(d) == [op |-> "oneshot", data |-> d]

\* The tests, with key k and message d.  "save" keeps the tag finalize
\* returns, "same" asserts it equals the kept one.
Scripts(k, d) ==
  [ test_wrong_key_len |->
        << KeyFromSlice(POLY1305_KEYSIZE - 1, "err"),
           KeyFromSlice(POLY1305_KEYSIZE + 1, "err"),
           KeyFromSlice(POLY1305_KEYSIZE, "ok") >>,
    test_poly1305_oneshot_ok |-> << OneShotCall(d) >>,
    test_bad_key_err_less |-> << KeyFromSlice(POLY1305_KEYSIZE - 1, "err") >>,
    test_poly1305_oneshot_bad_key_err_greater |->
        << KeyFromSlice(POLY1305_KEYSIZE + 1, "err") >>,
    test_poly1305_verify_ok |-> << VerifyCall(Poly1305Tag(k, d), d, "ok") >>,
    test_poly1305_verify_err |->
        << VerifyCall([Poly1305Tag(k, d) EXCEPT ![1] = @ ^^ 1], d, "err") >>,
    double_finalize_err |-> << Upd(d, "ok"), Fin("ok"), Fin("err") >>,
    double_finalize_with_reset_ok |->
        << Upd(d, "ok"), Fin("ok"), Rst, Upd(d, "ok"), Fin("ok") >>,
    double_finalize_with_reset_no_update_ok |->
        << Upd(d, "ok"), Fin("ok"), Rst, Fin("ok") >>,
    update_after_finalize_err |-> << Upd(d, "ok"), Fin("ok"), Upd(d, "err") >>,
    update_after_finalize_with_reset_ok |->
        << Upd(d, "ok"), Fin("save"), Rst, Upd(d, "ok"), Fin("same") >>,
    double_reset_ok |-> << Upd(d, "ok"), Fin("ok"), Rst, Rst >>,
    reset_after_update_correct_resets |-> << Upd(d, "ok"), Rst, SameAsInit >>,
    reset_after_update_correct_resets_and_verify |->
        << Upd(d, "ok"), Rst, Upd(d, "ok"), Fin("same") >> ]

\* The message each test passes: a whole block, or b"Tests".
BlockTests == {"test_wrong_key_len", "test_poly1305_oneshot_ok",
               "test_bad_key_err_less", "test_poly1305_oneshot_bad_key_err_greater",
               "test_poly1305_verify_ok",
               "test_poly1305_verify_err", "double_finalize_err",
               "double_finalize_with_reset_ok",
               "double_finalize_with_reset_no_update_ok",
               "update_after_finalize_err",
               "update_after_finalize_with_reset_ok", "double_reset_ok"}
ShortTests == {"reset_after_update_correct_resets",
               "reset_after_update_correct_resets_and_verify"}
Data(name) == IF name \in BlockTests THEN Blocks1 ELSE Shorts

\* reset_after_update_correct_resets_and_verify compares with the tag of a
\* second state given the same key and message: poly1305(k, d).
TestInit ==
    /\ Init
    /\ \E k \in Keys, name \in BlockTests \cup ShortTests :
       \E d \in Data(name) :
          /\ r = Initialize(k).r /\ s = Initialize(k).s
          /\ key = k
          /\ script = Scripts(k, d)[name]
          /\ saved = IF name = "reset_after_update_correct_resets_and_verify"
                     THEN Poly1305Tag(k, d) ELSE <<>>
    /\ pc = 1
    /\ failed = FALSE

\* Whether a call's result meets what the test expects of it.
Meets(res, e) ==
    CASE e \in {"ok", "save"} -> res.kind # "finalized_err"
      [] e = "err" -> res.kind = "finalized_err"
      [] e = "same" -> res.kind = "tag" /\ res.tag = saved

CallUpdate(st) ==
    /\ st.op = "update"
    /\ \/ UpdatePartial(st.data) \/ UpdateBlocks(st.data) \/ UpdateRejected
    /\ failed' = (failed \/ ~Meets(ret', st.expect))
    /\ UNCHANGED saved

CallFinalize(st) ==
    /\ st.op = "finalize"
    /\ FinalizeOk \/ FinalizeRejected
    /\ failed' = (failed \/ ~Meets(ret', st.expect))
    /\ saved' = IF st.expect = "save" THEN ret'.tag ELSE saved

CallReset(st) ==
    /\ st.op = "reset"
    /\ Reset
    /\ UNCHANGED <<failed, saved>>

\* assert_eq! of every field with those of init(&secret_key).
CheckSameAsInit(st) ==
    /\ st.op = "same_as_init"
    /\ failed' = (failed \/ ~(/\ a = [i \in Limbs |-> 0]
                              /\ r = Initialize(key).r /\ s = Initialize(key).s
                              /\ leftover = 0 /\ buffer = ZeroBuffer
                              /\ is_finalized = FALSE))
    /\ UNCHANGED <<vars, saved>>

\* verify(&tag, &key, data): Ok(true) exactly on equal tags.
CallVerify(st) ==
    /\ st.op = "verify"
    /\ failed' = (failed \/ ((Poly1305Tag(key, st.data) = st.tag) # (st.expect = "ok")))
    /\ UNCHANGED <<vars, saved>>

\* OneTimeKey::from_slice(&[0u8; n]): is_ok() or is_err() as asserted.
CallFromSlice(st) ==
    /\ st.op = "from_slice"
    /\ failed' = (failed \/ (FromSlice([i \in 1 .. st.len |-> 0], POLY1305_KEYSIZE).ok
                             # (st.expect = "ok")))
    /\ UNCHANGED <<vars, saved>>

\* poly1305(&key, data).is_ok(): the Tag::from_slice(&local_buffer).unwrap()
\* of finalize meets a tag of TagSize units.
CallOneShot(st) ==
    /\ st.op = "oneshot"
    /\ failed' = (failed \/ ~FromSlice(Poly1305Tag(key, st.data), TagSize).ok)
    /\ UNCHANGED <<vars, saved>>

TestNext ==
    /\ pc <= Len(script)
    /\ \/ CallUpdate(script[pc]) \/ CallFinalize(script[pc]) \/ CallReset(script[pc])
       \/ CheckSameAsInit(script[pc]) \/ CallVerify(script[pc])
       \/ CallFromSlice(script[pc]) \/ CallOneShot(script[pc])
    /\ pc' = pc + 1
    /\ UNCHANGED <<key, script>>

TestSpec == TestInit /\ [][TestNext]_testVars

----------------------------------------------------------------------------
(* Every assertion of every test holds, and no unwrap() of a test meets an *)
(* Err, for every key and message of the test's kind: OneTimeKey takes   *)
(* slices of exactly POLY1305_KEYSIZE, a reset state is field for field   *)
(* the state init leaves, and a message finalized after a reset has the   *)
(* tag of the same message under a fresh state.                            *)
TestsPass == ~failed
=============================================================================
