------------------------------ MODULE HmacTests ------------------------------
(***************************************************************************)
(* The unit tests of src/hazardous/mac/hmac.rs as scenarios of Hmac.  A    *)
(* test is a script of calls on one state; each step is the model's action *)
(* for that call, and the test's assertions, and the unwrap() of a result  *)
(* the test expects to be Ok, are checked on the result.                   *)
(*                                                                         *)
(* The tests use the keys "Jefe" and "Jose" and the messages "what do ya   *)
(* want for nothing?" and "...something?"; here they are any two distinct  *)
(* keys of Keys and any two distinct messages of Chunks.                   *)
(***************************************************************************)
EXTENDS Hmac

VARIABLES
    script,   \* the calls of the test
    pc,       \* the index of the next call
    saved,    \* the tag of the last finalize
    failed    \* an assertion or an unwrap() has failed

testVars == <<vars, script, pc, saved, failed>>

\* The calls of a script.
Upd(d, e) == [op |-> "update", data |-> d, expect |-> e]
Fin(e) == [op |-> "finalize", expect |-> e]
Rst == [op |-> "reset"]
SameAsInit == [op |-> "same_as_init"]
VerifySaved(k, d, e) == [op |-> "verify", key |-> k, data |-> d, expect |-> e]

\* The tests, with key k, message d, another key k2 and another message d2.
Scripts(k, d, k2, d2) ==
  [ finalize_and_verify_true |-> << Upd(d, "ok"), Fin("ok"), VerifySaved(k, d, "ok") >>,
    veriy_false_wrong_data |-> << Upd(d, "ok"), Fin("ok"), VerifySaved(k, d2, "err") >>,
    veriy_false_wrong_secret_key |->
        << Upd(d, "ok"), Fin("ok"), VerifySaved(k2, d, "err") >>,
    double_finalize_err |-> << Upd(d, "ok"), Fin("ok"), Fin("err") >>,
    double_finalize_with_reset_ok |->
        << Upd(d, "ok"), Fin("ok"), Rst, Upd(d2, "ok"), Fin("ok") >>,
    double_finalize_with_reset_no_update_ok |->
        << Upd(d, "ok"), Fin("ok"), Rst, Fin("ok") >>,
    update_after_finalize_err |-> << Upd(d, "ok"), Fin("ok"), Upd(d, "err") >>,
    update_after_finalize_with_reset_ok |->
        << Upd(d, "ok"), Fin("ok"), Rst, Upd(d, "ok") >>,
    double_reset_ok |-> << Upd(d, "ok"), Fin("ok"), Rst, Rst >>,
    reset_after_update_correct_resets |-> << Upd(d2, "ok"), Rst, SameAsInit >> ]

TestNames == DOMAIN Scripts(<<>>, <<>>, <<>>, <<>>)

TestInit ==
    /\ Init
    /\ \E name \in TestNames, k2 \in Keys \ {key}, d \in Chunks \ {<<>>} :
       \E d2 \in Chunks \ {<<>>, d} :
          script = Scripts(key, d, k2, d2)[name]
    /\ pc = 1
    /\ saved = <<>>
    /\ failed = FALSE

\* Whether a call's result meets what the test expects of it.
Meets(res, e) ==
    IF e = "err" THEN res.kind = "finalized_err" ELSE res.kind # "finalized_err"

CallUpdate(st) ==
    /\ st.op = "update"
    /\ Update(st.data) \/ Rejected
    /\ failed' = (failed \/ ~Meets(ret', st.expect))
    /\ UNCHANGED saved

CallFinalize(st) ==
    /\ st.op = "finalize"
    /\ Finalize \/ Rejected
    /\ failed' = (failed \/ ~Meets(ret', st.expect))
    /\ saved' = IF ret'.kind = "tag" THEN ret'.tag ELSE saved

CallReset(st) ==
    /\ st.op = "reset"
    /\ Reset
    /\ UNCHANGED <<failed, saved>>

\* assert_eq! of ipad and is_finalized with those of init(&secret_key).
CheckSameAsInit(st) ==
    /\ st.op = "same_as_init"
    /\ failed' = (failed \/ ~(ipad = PadKeyIo(key).ipad /\ is_finalized = FALSE))
    /\ UNCHANGED <<vars, saved>>

\* verify(&tag.finalize().unwrap(), &key, data): Ok(true) or Err.
CallVerify(st) ==
    /\ st.op = "verify"
    /\ Verify(saved, st.key, st.data)
    /\ failed' = (failed \/ (oneshot'.ok # (st.expect = "ok")))
    /\ UNCHANGED saved

TestNext ==
    /\ pc <= Len(script)
    /\ \/ CallUpdate(script[pc]) \/ CallFinalize(script[pc]) \/ CallReset(script[pc])
       \/ CheckSameAsInit(script[pc]) \/ CallVerify(script[pc])
    /\ pc' = pc + 1
    /\ UNCHANGED script

TestSpec == TestInit /\ [][TestNext]_testVars

----------------------------------------------------------------------------
(* Every assertion of every test holds, and no unwrap() of a test meets an *)
(* Err, for every pair of keys and of messages: verify accepts the tag of  *)
(* the streaming state for the same key and message and rejects it for    *)
(* another key or message, and a reset state has the ipad and             *)
(* is_finalized of init.  The tests compare neither hasher after reset,   *)
(* nor any tag after a reset, so they pass with the reset of the code.     *)
TestsPass == ~failed
=============================================================================
