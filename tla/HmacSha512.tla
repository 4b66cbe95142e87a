----------------------------- MODULE HmacSha512 -----------------------------
(***************************************************************************)
(* SHA-512 as HMAC uses it, and HMAC-SHA512 as RFC 2104 defines it.        *)
(*                                                                         *)
(* SHA-512 is the sha2 crate's streaming hasher.  What HMAC's correctness *)
(* depends on is which inputs reach which hasher and in which order, so a  *)
(* hasher is the sequence of everything fed to it since Sha512::default(), *)
(* input appends to it, and result() is an injective digest of that        *)
(* sequence (no two inputs share a digest).  A key-derived 128-byte pad    *)
(* block is one symbol, Ipad(k) or Opad(k).                                *)
(*                                                                         *)
(* The pure steps of src/hazardous/mac/hmac.rs built on it are here too:  *)
(* pad_key_io, the tag of finalize and the one-shot hmac().               *)
(***************************************************************************)
EXTENDS Sequences

\* key ^ 0x36 and key ^ 0x5C over a whole block.
Ipad(k) == <<"ipad", k>>
Opad(k) == <<"opad", k>>

\* Sha512::default() is the empty hasher; result() its digest.
Fresh == <<>>
Result(hasher) == <<"digest", hasher>>

\* RFC 2104 over SHA-512: H(K ^ opad || H(K ^ ipad || m)).
HMAC(k, m) == Result(<<Opad(k), Result(<<Ipad(k)>> \o m)>>)

\* init + pad_key_io: the ipad buffer, and each hasher fed its pad block.
PadKeyIo(k) ==
    [ipad |-> Ipad(k), ipad_hasher |-> <<Ipad(k)>>, opad_hasher |-> <<Opad(k)>>]

\* finalize's tag: the inner digest fed to a clone of opad_hasher.
OuterTag(opad_h, ipad_h) == Result(Append(opad_h, Result(ipad_h)))

\* hmac(secret_key, data): init, update, finalize on a state of its own.
HmacTag(k, data) ==
    LET st == PadKeyIo(k)
    IN OuterTag(st.opad_hasher, st.ipad_hasher \o data)
=============================================================================
