----------------------------- MODULE MCHmacTests -----------------------------
(***************************************************************************)
(* The unit tests of hmac.rs over the keys and messages of MCHmac.         *)
(***************************************************************************)
EXTENDS HmacTests, MCHmac
=============================================================================
