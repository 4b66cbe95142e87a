------------------------- MODULE Poly1305Containers -------------------------
(***************************************************************************)
(* The OneTimeKey and Tag containers of src/hazardous/mac/poly1305.rs.     *)
(* Both are made by macros that are not in src/ (construct_secret_key!,    *)
(* construct_tag!); the file only gives their sizes, POLY1305_KEYSIZE and  *)
(* POLY1305_BLOCKSIZE.  from_slice is modelled from the spec: a slice of  *)
(* exactly the declared size is copied, any other length fails with        *)
(* InvalidLength.  Sizes are in units, as everywhere in the Poly1305       *)
(* modules (a unit stands for 4 bytes).                                    *)
(***************************************************************************)
EXTENDS Poly1305Common

\* (OneTimeKey, POLY1305_KEYSIZE): 32 bytes, two blocks.
POLY1305_KEYSIZE == 2 * POLY1305_BLOCKSIZE

\* (Tag, POLY1305_BLOCKSIZE): 16 bytes, one block.
TagSize == POLY1305_BLOCKSIZE

\* A from_slice that zero-pads a short slice, as construct_hmac_key! does
\* for HMAC keys.
FromSliceAtMost(slice, size) ==
    IF Len(slice) <= size
    THEN [ok |-> TRUE, bytes |-> slice \o [i \in 1 .. (size - Len(slice)) |-> 0]]
    ELSE [ok |-> FALSE, bytes |-> <<>>]

\* OneTimeKey::from_slice(slice) and Tag::from_slice(slice): Ok with a copy
\* of the slice, or Err(InvalidLength).
FromSlice(slice, size) ==
    IF Len(slice) = size
    THEN [ok |-> TRUE, bytes |-> slice]
    ELSE [ok |-> FALSE, bytes |-> <<>>]
=============================================================================
