---------------------------- MODULE MCValidation ----------------------------
(***************************************************************************)
(* Validation for TLC: a capacity of 3 bytes and every byte slice of up   *)
(* to 5 bytes over NUL, '/', 'a' and one non-ASCII byte (1365 slices):    *)
(* slices of exactly PATH_MAX and PATH_MAX + 1 content bytes, with and    *)
(* without a trailing NUL, and NUL and non-ASCII bytes at every place.    *)
(***************************************************************************)
EXTENDS Validation

MC_PATH_MAX == 3
MC_Letters  == {97}                 \* b'a'
MC_Bytes    == {NUL, SLASH, 97, 200}
=============================================================================
