------------------------------ MODULE MCWalk ------------------------------
(***************************************************************************)
(* Walk for TLC: every path of up to 5 bytes over 'a', 'b' and '/', with a *)
(* buffer of the same capacity, so that walking a path of full length     *)
(* fills the buffer to its last byte.                                     *)
(***************************************************************************)
EXTENDS Walk

MC_PATH_MAX == 5
MC_Letters  == {97, 98}             \* b'a', b'b'
=============================================================================
