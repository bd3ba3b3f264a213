----------------------------- MODULE MCPathCmp -----------------------------
(***************************************************************************)
(* PathCmp for TLC: paths of up to 3 bytes over 'a', 'b' and '/' (40      *)
(* paths, 64000 triples).  Two letters give strict differences in both    *)
(* directions; '/' (47) sorts below both letters; three bytes give        *)
(* prefix chains of length three for transitivity.                        *)
(***************************************************************************)
EXTENDS PathCmp

MC_MaxLen  == 3
MC_Letters == {97, 98}              \* b'a', b'b'
=============================================================================
