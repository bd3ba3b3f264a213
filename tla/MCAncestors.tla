---------------------------- MODULE MCAncestors ----------------------------
(***************************************************************************)
(* Ancestors for TLC: every path of up to 6 bytes over 'a', 'b', '/'.  Six*)
(* bytes hold every mix of a leading '/', runs of two and three '/', and  *)
(* trailing '/' after one or two segments ("/a//", "a/a/", "///").        *)
(***************************************************************************)
EXTENDS Ancestors

MC_MaxLen  == 6
MC_Letters == {97, 98}              \* b'a', b'b'
=============================================================================
