--------------------------- MODULE MCComponents ---------------------------
(***************************************************************************)
(* Components for TLC: every path of up to 5 bytes over 'a', 'b', '/'. Five*)
(* bytes hold a leading '/', runs of '/' inside a path ("a//a", "a///a"), *)
(* trailing '/' and several segments ("a/a/a").                           *)
(***************************************************************************)
EXTENDS Components

MC_MaxLen   == 5
MC_Letters  == {97, 98}             \* b'a', b'b'
MC_MAX_ITEMS == 6
=============================================================================
