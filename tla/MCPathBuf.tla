----------------------------- MODULE MCPathBuf -----------------------------
(***************************************************************************)
(* PathBuf for TLC.  A capacity of 4 bytes of content (a 5-byte array) is *)
(* enough for push to reach the capacity assert with and without a        *)
(* separator, for '/' resets to leave stale bytes past the terminator,    *)
(* and for parent to strip repeated trailing '/'.  One letter suffices:  *)
(* the operations only tell '/' from other bytes, and a stale letter past *)
(* the terminator is still told from NUL.                                 *)
(***************************************************************************)
EXTENDS PathBuf

MC_PATH_MAX == 4
MC_Letters  == {97}                 \* b'a'

(* Names in the info buffers: those created through this crate's paths,   *)
(* and those another writer of the image may have stored.                  *)
MC_NameBytes     == MC_Letters
MC_ForeignNames  == {97, 200}       \* b'a', a non-ASCII byte
=============================================================================
