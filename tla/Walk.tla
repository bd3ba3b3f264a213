------------------------------- MODULE Walk -------------------------------
(***************************************************************************)
(* Two components of src/src/path.rs used together, the way a caller walks *)
(* down a path one directory at a time:                                    *)
(*                                                                         *)
(*     let mut cur = PathBuf::new();                                       *)
(*     for c in path.iter() { cur.push(&c); ... }                          *)
(*                                                                         *)
(* The Iter state `it` comes from Components' next() (PathOps!Iter_next),  *)
(* the buffer (buf, len) is PathBuf's, changed by its own push.  `walked`  *)
(* records the path held after each push.                                  *)
(***************************************************************************)
EXTENDS PathOps

CONSTANTS
  PATH_MAX,   \* consts::PATH_MAX
  Letters     \* ASCII bytes other than '/' and NUL used in paths

VARIABLES
  orig,       \* the path walked
  it,         \* Iter { path }: what iter() has left
  buf,        \* cur.buf
  len,        \* cur.len
  panicked,   \* a push assert failed
  overrun,    \* a push wrote outside cur.buf
  walked      \* the content of cur after each push, in order

vars == <<orig, it, buf, len, panicked, overrun, walked>>

PB == INSTANCE PathBuf WITH call <- [op |-> "push", arg |-> <<>>], NameBytes <- Letters

Paths == BoundedSeq(Letters \cup {SLASH}, PATH_MAX)

(* path.iter() and PathBuf::new() *)
Init ==
  /\ orig \in Paths
  /\ it = orig
  /\ buf = PB!Zeroed
  /\ len = 1
  /\ panicked = FALSE
  /\ overrun = FALSE
  /\ walked = <<>>

(* One turn of the loop: next() yields c, and cur.push(&c). *)
Step ==
  LET r == Iter_next(it)
      w == PB!PushInto(buf, len, r.item[1])
  IN  /\ ~panicked
      /\ r.item # None
      /\ it' = r.path
      /\ PB!Assign(w)
      /\ walked' = Append(walked, PB!Content(w.buf, w.len))
      /\ UNCHANGED orig

(* The loop has ended (next() returned None) or a push panicked. *)
Done ==
  /\ it = <<>> \/ panicked
  /\ UNCHANGED vars

Next == Step \/ Done

Spec == Init /\ [][Next]_vars

-----------------------------------------------------------------------------
(***************************************************************************)
(* Properties.                                                             *)
(***************************************************************************)

(* The items Ancestors::next yields from p, in order. *)
RECURSIVE AncestorSeq(_)
AncestorSeq(p) ==
  LET r == Ancestors_next(p)
  IN  IF r.item = None THEN <<>> ELSE <<r.item[1]>> \o AncestorSeq(r.path)

(* A path with no run of '/' and no trailing '/' (other than the root).   *)
Simple(p) ==
  /\ \A i \in 1 .. Len(p) - 1 : ~(p[i] = SLASH /\ p[i + 1] = SLASH)
  /\ p = <<SLASH>> \/ p = <<>> \/ Last(p) # SLASH

(* Pushing the components of any path that fits, one by one, onto an     *)
(* empty PathBuf never trips push's capacity assert nor writes outside   *)
(* the buffer: a '/' component resets, a name adds at most the bytes the *)
(* iterator consumed for it.                                               *)
WalkNeverPanics == ~panicked /\ ~overrun

(* On a simple path the walk passes through exactly the ancestors of the *)
(* path, from the outermost to the path itself: iter() with push and      *)
(* ancestors() (with its self-call) split the path at the same places.   *)
WalkVisitsAncestors ==
  (it = <<>> /\ Simple(orig)) => walked = Reverse(AncestorSeq(orig))

=============================================================================
