----------------------------- MODULE Ancestors -----------------------------
(***************************************************************************)
(* A caller draining Path::ancestors() (src/src/path.rs, struct Ancestors) *)
(* one next() call per step.  The iterator's state is the remaining &str   *)
(* `path`; `out` is what the last call returned and `last` the last item   *)
(* it yielded.  The first path is any path of at most MaxLen bytes.        *)
(***************************************************************************)
EXTENDS PathOps

CONSTANTS
  MaxLen,     \* longest path the iterator is created from
  Letters     \* ASCII bytes other than '/' and NUL used in paths

ASSUME MaxLen \in Nat \ {0}
ASSUME Letters \subseteq ASCII \ {NUL, SLASH}

VARIABLES
  orig,       \* the path ancestors() was called on
  path,       \* Ancestors { path }: what is left to walk
  started,    \* next() has been called at least once
  out,        \* Option<PathBuf> returned by the last next()
  last,       \* the last Some item returned (None before the first)
  yields      \* how many calls returned Some

vars == <<orig, path, started, out, last, yields>>

Paths == BoundedSeq(Letters \cup {SLASH}, MaxLen)

InitWithNul ==
  /\ orig \in Paths
  /\ path = orig \o <<NUL>>
  /\ started = FALSE
  /\ out = None
  /\ last = None
  /\ yields = 0

(* Path::ancestors *)
Init ==
  /\ orig \in Paths
  /\ path = orig
  /\ started = FALSE
  /\ out = None
  /\ last = None
  /\ yields = 0

(* <Ancestors as Iterator>::next, with the call it makes to itself on a    *)
(* trailing '/'.                                                           *)
Call ==
  LET r == Ancestors_next(path)
  IN  /\ path' = r.path
      /\ out' = r.item
      /\ last' = IF r.item = None THEN last ELSE r.item
      /\ yields' = IF r.item = None THEN yields ELSE yields + 1
      /\ started' = TRUE
      /\ UNCHANGED orig

Next == Call

(* The caller calls next() again and again; once the iterator is empty a  *)
(* call changes nothing.                                                   *)
Spec == Init /\ [][Next]_vars

-----------------------------------------------------------------------------
(***************************************************************************)
(* Properties.                                                             *)
(***************************************************************************)

TypeOK ==
  /\ orig \in Paths
  /\ path \in Paths
  /\ started \in BOOLEAN
  /\ out \in {None} \cup {Some(p) : p \in Paths}
  /\ last \in {None} \cup {Some(p) : p \in Paths}
  /\ yields \in Nat

(* The test assert_ancestor_parent: the first call returns the path itself *)
(* (nothing for the empty path), and every later call returns the parent() *)
(* of what the call before returned, None after None.  The iterator cuts   *)
(* at rsplit_once and recurses on a trailing '/', parent() cuts at         *)
(* rposition and recurses the same way: two codings of one walk.           *)
AncestorsFollowParent ==
  [][ out' = IF ~started
             THEN IF orig = <<>> THEN None ELSE Some(orig)
             ELSE IF out = None THEN None ELSE parent(out[1]) ]_vars

(* Every path's ancestors run out, and soon: next() returns Some at most   *)
(* once per '/' in the path plus once, whatever runs of '/' the path       *)
(* holds; the iterator is therefore finite and a caller's loop ends.       *)
AncestorsEnd ==
  yields <= Cardinality({i \in DOMAIN orig : orig[i] = SLASH}) + 1

(* Spec, testable properties: on an absolute path the last ancestor        *)
(* yielded before the iterator ends is the root "/".                       *)
AncestorsEndAtRoot ==
  (started /\ out = None /\ orig # <<>> /\ orig[1] = SLASH)
    => last = Some(<<SLASH>>)

(* Spec 4.4: parent never returns a path with a trailing empty segment:  *)
(* no ancestor after the first, each the parent() of the one before, ends *)
(* in '/' unless it is the root.                                           *)
ParentHasNoTrailingSlash ==
  (yields > 1 /\ out # None) => (out[1] = <<SLASH>> \/ Last(out[1]) # SLASH)

=============================================================================
