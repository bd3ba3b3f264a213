----------------------------- MODULE Components -----------------------------
(***************************************************************************)
(* A caller draining Path::iter() (src/src/path.rs, struct Iter) one next()*)
(* call per step and collecting the components it yields, as a `for` loop  *)
(* over iter() does.  The iterator's state is the remaining &str `path`.   *)
(* The collector has room for MAX_ITEMS components (a heapless Vec) and    *)
(* drops what does not fit.                                                *)
(***************************************************************************)
EXTENDS PathOps

CONSTANTS
  MaxLen,     \* longest path the iterator is created from
  Letters,    \* ASCII bytes other than '/' and NUL used in paths
  MAX_ITEMS   \* capacity of the caller's collection of components

ASSUME MaxLen \in Nat \ {0}
ASSUME Letters \subseteq ASCII \ {NUL, SLASH}
ASSUME MAX_ITEMS \in Nat /\ MAX_ITEMS > MaxLen

VARIABLES
  orig,       \* the path iter() was called on
  path,       \* Iter { path }: what is left to split
  started,    \* next() has been called at least once
  out,        \* Option<PathBuf> returned by the last next()
  items       \* the components collected so far, in order

vars == <<orig, path, started, out, items>>

Paths == BoundedSeq(Letters \cup {SLASH}, MaxLen)

InitWithNul ==
  /\ orig \in Paths
  /\ path = orig \o <<NUL>>
  /\ started = FALSE
  /\ out = None
  /\ items = <<>>

(* Path::iter *)
Init ==
  /\ orig \in Paths
  /\ path = orig
  /\ started = FALSE
  /\ out = None
  /\ items = <<>>

(* <Iter as Iterator>::next, and the caller keeping the item it returns. *)
Call ==
  LET r == Iter_next(path)
  IN  /\ path' = r.path
      /\ out' = r.item
      /\ items' = IF r.item # None /\ Len(items) < MAX_ITEMS
                  THEN Append(items, r.item[1]) ELSE items
      /\ started' = TRUE
      /\ UNCHANGED orig

Next == Call

(* The caller's loop calls next() until it returns None. *)
Spec == Init /\ [][Next]_vars /\ WF_vars(Call)

-----------------------------------------------------------------------------
(***************************************************************************)
(* Properties.                                                             *)
(***************************************************************************)

(* The components put back together by undoing next()'s splits: a name  *)
(* was cut off at the '/' that split_once consumed, so a '/' follows it    *)
(* when more comes; a "/" item is the leading '/' next() took off, and     *)
(* stands for itself.                                                      *)
Rejoin(cs) ==
  FoldLeft(LAMBDA acc, c : IF acc = <<>> \/ Last(acc) = SLASH
                           THEN acc \o c ELSE acc \o <<SLASH>> \o c,
           <<>>, cs)

(* The iterator has returned None. *)
Drained == started /\ out = None

TypeOK ==
  /\ orig \in Paths
  /\ path \in Paths
  /\ started \in BOOLEAN
  /\ out \in {None} \cup {Some(c) : c \in Paths}
  /\ items \in Seq(Paths)

(* next() never yields an empty component or one holding a '/' other than *)
(* the root marker "/": it splits at split_once('/') only after taking a  *)
(* leading '/' off as its own item, even in the middle of "a//b".          *)
ComponentsAreNames ==
  \A k \in DOMAIN items :
    items[k] = <<SLASH>> \/ (items[k] # <<>> /\ SLASH \notin ToSet(items[k]))

(* Spec section 8: once the iterator is drained, its components give    *)
(* back the original path byte for byte, every run of '/' inside or at the *)
(* end included, except one: the single '/' split_once consumes after the  *)
(* last name when nothing follows it ("a/" yields only "a", "a//" yields   *)
(* "a" and "/").  No other byte of the path may be lost or invented.       *)
IterRebuildsPath ==
  Drained => orig \in {Rejoin(items), Rejoin(items) \o <<SLASH>>}

(* The caller's loop ends: every path yields finitely many components and *)
(* next() then returns None.                                               *)
IterTerminates == <>Drained

(* file_name (rsplit_once over the string with its NUL) and the last      *)
(* component of iter() (split_once, left to right) name the same segment  *)
(* of every path holding a '/'; a trailing '/' means no file name.        *)
FileNameIsLastComponent ==
  (Drained /\ LastSlash(orig) # 0) =>
    file_name(orig) = IF Last(orig) = SLASH THEN None ELSE Some(Last(items))

(* Spec 4.4: file_name is the final '/'-delimited segment of every        *)
(* non-empty path not ending in '/', a single relative segment included.  *)
FileNameIsFinalSegment ==
  (Drained /\ orig # <<>>) =>
    file_name(orig) = IF Last(orig) = SLASH THEN None ELSE Some(Last(items))

=============================================================================
