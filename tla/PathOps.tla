------------------------------ MODULE PathOps ------------------------------
(***************************************************************************)
(* The pure operations of littlefs2's borrowed `Path` (src/src/path.rs),   *)
(* over the content of a path: the bytes before its NUL terminator.  A     *)
(* path's content is a sequence of byte values (integers); the terminator  *)
(* is appended only where the code looks at it (file_name).                *)
(*                                                                         *)
(* Rust's `Option` is a sequence of length 0 or 1: None is <<>> and        *)
(* Some(p) is <<p>>, so that the empty path <<>> and None stay distinct.   *)
(* `Ordering` is -1 (Less), 0 (Equal), 1 (Greater).                        *)
(***************************************************************************)
EXTENDS Integers, Sequences, SequencesExt

NUL   == 0
SLASH == 47            \* b'/'
ASCII == 0 .. 127

None    == <<>>
Some(x) == <<x>>

Less    == -1
Equal   == 0
Greater == 1

(* Ord for integers (usize::cmp). *)
IntCmp(x, y) == IF x < y THEN Less ELSE IF x > y THEN Greater ELSE Equal

(* 1-based position of the last / first '/' in s, 0 when there is none:    *)
(* the index found by str::rsplit_once('/') / str::split_once('/').        *)
LastSlash(s)  == SelectLastInSeq(s, LAMBDA b : b = SLASH)
FirstSlash(s) == SelectInSeq(s, LAMBDA b : b = SLASH)

(* The bytes of s from position i (1-based) to its end. *)
From(s, i) == SubSeq(s, i, Len(s))

(***************************************************************************)
(* Path::is_empty.                                                         *)
(***************************************************************************)
is_empty(s) == s = <<>>

(***************************************************************************)
(* Byte-slice Ord (<[u8] as Ord>::cmp): lexicographic, a proper prefix     *)
(* first.  CStr's Ord, used by cmp_str, compares to_bytes() with it.       *)
(***************************************************************************)
RECURSIVE SliceCmp(_, _)
SliceCmpReversed(a, b) ==
  CASE a = <<>> /\ b = <<>> -> Equal
    [] a = <<>>             -> Less
    [] b = <<>>             -> Greater
    [] a[1] # b[1]          -> IntCmp(b[1], a[1])
    [] OTHER                -> SliceCmp(Tail(a), Tail(b))
SliceCmp(a, b) ==
  CASE a = <<>> /\ b = <<>> -> Equal
    [] a = <<>>             -> Less
    [] b = <<>>             -> Greater
    [] a[1] # b[1]          -> IntCmp(a[1], b[1])
    [] OTHER                -> SliceCmp(Tail(a), Tail(b))

(* Path::cmp_str: the order of the C strings. *)
cmp_str(this, other) == SliceCmp(this, other)

cmp_lfs_no_tiebreak(this, other) ==
  LET min_len == IF Len(this) < Len(other) THEN Len(this) ELSE Len(other)
  IN  SliceCmp(SubSeq(this, 1, min_len), SubSeq(other, 1, min_len))
cmp_lfs_shorter_first(this, other) ==
  LET min_len == IF Len(this) < Len(other) THEN Len(this) ELSE Len(other)
      c       == SliceCmp(SubSeq(this, 1, min_len), SubSeq(other, 1, min_len))
  IN  IF c # Equal THEN c ELSE IntCmp(Len(this), Len(other))

(* Path::cmp_lfs: compare the common-length prefixes; when one is a        *)
(* prefix of the other, the longer one sorts first.                        *)
cmp_lfs(this, other) ==
  LET min_len == IF Len(this) < Len(other) THEN Len(this) ELSE Len(other)
      c       == SliceCmp(SubSeq(this, 1, min_len), SubSeq(other, 1, min_len))
  IN  IF c # Equal THEN c ELSE IntCmp(Len(other), Len(this))

(***************************************************************************)
(* Path::file_name: rsplit_once('/') over the content with its trailing    *)
(* NUL; no '/' or an empty last segment (just "\0") gives None.            *)
(***************************************************************************)
file_name_nul_as_empty(s) ==
  LET this == s \o <<NUL>>
      i    == LastSlash(this)
  IN  IF is_empty(s) \/ i = 0 \/ From(this, i + 1) = <<>>
      THEN None
      ELSE Some(SubSeq(this, i + 1, Len(this) - 1))

file_name(s) ==
  LET this == s \o <<NUL>>
      i    == LastSlash(this)
  IN  IF is_empty(s) \/ i = 0 \/ From(this, i + 1) = <<NUL>>
      THEN None
      ELSE Some(SubSeq(this, i + 1, Len(this) - 1))

(***************************************************************************)
(* Path::parent: cut at the last '/'; a path whose only '/' is the leading *)
(* one has parent "/"; a trailing '/' is cut and parent is taken again.    *)
(***************************************************************************)
RECURSIVE parent(_)
parent(s) ==
  LET i == LastSlash(s)    \* rposition + 1
  IN  CASE i = 0                 -> None
        [] i = 1 /\ Len(s) # 1   -> Some(<<SLASH>>)
        [] i = Len(s)            -> parent(SubSeq(s, 1, i - 1))
        [] OTHER                 -> Some(SubSeq(s, 1, i - 1))

(***************************************************************************)
(* Ancestors::next on the iterator's remaining `path`: the new remaining   *)
(* path and the item returned.  When the cut-off segment is empty (a       *)
(* trailing '/'), next() calls itself once and drops that call's item,     *)
(* keeping only its effect on the remaining path.                          *)
(***************************************************************************)
RECURSIVE Ancestors_next(_)

Ancestors_next_no_skip(path) ==
  LET i    == LastSlash(path)
      rem  == SubSeq(path, 1, i - 1)
      cut  == IF path[1] = SLASH /\ rem = <<>> THEN <<SLASH>> ELSE rem
  IN  CASE path = <<>>      -> [path |-> <<>>, item |-> None]
        [] path = <<SLASH>> -> [path |-> <<>>, item |-> Some(<<SLASH>>)]
        [] i = 0            -> [path |-> <<>>, item |-> Some(path)]
        [] OTHER            -> [path |-> cut, item |-> Some(path)]

Ancestors_next_keep_leaf(path) ==
  LET i    == LastSlash(path)
      rem  == SubSeq(path, 1, i - 1)
      name == From(path, i + 1)
      cut  == IF path[1] = SLASH /\ rem = <<>> THEN <<SLASH>> ELSE rem
  IN  CASE path = <<>>      -> [path |-> <<>>, item |-> None]
        [] path = <<SLASH>> -> [path |-> <<>>, item |-> Some(<<SLASH>>)]
        [] i = 0            -> [path |-> path, item |-> Some(path)]
        [] name = <<>>      -> [path |-> Ancestors_next(cut).path,
                                item |-> Some(path)]
        [] OTHER            -> [path |-> cut, item |-> Some(path)]

Ancestors_next(path) ==
  LET i    == LastSlash(path)
      rem  == SubSeq(path, 1, i - 1)
      name == From(path, i + 1)
      cut  == IF path[1] = SLASH /\ rem = <<>> THEN <<SLASH>> ELSE rem
  IN  CASE path = <<>>      -> [path |-> <<>>, item |-> None]
        [] path = <<SLASH>> -> [path |-> <<>>, item |-> Some(<<SLASH>>)]
        [] i = 0            -> [path |-> <<>>, item |-> Some(path)]
        [] name = <<>>      -> [path |-> Ancestors_next(cut).path,
                                item |-> Some(path)]
        [] OTHER            -> [path |-> cut, item |-> Some(path)]

(***************************************************************************)
(* Iter::next on the iterator's remaining `path`: a leading '/' is its own *)
(* component; otherwise the text before the first '/' is returned and the  *)
(* text after it remains.                                                  *)
(***************************************************************************)
Iter_next_skip_extra(path) ==
  LET i == FirstSlash(path)
  IN  CASE path = <<>>     -> [path |-> <<>>, item |-> None]
        [] path[1] = SLASH -> [path |-> Tail(path), item |-> Some(<<SLASH>>)]
        [] i = 0           -> [path |-> <<>>, item |-> Some(path)]
        [] OTHER           -> [path |-> From(path, i + 2),
                               item |-> Some(SubSeq(path, 1, i - 1))]

Iter_next_no_root(path) ==
  LET i == FirstSlash(path)
  IN  CASE path = <<>>     -> [path |-> <<>>, item |-> None]
        [] i = 0           -> [path |-> <<>>, item |-> Some(path)]
        [] OTHER           -> [path |-> From(path, i + 1),
                               item |-> Some(SubSeq(path, 1, i - 1))]

Iter_next_no_clear(path) ==
  LET i == FirstSlash(path)
  IN  CASE path = <<>>     -> [path |-> <<>>, item |-> None]
        [] path[1] = SLASH -> [path |-> Tail(path), item |-> Some(<<SLASH>>)]
        [] i = 0           -> [path |-> path, item |-> Some(path)]
        [] OTHER           -> [path |-> From(path, i + 1),
                               item |-> Some(SubSeq(path, 1, i - 1))]

Iter_next(path) ==
  LET i == FirstSlash(path)
  IN  CASE path = <<>>     -> [path |-> <<>>, item |-> None]
        [] path[1] = SLASH -> [path |-> Tail(path), item |-> Some(<<SLASH>>)]
        [] i = 0           -> [path |-> <<>>, item |-> Some(path)]
        [] OTHER           -> [path |-> From(path, i + 1),
                               item |-> Some(SubSeq(path, 1, i - 1))]

=============================================================================
