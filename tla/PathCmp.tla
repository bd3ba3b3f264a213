------------------------------ MODULE PathCmp ------------------------------
(***************************************************************************)
(* The two orders on paths, Path::cmp_str and Path::cmp_lfs                *)
(* (src/src/path.rs), checked over every triple of paths of at most       *)
(* MaxLen bytes.  The state is just the triple; nothing changes it.  The  *)
(* orders are compared with reference definitions written independently  *)
(* of the code: string order is lexicographic with the end of a path      *)
(* below every byte, littlefs's directory order the same with the end of  *)
(* a path above every byte.                                               *)
(***************************************************************************)
EXTENDS PathOps

CONSTANTS
  MaxLen,     \* longest path compared
  Letters     \* ASCII bytes other than '/' and NUL used in paths

ASSUME MaxLen \in Nat \ {0}
ASSUME Letters \subseteq ASCII \ {NUL, SLASH}

VARIABLES x, y, z

vars == <<x, y, z>>

Paths == BoundedSeq(Letters \cup {SLASH}, MaxLen)

Init == x \in Paths /\ y \in Paths /\ z \in Paths

(* Comparing has no effect on the paths. *)
Next == UNCHANGED vars

Spec == Init /\ [][Next]_vars

-----------------------------------------------------------------------------
(***************************************************************************)
(* Reference orders.                                                       *)
(***************************************************************************)

(* A value past every byte, marking the end of a path. *)
END == 256

(* Lexicographic order by the first differing position, a proper prefix  *)
(* first. *)
RefLex(a, b) ==
  LET n == IF Len(a) < Len(b) THEN Len(a) ELSE Len(b)
      D == {i \in 1 .. n : a[i] # b[i]}
  IN  IF D = {} THEN IntCmp(Len(a), Len(b))
      ELSE IntCmp(a[Min(D)], b[Min(D)])

RefStr(a, b) == RefLex(a, b)
RefLfs(a, b) == RefLex(a \o <<END>>, b \o <<END>>)

(* Ordering is a strict total order. *)
IsTotalOrder(cmp(_, _)) ==
  /\ (cmp(x, y) = Equal) <=> (x = y)
  /\ cmp(x, y) = -cmp(y, x)
  /\ (cmp(x, y) = Less /\ cmp(y, z) = Less) => cmp(x, z) = Less

-----------------------------------------------------------------------------
(***************************************************************************)
(* Properties.                                                             *)
(***************************************************************************)

(* cmp_str is the order of strings and cmp_lfs the directory order of    *)
(* littlefs (littlefs#923): the common-prefix slice compare, and on a     *)
(* tie the longer path first.                                             *)
CmpMatchesReference ==
  /\ cmp_str(x, y) = RefStr(x, y)
  /\ cmp_lfs(x, y) = RefLfs(x, y)

(* Both orders are total orders, so sorted containers and binary search  *)
(* over directory listings may use either.                               *)
CmpAreTotalOrders ==
  /\ IsTotalOrder(cmp_str)
  /\ IsTotalOrder(cmp_lfs)

(* Spec, testable properties: the two orders agree on any two paths      *)
(* neither of which is a prefix of the other, and disagree on every      *)
(* strict prefix pair (shorter first versus longer first).               *)
CmpDisagreeExactlyOnPrefixes ==
  IF IsStrictPrefix(x, y) \/ IsStrictPrefix(y, x)
  THEN cmp_str(x, y) # cmp_lfs(x, y)
  ELSE cmp_str(x, y) = cmp_lfs(x, y)

=============================================================================
