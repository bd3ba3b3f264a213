----------------------------- MODULE Validation -----------------------------
(***************************************************************************)
(* The constructors that turn raw bytes into paths (src/src/path.rs):      *)
(* Path::from_bytes_with_nul and from_cstr, the const from_str_with_nul    *)
(* behind the path! macro, From<&[u8]> for PathBuf, and the serde          *)
(* Serialize / Deserialize of PathBuf.  Each is an operator from its input *)
(* to an outcome [res, path]: res is "Ok", the error returned, or "Panic"  *)
(* for a failed assert (a compile error in const evaluation).              *)
(*                                                                         *)
(* The state is one raw byte slice `bytes` and one valid path `p`, any of  *)
(* their values; nothing changes them.                                     *)
(***************************************************************************)
EXTENDS PathOps

CONSTANTS
  PATH_MAX,   \* consts::PATH_MAX
  Letters,    \* ASCII bytes other than '/' and NUL used in paths
  Bytes       \* byte values of the raw inputs

ASSUME PATH_MAX \in Nat \ {0}
ASSUME Letters \subseteq ASCII \ {NUL, SLASH}

VARIABLES
  bytes,      \* a byte slice handed to a constructor
  p           \* the content of a valid PathBuf

vars == <<bytes, p>>

Paths     == BoundedSeq(Letters \cup {SLASH}, PATH_MAX)
RawInputs == BoundedSeq(Bytes, PATH_MAX + 2)

Ok(c)    == [res |-> "Ok", path |-> c]
Fail(e)  == [res |-> e, path |-> <<>>]

(* The content satisfies Path's contract: ASCII, no NUL, not too long. *)
IsPath(c) == ToSet(c) \subseteq ASCII \ {NUL} /\ Len(c) <= PATH_MAX

(* CStr::from_bytes_with_nul: the last byte is NUL and no other is. *)
IsCStr(bs) == bs # <<>> /\ Last(bs) = NUL /\ NUL \notin ToSet(Front(bs))

from_cstr_no_ascii(c) ==
  IF Len(c) > PATH_MAX THEN Fail("TooLarge") ELSE Ok(c)
from_cstr_off_by_one(c) ==
  CASE Len(c) >= PATH_MAX        -> Fail("TooLarge")
    [] ToSet(c) \subseteq ASCII  -> Ok(c)
    [] OTHER                     -> Fail("NotAscii")

(* Path::from_cstr on the C string with content c. *)
from_cstr(c) ==
  CASE Len(c) > PATH_MAX         -> Fail("TooLarge")
    [] ToSet(c) \subseteq ASCII  -> Ok(c)
    [] OTHER                     -> Fail("NotAscii")

(* Path::from_bytes_with_nul *)
from_bytes_with_nul(bs) ==
  IF IsCStr(bs) THEN from_cstr(Front(bs)) ELSE Fail("NotCStr")

(* Path::from_str_with_nul: every byte but the last is non-NUL and ASCII, *)
(* the slice is not empty, and the last byte is NUL.                      *)
from_str_with_nul(bs) ==
  LET body == SubSeq(bs, 1, Len(bs) - 1)   \* i < len.saturating_sub(1)
  IN  IF /\ NUL \notin ToSet(body)
         /\ ToSet(body) \subseteq ASCII
         /\ bs # <<>>
         /\ Last(bs) = NUL
      THEN Ok(body)
      ELSE Fail("Panic")

(* From<&[u8]> for PathBuf: drop one trailing NUL, then assert no inner   *)
(* NUL, length at most PATH_MAX, ASCII.                                    *)
PathBuf_from_bytes(bs) ==
  LET c == IF bs # <<>> /\ Last(bs) = NUL THEN Front(bs) ELSE bs
  IN  IF NUL \notin ToSet(c) /\ Len(c) <= PATH_MAX /\ ToSet(c) \subseteq ASCII
      THEN Ok(c)
      ELSE Fail("Panic")

serialize_with_nul(c) == c \o <<NUL>>

(* Serialize for PathBuf: the content bytes, no terminator. *)
serialize(c) == c

(* Deserialize for PathBuf (ValueVisitor::visit_bytes). *)
deserialize(v) ==
  IF Len(v) > PATH_MAX THEN Fail("InvalidLength") ELSE PathBuf_from_bytes(v)

Init == bytes \in RawInputs /\ p \in Paths

(* Constructing has no effect on its input. *)
Next == UNCHANGED vars

Spec == Init /\ [][Next]_vars

-----------------------------------------------------------------------------
(***************************************************************************)
(* Properties.                                                             *)
(***************************************************************************)

(* The runtime constructors from_bytes_with_nul (through from_cstr),      *)
(* From<&[u8]> and Deserialize only ever produce a value that satisfies   *)
(* Path's contract, which Deref and as_str rely on without checking       *)
(* (from_utf8_unchecked, from_bytes_with_nul_unchecked).                  *)
RuntimeCtorsYieldPaths ==
  \A r \in {from_bytes_with_nul(bytes), PathBuf_from_bytes(bytes),
            deserialize(bytes)} :
    r.res = "Ok" => IsPath(r.path)

(* On a NUL-terminated slice the fallible Path::from_bytes_with_nul and   *)
(* the panicking From<&[u8]> accept the same inputs and give the same     *)
(* path: the two coded checks (CStr, from_cstr) and (strip, asserts)      *)
(* agree, at the length boundary too.                                      *)
ConstructorsAgree ==
  (bytes # <<>> /\ Last(bytes) = NUL) =>
    /\ (from_bytes_with_nul(bytes).res = "Ok") <=> (PathBuf_from_bytes(bytes).res = "Ok")
    /\ from_bytes_with_nul(bytes).res = "Ok" =>
         from_bytes_with_nul(bytes).path = PathBuf_from_bytes(bytes).path

(* Spec, testable properties: parse(serialize(p)) == p for every valid    *)
(* PathBuf, the full-length one included.                                  *)
SerdeRoundTrip == deserialize(serialize(p)) = Ok(p)

(* Spec 4.1: the const constructor behind path! performs the same checks  *)
(* as the fallible one, so a literal longer than PATH_MAX is rejected.    *)
ConstCtorChecksLength ==
  from_str_with_nul(bytes).res = "Ok" => Len(from_str_with_nul(bytes).path) <= PATH_MAX

(* Spec 7: malformed bytes from an untrusted source are rejected with an  *)
(* error, never by a panic, when a PathBuf is deserialized.               *)
DeserializeNeverPanics == deserialize(bytes).res # "Panic"

=============================================================================
