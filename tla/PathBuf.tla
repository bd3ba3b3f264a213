------------------------------ MODULE PathBuf ------------------------------
(***************************************************************************)
(* littlefs2's owned path (src/src/path.rs, struct PathBuf): a byte array  *)
(* `buf` of PATH_MAX_PLUS_ONE bytes and `len`, the number of bytes in use  *)
(* including the NUL terminator.  Bytes past `len` are left as they are by *)
(* push, so they may hold an older, longer path.                           *)
(*                                                                         *)
(* One action per operation that gives the program's PathBuf variable a    *)
(* new value: clear, push, join, parent and the From conversions.  `push`  *)
(* writes through a raw pointer; a write at an index outside the array is  *)
(* recorded in `overrun` (in the code it would corrupt adjacent memory).   *)
(* A failed assert panics, after which nothing runs.                       *)
(***************************************************************************)
EXTENDS PathOps

CONSTANTS
  PATH_MAX,   \* consts::PATH_MAX
  Letters,    \* ASCII bytes other than '/' and NUL used in path contents
  NameBytes   \* bytes other than '/' and NUL a littlefs entry name may hold

ASSUME PATH_MAX \in Nat \ {0}
ASSUME Letters \subseteq ASCII \ {NUL, SLASH}
ASSUME NameBytes \subseteq 1 .. 255 \ {SLASH}

VARIABLES
  buf,        \* [c_char; PATH_MAX_PLUS_ONE]
  len,        \* used bytes, the NUL terminator included
  panicked,   \* an assert failed
  overrun,    \* a pointer write landed outside buf
  call        \* the last operation called and its argument (history)

vars == <<buf, len, panicked, overrun, call>>

PATH_MAX_PLUS_ONE == PATH_MAX + 1
Idx == 0 .. PATH_MAX_PLUS_ONE - 1

Paths     == BoundedSeq(Letters \cup {SLASH}, PATH_MAX)

(* [0; PATH_MAX_PLUS_ONE] *)
Zeroed == [i \in Idx |-> NUL]

(* A fresh zeroed array with `bytes` copied to its start (the From impls). *)
Copied(bytes) == [i \in Idx |-> IF i < Len(bytes) THEN bytes[i + 1] ELSE NUL]

(* Deref: the path over buf[0 .. len-1], seen without its terminator. *)
Content(b, l) == [i \in 1 .. l - 1 |-> IF i - 1 \in Idx THEN b[i - 1] ELSE NUL]

(* strlen: the index of the first NUL, which the caller guarantees.     *)
strlen(b) == CHOOSE n \in Idx : b[n] = NUL /\ \A j \in 0 .. n - 1 : b[j] # NUL

(* A littlefs info buffer handed to from_buffer: bytes of a name, a NUL   *)
(* (the Safety precondition of strlen), then whatever littlefs left there. *)
InfoBuffers ==
  {b \in [Idx -> NameBytes \cup {SLASH, NUL}] : \E i \in Idx : b[i] = NUL}

(* The last content byte is not '/'; an empty content needs no separator. *)
needs_separator_always(b, l) == l = 1 \/ b[l - 2] # SLASH
needs_separator(b, l) == l > 1 /\ b[l - 2] # SLASH

(* assert!(self.len + slen + sep <= PATH_MAX_PLUS_ONE) *)
FitsNoSep(l, slen, sep) == l + slen <= PATH_MAX_PLUS_ONE
FitsStrict(l, slen, sep) == l + slen + sep < PATH_MAX_PLUS_ONE
Fits(l, slen, sep) == l + slen + sep <= PATH_MAX_PLUS_ONE

(* The bytes push writes from index `start` (the old terminator): an       *)
(* optional '/', the bytes of p, then the NUL terminator.                  *)
WritesNoNul(start, sep, p) ==
  [k \in start .. start + sep + Len(p) - 1 |->
     IF sep = 1 /\ k = start THEN SLASH ELSE p[k - start - sep + 1]]
Writes(start, sep, p) ==
  [k \in start .. start + sep + Len(p) |->
     CASE sep = 1 /\ k = start      -> SLASH
       [] k = start + sep + Len(p)  -> NUL
       [] OTHER                     -> p[k - start - sep + 1]]

(* PathBuf::push on the buffer (b, l): the new buffer and length, whether  *)
(* the assert failed, and whether a write fell outside the array.          *)
PushInto(b, l, p) ==
  LET sep == IF needs_separator(b, l) THEN 1 ELSE 0
      w   == Writes(l - 1, sep, p)
  IN  CASE p = <<>> ->
             [buf |-> b, len |-> l, panic |-> FALSE, over |-> FALSE]
        [] p = <<SLASH>> ->
             [buf |-> [b EXCEPT ![0] = SLASH, ![1] = NUL], len |-> 2,
              panic |-> FALSE, over |-> FALSE]
        [] ~Fits(l, Len(p), sep) ->
             [buf |-> b, len |-> l, panic |-> TRUE, over |-> FALSE]
        [] OTHER ->
             [buf  |-> [j \in Idx |-> IF j \in DOMAIN w THEN w[j] ELSE b[j]],
              len  |-> l + sep + Len(p),
              panic |-> FALSE,
              over |-> \E k \in DOMAIN w : k \notin Idx]

(* The operation called, with its argument. *)
Called(op, arg) == call' = [op |-> op, arg |-> arg]

(* The program's PathBuf becomes the result r of an operation. *)
Assign(r) ==
  /\ buf' = r.buf
  /\ len' = r.len
  /\ panicked' = r.panic
  /\ overrun' = (overrun \/ r.over)

(* PathBuf::new / Default *)
Init ==
  /\ buf = Zeroed
  /\ len = 1
  /\ panicked = FALSE
  /\ overrun = FALSE
  /\ call = [op |-> "new", arg |-> <<>>]

(* PathBuf::clear *)
Clear ==
  /\ ~panicked
  /\ buf' = Zeroed
  /\ len' = 1
  /\ UNCHANGED <<panicked, overrun>>
  /\ Called("clear", <<>>)

(* PathBuf::push *)
Push(p) ==
  /\ ~panicked
  /\ Assign(PushInto(buf, len, p))
  /\ Called("push", p)

(* Path::join through Deref: PathBuf::from(self), then push. *)
Join(p) ==
  /\ ~panicked
  /\ Assign(PushInto(Copied(Content(buf, len)), len, p))
  /\ Called("join", p)

FromPathNoNul(p) ==
  /\ ~panicked
  /\ buf' = Copied(p)
  /\ len' = Len(p)
  /\ UNCHANGED <<panicked, overrun>>
  /\ Called("from_path", p)

(* From<&Path> for PathBuf: copies the content and its terminator. *)
FromPath(p) ==
  /\ ~panicked
  /\ buf' = Copied(p)
  /\ len' = Len(p) + 1
  /\ UNCHANGED <<panicked, overrun>>
  /\ Called("from_path", p)

(* buf = buf.parent().unwrap(): Path::parent builds PathBuf::from(bytes). *)
ToParent ==
  LET par == parent(Content(buf, len))
  IN  /\ ~panicked
      /\ par # None
      /\ buf' = Copied(par[1])
      /\ len' = Len(par[1]) + 1
      /\ UNCHANGED <<panicked, overrun>>
      /\ Called("parent", <<>>)

(* PathBuf::from_buffer: the buffer is taken as it is, bytes after the   *)
(* first NUL included, and len counts up to that NUL.                     *)
FromBuffer(b) ==
  /\ ~panicked
  /\ buf' = b
  /\ len' = strlen(b) + 1
  /\ UNCHANGED <<panicked, overrun>>
  /\ Called("from_buffer", Content(b, strlen(b) + 1))

(* After a panic the program does not run on. *)
Halted ==
  /\ panicked
  /\ UNCHANGED vars

Next ==
  \/ Clear
  \/ \E p \in Paths : Push(p)
  \/ \E p \in Paths : Join(p)
  \/ \E p \in Paths : FromPath(p)
  \/ \E b \in InfoBuffers : FromBuffer(b)
  \/ ToParent
  \/ Halted

Spec == Init /\ [][Next]_vars

-----------------------------------------------------------------------------
(***************************************************************************)
(* Properties.                                                             *)
(***************************************************************************)

TypeOK ==
  /\ buf \in [Idx -> ASCII]
  /\ len \in 1 .. PATH_MAX_PLUS_ONE
  /\ panicked \in BOOLEAN
  /\ overrun \in BOOLEAN
  /\ call.op \in {"new", "clear", "push", "join", "from_path", "parent",
                  "from_buffer"}

(* Deref hands buf[0 .. len-1] to Path::from_bytes_with_nul_unchecked,    *)
(* whose precondition is that the last of those bytes is NUL and no other *)
(* is: every sequence of push, join, clear, parent and From calls must    *)
(* leave the terminator exactly at len-1, whatever older bytes lie past   *)
(* it.                                                                     *)
DerefIsCStr ==
  /\ buf[len - 1] = NUL
  /\ \A i \in 0 .. len - 2 : buf[i] # NUL

(* push's capacity assert keeps every raw-pointer write inside buf. *)
NoOverrun == ~overrun

(* The buffer implements PathString: through Deref, each operation gives  *)
(* the path that path semantics prescribe, and push panics exactly when   *)
(* that path would not fit.                                                *)
Abstract == INSTANCE PathString WITH content <- Content(buf, len)
ImplementsPathString == Abstract!Spec

(* Spec 3: a PathBuffer's content is ASCII, which as_str relies on when   *)
(* it calls from_utf8_unchecked; this holds whatever name littlefs stored  *)
(* in the info buffer handed to from_buffer.                              *)
DerefIsAscii == \A i \in 0 .. len - 2 : buf[i] \in ASCII

=============================================================================
