----------------------------- MODULE PathString -----------------------------
(***************************************************************************)
(* What an owned `PathBuf` promises, stated over the path it holds rather  *)
(* than over its byte array: the content is a path of at most PATH_MAX     *)
(* ASCII bytes with no NUL, and each operation replaces it by the path the *)
(* operation describes.  An operation whose result would not fit panics   *)
(* (an assert in the code); nothing runs after a panic.                    *)
(*                                                                         *)
(* PathBuf.tla refines this module through the view `Deref` gives of the   *)
(* buffer's first `len` bytes.                                             *)
(***************************************************************************)
EXTENDS PathOps

CONSTANTS
  PATH_MAX,   \* consts::PATH_MAX: longest content, terminator excluded
  Letters     \* ASCII bytes other than '/' and NUL used in path contents

VARIABLES
  content,    \* the path the buffer holds
  panicked,   \* an assert of the last operation failed
  call        \* the last operation called and its argument

vars == <<content, panicked, call>>

(* Every valid path of the model: ASCII, no NUL, at most PATH_MAX bytes. *)
Paths == BoundedSeq(Letters \cup {SLASH}, PATH_MAX)

(* push: "" is a no-op, "/" resets to the root, otherwise a '/' is put     *)
(* between the two paths unless the first is empty or already ends in '/'. *)
Pushed(c, p) ==
  CASE p = <<>>                  -> c
    [] p = <<SLASH>>             -> <<SLASH>>
    [] c = <<>> \/ Last(c) = SLASH -> c \o p
    [] OTHER                     -> c \o <<SLASH>> \o p

(* The buffer now holds r, or the operation panics when r does not fit. *)
Becomes(r) ==
  IF Len(r) <= PATH_MAX
  THEN content' = r /\ UNCHANGED panicked
  ELSE panicked' = TRUE /\ UNCHANGED content

(* The operation called, with its argument. *)
Called(op, arg) == call' = [op |-> op, arg |-> arg]

Init ==
  /\ content = <<>>
  /\ panicked = FALSE
  /\ call = [op |-> "new", arg |-> <<>>]

Clear ==
  /\ ~panicked
  /\ content' = <<>>
  /\ UNCHANGED panicked
  /\ Called("clear", <<>>)

Push(p) ==
  /\ ~panicked
  /\ Becomes(Pushed(content, p))
  /\ Called("push", p)

(* join builds a copy and pushes onto it; the copy replaces the buffer. *)
Join(p) ==
  /\ ~panicked
  /\ Becomes(Pushed(content, p))
  /\ Called("join", p)

FromPath(p) ==
  /\ ~panicked
  /\ content' = p
  /\ UNCHANGED panicked
  /\ Called("from_path", p)

ToParent ==
  /\ ~panicked
  /\ parent(content) # None
  /\ content' = parent(content)[1]
  /\ UNCHANGED panicked
  /\ Called("parent", <<>>)

(* from_buffer: the path littlefs wrote into its info buffer. *)
FromBuffer(p) ==
  /\ ~panicked
  /\ content' = p
  /\ UNCHANGED panicked
  /\ Called("from_buffer", p)

Halted ==
  /\ panicked
  /\ UNCHANGED vars

Next ==
  \/ Clear
  \/ \E p \in Paths : Push(p)
  \/ \E p \in Paths : Join(p)
  \/ \E p \in Paths : FromPath(p)
  \/ \E p \in Paths : FromBuffer(p)
  \/ ToParent
  \/ Halted

Spec == Init /\ [][Next]_vars

=============================================================================
