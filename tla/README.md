# TLA+ models of littlefs2's path module

This directory holds TLA+ models of `src/src/path.rs`, the fixed-capacity path types of the
littlefs2 crate, and the TLC configurations that check them. All files sit directly in this
directory. Each `MC*.tla` module gives a specification's constants their values for TLC, and
each `MC*.cfg` is one run. `PROJECT.json` lists the runs, the mutants, the map from
definitions to source lines, the findings and the hazards.

## 1. Inventory

The module is single-threaded and synchronous. It allocates nothing, and no state is shared
between calls. Nothing is persisted and nothing runs concurrently. What is hard is
**sequential**: byte-level pointer arithmetic kept in step with a length field, recursion on
trailing separators, two orders that must differ in exactly one way, and several constructors
that should accept exactly the same inputs.

| Component | Source (src/src/path.rs) | State | Operations |
|---|---|---|---|
| Borrowed path `Path` | 14-25, 152-333 | none: a view of existing bytes (`CStr`) | `is_empty`, `file_name`, `parent`, `as_str`, `join`, `exists` |
| Validation / construction | 236-288, 354-399 | none | `from_bytes_with_nul`, `from_cstr`, `from_str_with_nul` (const, behind `path!`), unchecked variants, `TryFrom` |
| Comparisons | 27-81 | none | `cmp_str` (string order), `cmp_lfs` (littlefs directory order) |
| `Ancestors` iterator | 83-121 | the remaining `&str` | `next`, which calls itself on a trailing `/` |
| `Iter` (components) iterator | 123-150 | the remaining `&str` | `next` |
| Owned buffer `PathBuf` | 401-553 | `buf: [c_char; PATH_MAX+1]`, `len` (terminator included) | `new`/`default`, `clear`, `push`, `join` (via `Deref`), `From<&Path>`, `From<&[u8]>`, `From<&str>`, `from_buffer` (unsafe, crate-internal), `Deref` |
| Serde | 555-595 | none | `Serialize` (content bytes), `Deserialize` (`visit_bytes`) |
| Formatting / equality glue | 335-366, 597-622 | none | `Debug`, `Display`, `AsRef<str>`, `PartialEq` |
| Error type | 638-650 | none | `NotAscii`, `NotCStr`, `TooLarge` |

How the parts interact. `PathBuf` dereferences to a `Path` over its first `len` bytes through
`from_bytes_with_nul_unchecked`, without checking them. Every `Path` method (parent, the
iterators, comparisons, join) therefore runs on whatever `push` left in the buffer. `join` is
`PathBuf::from(self)` followed by `push`. `parent` and both iterators build `PathBuf`s with
`From<&[u8]>`/`From<&str>`, which assert. `Deserialize` calls `From<&[u8]>`. `exists` calls the
external `Filesystem::metadata`.

What makes each part correct:

- **PathBuf.** After any sequence of operations, `buf[len-1]` is NUL and no earlier byte is,
  so `Deref`'s unchecked `CStr` is valid. No raw write leaves the array. Through `Deref`, the
  content is what path semantics prescribe:
  - pushing `""` is a no-op;
  - pushing `"/"` resets the buffer to the root;
  - otherwise a separator goes in unless the buffer is empty or already ends in `/`.

  `push` panics exactly when the result would not fit.
- **Ancestors.** The first item is the path itself. Every later item is `parent()` of the one
  before (the crate's own test, `assert_ancestor_parent`). The iterator is finite. The spec
  also says the last item of an absolute path is `/`.
- **Comparisons.** Both are total orders. `cmp_lfs` is littlefs's order: on a prefix tie the
  longer path sorts first. The two orders agree except on strict prefixes, where they
  disagree.
- **Validation.** Whatever a runtime constructor accepts satisfies Path's contract (ASCII, a
  single trailing NUL, at most `PATH_MAX` bytes). The fallible and the panicking constructors
  accept the same slices. Deserialising a serialised path gives it back. The const
  constructor applies the same checks. Malformed untrusted bytes give an error, not a panic.
- **Iter / file_name.** Each component is `/` or a non-empty name without `/`. The
  components give back the path byte for byte once `next()`'s splits are undone: a `/` after
  each name that had more after it, a `/` item standing for itself. The only byte lost is the
  one `/` that `split_once` consumes after the last name. Spec 8 states this looser: it speaks
  of a leading `/` marker only and allows any collapse of trailing separators, but `next()`
  also yields `/` items in the middle of `a//b` and at the end of `a//`. A caller's
  loop over `iter()` ends. `file_name` is the last component, and is None only for the empty
  path, `/` or a trailing `/`.
- **parent.** It never returns a path with a trailing empty segment (spec 4.4).

## 2. Modules

| Module | Models | State | Actions |
|---|---|---|---|
| `PathOps` | the pure `Path` methods: `cmp_str`, `cmp_lfs` and the slice compare they use, `file_name`, `parent` (RECURSIVE), `Ancestors::next` (RECURSIVE, mirrors its self-call), `Iter::next` | none | operators only |
| `PathString` | the abstract `PathBuf`: the content as a path, plus `panicked`, plus `call` (last operation and argument, a history variable) | `content`, `panicked`, `call` | `Clear`, `Push(p)`, `Join(p)`, `FromPath(p)`, `FromBuffer(p)`, `ToParent`, `Halted` |
| `PathBuf` | the byte array and length, exactly as the code writes them | `buf`, `len`, `panicked`, `overrun`, `call` | `Clear`, `Push(p)`, `Join(p)`, `FromPath(p)`, `FromBuffer(b)`, `ToParent`, `Halted` |
| `Ancestors` | a caller draining `ancestors()` | `orig`, `path` (iterator state), `started`, `out`, `last`, `yields` | `Call` (one `next()`) |
| `Components` | a caller draining `iter()` and collecting the components | `orig`, `path` (iterator state), `started`, `out`, `items` | `Call` (one `next()`) |
| `Walk` | composition: a caller pushing each component of `iter()` onto a new `PathBuf` (`for c in p.iter() { cur.push(&c) }`). It uses `Iter_next` from `PathOps` and `PushInto` from `PathBuf`, taken in with `INSTANCE PathBuf` | `orig`, `it`, `buf`, `len`, `panicked`, `overrun`, `walked` | `Step` (one `next()` and its `push`), `Done` |
| `PathCmp` | the two orders against reference definitions | a triple `x, y, z` | none: stuttering |
| `Validation` | `from_bytes_with_nul`, `from_cstr`, `from_str_with_nul`, `From<&[u8]>`, `Serialize`, `Deserialize` | one raw slice `bytes`, one valid path `p` | none: stuttering |

Correspondence to the code:

- **Path content.** A path's content is a sequence of byte values (`SLASH` = 47, `NUL` = 0,
  letters 97/98, 200 for a non-ASCII byte).
- **Option and Ordering.** `Option` is `<<>>` (None) or `<<x>>` (Some x). `Ordering` is
  -1/0/1.
- **`push`.** `PathBuf!PushInto` is `push` line by line: the `""` and `"/"` arms, then
  `needs_separator`, then the capacity `assert!`. After that come the writes through the raw
  pointer (`Writes`, starting at the old terminator `len-1`) and the two `len +=`.
- **Writes outside the array.** An index outside `0..PATH_MAX` sets `overrun`. In the code such
  a write would corrupt adjacent memory.
- **Panics.** A failed assert sets `panicked`, and only `Halted` (stuttering) is enabled
  afterwards. A panic ends the program; deadlock is still checked everywhere else.
- **`from_buffer`.** `FromBuffer(b)` takes any info buffer over `NameBytes`, `/` and NUL
  that holds a NUL, which is the Safety precondition of `strlen`. `NameBytes` is a constant:
  the passing run uses the crate's own letters, and `pathbuf_foreign_names` adds a non-ASCII
  byte. The bytes after the first NUL stay in
  `buf` as stale data. `len` is `strlen(b) + 1`.
- **`join`.** `join` pushes onto `Copied(Content(buf,len))`, the zeroed copy `From<&Path>`
  makes. `parent` results are built the same way.
- **Refinement.** `PathBuf` implements `PathString` under the mapping
  `content <- Content(buf, len)`, which is what `Deref` shows. `call` is a history variable in
  both modules. It records which operation ran with which argument, so the refinement pins
  each step to its own operation rather than to any operation with the same result.

## 3. Runs

| Run | cfg | Expect | What it shows |
|---|---|---|---|
| `pathbuf` | `MCPathBuf.cfg` | pass | Any sequence of `clear`/`push`/`join`/`From<&Path>`/`from_buffer`/`parent` on a buffer of 4 content bytes (a 5-byte array) satisfies three things. It keeps the terminator at `len-1` with no NUL before it (`DerefIsCStr`), even when `push("/")` or `from_buffer` has left stale bytes behind. It never writes outside the array (`NoOverrun`). It refines `PathString` (`ImplementsPathString`), with `push` panicking exactly when the result is too long. |
| `ancestors` | `MCAncestors.cfg` | pass | For every path of up to 6 bytes over `a`, `b` and `/`, `ancestors()` follows `parent()` step by step (`AncestorsFollowParent`) and yields at most one item per `/` plus one (`AncestorsEnd`). |
| `ancestors_root` | `MCAncestorsRoot.cfg` | violation | On `"//"` the iterator yields `"//"` and stops. The root `/` that the spec promises as the last ancestor is dropped by the self-call in `next()`. |
| `ancestors_parent` | `MCAncestorsParent.cfg` | violation | `parent("///a")` is `"//"` (and `parent("a//b")` is `"a/"`). The result keeps a trailing empty segment, which spec 4.4 says `parent` never returns. |
| `pathbuf_foreign_names` | `MCPathBufForeign.cfg` | violation | The info buffers may hold a non-ASCII byte (`NameBytes = {a, 0xC8}`), as a name stored by another writer of the image can. `from_buffer` then gives a `PathBuf` whose content is not ASCII (`DerefIsAscii`), against spec 3 and the `from_utf8_unchecked` in `as_str`. |
| `components` | `MCComponents.cfg` | pass | Checked for every path of up to 5 bytes over `a`, `b` and `/`. `iter()` yields only `/` or non-empty names (`ComponentsAreNames`). It returns None after finitely many calls (`IterTerminates`, under weak fairness). Its components, with `next()`'s splits undone, give back the path byte for byte except for at most one final `/` (`IterRebuildsPath`). Runs of `/` inside the path and at its end are included. Its last component is `file_name` for every path holding a `/` (`FileNameIsLastComponent`). |
| `components_file_name` | `MCComponentsFileName.cfg` | violation | `file_name("aa")` is None: a relative single-segment path has no file name, though spec 4.4 says it is the final segment. |
| `walk` | `MCWalk.cfg` | pass | Checked for every path of up to 5 bytes over `a`, `b`, `/`, with a 5-byte capacity. Pushing its components one by one never trips push's assert and never writes outside the buffer (`WalkNeverPanics`). On a path without runs of `/`, the walk passes through exactly the items `ancestors()` yields, in reverse (`WalkVisitsAncestors`). On `"a//b"` the mid-path `/` component resets the buffer, and the walk ends at `"/b"` (a hazard; see `PROJECT.json`). |
| `path_cmp` | `MCPathCmp.cfg` | pass | For all 64000 triples of paths of up to 3 bytes over `a`, `b`, `/`, both orders are total orders. They equal reference definitions (end of path below / above every byte), and they disagree exactly on strict prefixes. |
| `validation` | `MCValidation.cfg` | pass | For every slice of up to 5 bytes over NUL, `/`, `a`, 0xC8: the runtime constructors only produce valid paths; `from_bytes_with_nul` and `From<&[u8]>` agree on NUL-terminated slices; serde round-trips every valid path. |
| `const_ctor_length` | `MCValidationConst.cfg` | violation | `from_str_with_nul` (behind `path!`) accepts a literal longer than `PATH_MAX`; the spec says it makes the same checks. |
| `deserialize_panics` | `MCValidationSerde.cfg` | violation | `Deserialize` checks only the length, so a slice with a NUL or a non-ASCII byte reaches `From<&[u8]>`'s asserts and panics instead of returning an error. |

**Bounds.**

- **`components`: paths up to 5 bytes, `MAX_ITEMS = 6`.** Five bytes hold `"a//a"`,
  `"a///a"`, `"/a/a"` and trailing `/`. The collection never fills, because every `next()`
  consumes at least one byte. The cap matters only to a faulty `next()` that yields forever.
- **`walk`: `PATH_MAX = 5`, letters `a`, `b`.** A path of full length fills the buffer to its
  last byte, so an off-by-one in the capacity assert trips on the last push.
- **Two letters in `ancestors`, `components` and `walk`.** Segments differ in content, not
  only in length.
- **`pathbuf`: `PATH_MAX = 4`, one letter.** With this capacity `push` reaches the assert both
  with and without a separator. `"/"` can leave up to three stale bytes behind, and `parent`
  strips runs of trailing slashes. One letter is enough because the code only tells `/` from
  other bytes.
- **`ancestors`: paths up to 6 bytes.** That length covers leading, doubled, tripled and
  trailing separators in every combination.
- **`path_cmp`: 3 bytes, two letters.** This gives strict differences in both directions, `/`
  below the letters, and prefix chains for transitivity.
- **`validation`: `PATH_MAX = 3`, inputs up to `PATH_MAX + 2` bytes.** This covers lengths at,
  one past and two past the boundary, with and without the terminator.

**Fairness.** `Components` assumes `WF_vars(Call)`. The caller is a `for` loop over
`iter()`, which calls `next()` again for as long as it returns Some. Under that fairness,
`IterTerminates` says the loop ends. `Ancestors` checks the same thing as an explicit bound
on the number of items (`AncestorsEnd`), because checking fairness over its recursive
`next()` is too slow for TLC. The other modules are single calls or sequences of calls that
the program may stop at any point, so no fairness applies to them.

**Mutants.** Every property of a passing run has a mutant in `PROJECT.json`: a plausible bug
in the mapped code that TLC catches under the run's own cfg.

- **`pathbuf`:**
  - `Fits` without the separator byte;
  - `Writes` without the terminator;
  - `needs_separator` with `unwrap_or(true)`;
  - `From<&Path>` setting `len` without the NUL.
- **`ancestors`:** `next()` without the trailing-`/` self-call; `next()` not clearing the
  path on the last segment; `ancestors()` built over the string with its NUL.
- **`components`:**
  - `iter()` over the string with its NUL;
  - `next()` without the leading-`/` branch;
  - `next()` skipping one byte too many after a split;
  - `next()` not clearing the path on the last segment;
  - `file_name` matching an empty last segment instead of `"\0"`.
- **`walk`:**
  - push's capacity assert with `<` for `<=`;
  - `next()` skipping one byte too many after a split.
- **`path_cmp`:** `cmp_lfs` with shorter-first or no tie-break; the slice compare reversed.
- **`validation`:** `from_cstr` without the ASCII check or with `>=`; `Serialize` with the
  terminator.

## 4. Plan

Order of work, most important behaviour first:

1. Done:
   - `PathOps`;
   - `PathString` and `PathBuf`, with the refinement, including `from_buffer`;
   - `Ancestors`;
   - `PathCmp`;
   - `Validation`;
   - `Components` (`iter`, `file_name`).
   - `Walk`: `iter()` composed with `PathBuf::push`;
   - two letters in the iterator runs.
   - names with non-ASCII bytes reaching `from_buffer` (`pathbuf_foreign_names`).
2. **No directory-listing composition.** The code of this repository never sorts or searches
   a listing. `cmp_lfs` is only offered to callers outside `src/`, and `PathCmp` already
   checks both orders against reference definitions.

## 5. Not modelled

- Callers outside `src/`: the filesystem module that fills the info buffers for
  `from_buffer`, and the listings sorted with `cmp_lfs`.

- `exists`: a call to the external `Filesystem::metadata`, which is I/O outside this module.
- `Debug`, `Display`, `AsRef`, the `PartialEq` impls, `TryFrom` and the `array_impls` macro:
  formatting and delegation to operations that are modelled, with no state or control flow of
  their own.
- Unchecked constructors and `as_ptr`: casts with no runtime behaviour.
- `From<&str>`: it delegates to `From<&[u8]>`, which is modelled.
- Stack depth of the recursion in `parent` and `Ancestors::next`. The recursion is modelled,
  and its results are checked. The stack it uses is not state: one frame per trailing `/`, at
  most `PATH_MAX` of them.
