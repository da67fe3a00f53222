# TLA+ models of the Duktape WTF-8 string core

This directory models `src/src-input/duk_unicode_wtf8.c` and
`src/src-input/duk_hstring_misc.c`: how Duktape sanitizes arbitrary bytes into
WTF-8, and the algorithms that work on the resulting strings.

## 1. Inventory

### Components and their state

| Component | Code | State | Operations |
|---|---|---|---|
| Validator | `duk_unicode_is_valid_wtf8` (l. 8-62) | none (loop over `p`) | accept / reject a byte string |
| Sanitizer | `duk__unicode_wtf8_sanitize_string_reference` (l. 67-217) | loop locals `p`, `q`, `cp`, `num_cont`, `lower`, `upper`, `out_clen_sub`; output buffer sized 3x by the caller | lead byte, continuation byte, truncation, invalid continuation (re-read), surrogate pairing, emission, replacement |
| Symbol detector | `duk_unicode_wtf8_sanitize_detect` (l. 238-260), `..._sanitize_symbol` (l. 220-232) | none | route Symbol inputs (first byte 80, 81, 82 or FF) to a 1:1 copy |
| ASCII keepcheck | `duk__unicode_wtf8_sanitize_asciicheck_optimized`, `duk_unicode_wtf8_sanitize_keepcheck` (l. 279-367) | scan pointer, word pointer, address alignment | alignment walk, 4-byte word loop, byte tail, Symbol override |
| Char length | `duk_unicode_wtf8_charlength` (l. 373-417) | `p`, `adj` | count ECMAScript chars (non-BMP = 2) |
| Decoder | `duk_unicode_wtf8_decode_known` (l. 735-772) | none | decode the code point at a lead byte |
| String handle | `duk_hstring_misc.c` | per handle: bytes, `blen`, `clen` (0 = not computed when lazy), flags ASCII (lazy, monotone), SYMBOL, READ_ONLY, hash, arridx | `get_charlen` (lazy slow paths, two build variants), getters, hash set/get, equals |
| Substring | `duk_push_wtf8_substring_hstring` (l. 429-560) | temporary buffer | ASCII fast path, empty result, split surrogate at start / end, copy |
| Search | `duk_unicode_wtf8_search_forwards/backwards` (l. 570-654) | loop offset | substring at each candidate offset, compared by interned identity |
| CESU-8 | `duk_unicode_wtf8_to_cesu8` (l. 660-733) | count, buffer | size pass, convert pass |
| charCodeAt | `duk_unicode_wtf8_charcodeat_helper` (l. 774-815) | none | ASCII fast path, cache lookup, surrogate halves |

External collaborators, not under `src/` (modelled only from spec section 6 when a
module needs them): the intern table (`duk_push_lstring`, which sanitizes and
deduplicates), the heap allocator and the char-to-byte cache
(`duk_strcache_scan_char2byte_wtf8`).

### How they interact

Bytes entering the engine go through keepcheck (keep as is?) and otherwise
`sanitize_detect`, which sends Symbols to a verbatim copy and strings to the
sanitizer; the result is interned as a handle. Every other operation assumes the
handle's bytes are valid WTF-8 in canonical form (no high surrogate directly
followed by a low one). `get_charlen` fills the lazy `clen` and ASCII flag;
substring, charCodeAt and search read `clen == blen` as "ASCII" and otherwise call
the char-to-byte cache and `decode_known`; substring results are re-interned, and
search relies on that interning to compare substrings by pointer.

### What is hard

The code is single-threaded and nothing is persisted, so there is no concurrency
or crash recovery to model. The hard part is the byte-level control flow: the
invalid continuation byte that is un-consumed and re-read as a lead, the
surrogate-pair lookahead past the current sequence, the range bounds after E0, ED,
F0, F4, truncation at the end of input, the 3x output bound, the word scan's
alignment and end rounding, the lazy `clen` whose 0 doubles as "not computed", and
the surrogate halves manufactured when a substring or charCodeAt splits a non-BMP
code point. `PROJECT.json` lists each hazard at its line.

### What makes each component correct

* Validator: accepts exactly the shortest-form encodings of code points up to
  U+10FFFF, surrogates included.
* Sanitizer: output is the Unicode best-practice result (every valid code point
  kept, one U+FFFD per maximal ill-formed subpart, surrogate pairs combined),
  Symbols pass unchanged, never more than 3x the input.
* Char length / decoder: agree with the UTF-16 view of the code points.
* Keepcheck: returns the ASCII prefix length, or `blen` for a Symbol, and never
  reads past the end; keeping what it says is the same as sanitizing.
* String handle: `clen` and ASCII, once set, never change, never written on
  READ_ONLY handles, ASCII set only if `clen == blen`.
* Substring / charCodeAt / search: agree with slicing, indexing and searching the
  UTF-16 view.
* CESU-8: every non-BMP code point becomes its two 3-byte surrogate encodings,
  exactly filling the buffer sized by the first pass.

## 2. Plan

1. `Wtf8` (done): the pure helpers as operators, and the Unicode reference
   definitions (`RefValid`, `Utf16`, `Canonical`, `RefSanitize`).
2. `Wtf8Sanitize` + `MCWtf8Sanitize` (done): the sanitizer, the most important
   behaviour (it establishes the invariant all other code relies on).
3. `Wtf8KeepCheck` + MC (done): the word scan with the address alignment as a constant;
   checked against the reference ASCII scan and against `Wtf8Sanitize`
   (a kept input is what sanitizing returns).
4. `HString` + `MCHString` (done): handles with lazy `get_charlen` in the three
   builds, READ_ONLY handles, substring, charCodeAt and search as actions.
   `HStringAbstract` (done): strings as UTF-16 sequences, operations as
   slicing, indexing, searching; `HString` refines it through `Utf16`.
5. `Wtf8Cesu8` + `MCWtf8Cesu8` (done): the two-pass conversion.
6. `HStringHeader` + `MCHStringHeader` (done): the header word and the getters
   and setters over it, in every combination of STRHASH16, STRLEN16 and
   HSTRING_ARRIDX.

## 3. Modules and runs

### `Wtf8.tla`
Operators translated from the code: `IsValidWtf8`/`ValidFrom`/`ValidSecondRange`
(the validator loop, one lead byte per recursion step), `DecodeKnown`,
`CharLength`/`CharLengthAdj`. Reference definitions, not from the code: `EncodeCp`
(shortest form), `RefValid`, `RefCodepoints`, `Utf16`, `Canonical`,
`MaximalSubpart`, `RefDecodeLossy`, `Coalesce`, `RefSanitize`. Shifts and masks are
written as `\div` and `%` on non-negative integers.

### `Wtf8Sanitize.tla`
One call of `sanitize_detect`. Variables mirror the C locals (`p` is 1-based,
`out` is `out_data..q`, `clenSub` is `out_clen_sub`, `pc` is the point in the loop).
Actions: `DetectSymbol`, `DetectString`, then per loop iteration `Finish`,
`CopyAscii`, `StartSequence`, `InvalidLead`, then per continuation byte
`Truncated`, `ContinuationOk`, `ContinuationBad`, and `Emit` (surrogate pairing and
shortest-form write) or `EmitReplacement`. `SanitizeProgress` is the loop's
termination argument as an action property: each step decreases the pair
(bytes left, distance of `pc` from the loop head) lexicographically. It is a
safety check, because a loop that fails to advance keeps appending U+FFFD, so
its state space is unbounded and `<>(pc = "done")` could not be checked to an end.

### `Wtf8KeepCheck.tla`
One call of `keepcheck`, with the address of the string's first byte modulo 4
(`align`) chosen by the caller. `p`, `p32`, `p32End` are 1-based indices of the
C pointers; `readEnd` is a ghost variable recording the highest byte read.
Actions: `EnterShort`/`EnterFast` (the `blen < 8` test), `AlignStep`,
`AlignDone` (computing `p32_end`), `WordStep` (one 4-byte word; bytes past the
end are whatever memory holds, chosen from an ASCII and a non-ASCII byte),
`TailStep`/`TailDone`, and the Symbol override `KeepSymbol`/`KeepReturn`. `ScanTerminates` says every
call reaches `done`: the word loop is a `do ... while (p32 != p32_end)`, left
only on an exact match, so it depends on `p32_end` being on the word grid.

### `HString.tla`
The handles' lazy fields and the operations that read them. A handle is
identified by its bytes (interning makes them unique); `clen` and `ascii` map
each handle of the constant `Handles` to its field. `Variant` picks the build:
`lazy_clen` (`DUK_USE_HSTRING_LAZY_CLEN` with a `clen` field, the default),
`lazy_noclen` (no `clen` field: the ASCII flag is the only cache) or `eager`
(`init_charlen` at creation). `CharlenCall` is `get_charlen` in the chosen build,
returning the result, the fields after the call and whether it wrote a field;
every action that calls `get_charlen` applies it. Actions: `GetCharlen`,
`Substring` (whole `duk_push_wtf8_substring_hstring`: get_charlen, ASCII fast path,
empty result, split-surrogate prefix and suffix, interning), `CharCodeAt`
(surrogate-aware or not), `Search` (forwards or backwards: get_charlen of input
then match, candidate offsets in loop order, substring compared by interned
identity). `last` records the last call and its result, which the properties
compare with the UTF-16 view. Two collaborators outside `src/` are modelled from
their interface: `Intern` (sanitize a non-Symbol; identity is equality of bytes)
and `ScanChar2Byte` (the char-to-byte cache's answer, not its caching).
Initially a RAM handle has `clen = 0` and ASCII possibly preset by the interner
on an ASCII string; a ROM handle carries its precomputed `clen` and ASCII flag.

### `HStringAbstract.tla` and the refinement
What the operations promise, with no bytes, lazy fields or interning: a handle is
a record `[symbol, units]` (a string's UTF-16 code units, or an opaque Symbol),
and `result` is the last call and its result. `LengthCall`, `SliceCall`,
`CodeUnitCall` and `IndexOfCall` are the results of `length`, `substring`,
`charCodeAt`/`codePointAt` and `indexOf`/`lastIndexOf`; a step is any one call
returning (`result' \in Calls`). `HString` instantiates it as `Abstract` with the
refinement mapping `AbsResult`: each handle is mapped to its UTF-16 view
(`AbsHandle`), a substring's result to the view of the handle the interner
returns. `RefinesAbstract == Abstract!Spec` is checked as a PROPERTY. The set of
calls depends only on the handles, so the MC module computes it once (`AbsCalls`)
and the .cfg substitutes it for the abstract `Calls`.

### `Wtf8Cesu8.tla`
`duk_unicode_wtf8_to_cesu8`: `CountStep` (first pass, one byte), `Allocate`
(`alloc_size`), `ConvertStep` (second pass, one byte: a lead >= F0 is decoded
from the next three bytes and written as two 3-byte surrogates, any other byte
copied), `ConvertDone`. Inputs are all encodings of up to 3 code points over a
set of boundary code points.

### `HStringHeader.tla`
The header fields of `duk_hstring_misc.c` (l. 11-69, 205-289). `build` holds
the three layout options, chosen in `Init` and fixed; `hdr[h]` holds the flags
word `h_flags`, `h->hash`, the byte length and `h->arridx`. A 32-bit word is a
record of its two 16-bit halves (TLC's integers stop at 2^31), which is also
how STRHASH16 uses `h_flags`: hash above, type bits and string flags below.
Handles are model values with their bytes in the constant `Bytes`, so a
64 KiB string is never part of a state. `Create` is the interner's
allocation (not under `src/`, modelled from spec sections 3 and 6): its
length check `InternLengthOk` (0xffff under STRLEN16, the check the comment
at l. 136 relies on), then the flags word with SYMBOL and HAS_ARRIDX, then `SetHash`
(`(h_flags & 0x0000ffff) | (hash << 16)`), then `SetByteLen`. `SetAscii` is
`get_charlen`'s lazy `h_flags |= ASCII`. `Read` is one getter call: `is_ascii`,
`is_empty`, `get_hash` (`h_flags >> 16`), `get_bytelen`, `get_data_end`,
`equals_ascii_cstring`, and the three array-index getters, which read
`h->arridx` or, without the field, test HAS_ARRIDX and parse.
`HeaderReadsBack` and `ArridxAgrees` compare the last getter's result with
the handle's own value. Under STRLEN16 the length part of `HeaderReadsBack`
rests on the modelled interner's length check, which is not code under `src/`.

### Runs

| Run | What it shows |
|---|---|
| `helpers` (`MCWtf8.cfg`) | validator, charlength and decode_known agree with the Unicode definitions on all strings of up to 4 bytes over 18 boundary bytes (111k strings) |
| `sanitize_pairs` | all strings of up to 6 bytes over ASCII, 80, A0, B0, C3, ED, F0: surrogate pairs combined, lone surrogates kept, invalid continuations re-read, 3x bound, every step makes progress (1.8M states) |
| `sanitize_ranges` | all strings of up to 4 bytes over the 18 boundary bytes: overlong forms, > U+10FFFF, F5..FF, C0/C1, truncation, every step makes progress (1.2M states) |
| `keepcheck` | all strings of up to 9 bytes over 41, 81, C0 at all 4 alignments: the word scan never reads past the end, every call returns (under weak fairness), returns the reference ASCII prefix length, or the whole length for a Symbol (674k states) |
| `hstring_lazy_clen` | default build, 6 handles (ROM empty and "A"; RAM "A😀", "😀\uDE00", lone high and low surrogates), every sequence of calls: lazy fields sound, no ROM write, substring bytes already canonical (1.7k states, 1 min) |
| `hstring_refinement` | default build, 5 handles (ROM empty and "A"; "😀\uDE00", lone high and low surrogates): `HString` refines `HStringAbstract`, i.e. every get_charlen, substring, charCodeAt and search result is the UTF-16 one (605 states, 40 s) |
| `hstring_lazy_noclen` | no clen field, 6 handles (ROM empty, "A", "é"; RAM "AB", "😀", a Symbol): ASCII flag sound, refines `HStringAbstract` |
| `hstring_eager` | init_charlen at creation, same handles: fields sound, refines `HStringAbstract` |
| `hstring_header` | all 8 builds; handles "", "7", "07", "4294967294", "4294967295", "4294967296", a Symbol and 65536 × "A", up to 3 live at once, every order of creation, lazy ASCII marking and getter calls: each getter returns the handle's hash, length, ASCII flag, byte equality and array index, and the 64 KiB string is refused under STRLEN16 rather than wrapping to length 0 (103k states, 40 s) |
| `cesu8` | every valid string of up to 3 code points over U+0041, U+00E9, U+0800, U+D83D, U+DE00, U+FFFF, U+10000, U+1F600, U+10FFFF: the first pass sizes the buffer at the CESU-8 length (16.6k states) |
| `cesu8_overflow` (violation) | the second pass writes past the buffer on any non-BMP input |
| `sanitize_clen_es` (violation) | `out_blen - out_clen_sub`, which the line-73 comment calls the output charlen, is not the ECMAScript length: a combined pair counts 1 |

Bounds: 4 bytes hold any single sequence with a trailing or leading byte to
re-read; 6 bytes hold a high + low surrogate pair, the shortest input where pairing
happens. The boundary alphabet contains both ends of every range the code tests,
so every branch of every comparison is taken.

HString's handles cover every path of `get_charlen` (fast path, ROM with clen 0,
Symbol, full count with and without ASCII result), a split non-BMP code point at
either end of a substring, a manufactured half next to a lone surrogate of the
other kind (the case where a re-pairing could happen), the empty match at the end
of a search, and both fast (ASCII) and slow paths. Every call sequence over them
is explored; the calls interact only through the fields, so a few calls (one per
RAM handle) reach every field combination.

The header handles are the array-index boundary: the largest index, the
sentinel 0xffffffff, the first value past 32 bits, a leading zero; `MaxLive`
(3) bounds the handles alive at once, since headers share no state and more
only multiplies interleavings. The hashes use both 16-bit halves, so the
STRHASH16 truncation matters. The 65536-byte handle is the shortest string
whose length `h_strextra16` cannot hold.

Fairness: only the `keepcheck` run assumes any, weak fairness of `Step`
(`MCWtf8KeepCheck.Spec`), to check `ScanTerminates`: a call is sequential code
with no lock, wait or callback, so once entered its next statement always runs.
The other properties are invariants (of one call, or of every reachable state of
the handles) and the refinement, which need no fairness.
`Returned` is the stuttering step after the call returns, so deadlock checking
still catches a call that gets stuck.

### Findings
`sanitize_clen_es`: the comment at line 73 calls `out_clen = out_blen -
out_clen_sub` the output charlen, but the loop adds 3 for a 4-byte code point
(line 200), so `out_clen` counts code points: `ED A0 80 ED B0 80` becomes
`F0 90 80 80` with `out_clen` 1, where the ECMAScript length
(`duk_unicode_wtf8_charlength`, spec 4.E) is 2. Spec 4.B.5's formula
("4-byte scalars add 3") is exactly what the code computes; the disagreement is
with the comment's name for the value and with the engine's character length.
The value is never used (`DUK_UNREF` at line 214), so nothing goes wrong at run
time; a caller that took it for the string's `clen` would store a wrong length.

`cesu8_overflow`: `duk_unicode_wtf8_to_cesu8` decodes a 4-byte sequence from
`p[0..2]` (line 710) without advancing `p` past them, so the three continuation
bytes are copied again by the following iterations. `F0 9F 98 80` is written as
`ED A0 BD ED B8 80 9F 98 80`, 9 bytes into the 6-byte buffer the first pass
sized: the `DUK_ASSERT(q <= buf + alloc_size)` fails, and without assertions the
heap is overrun. Spec 4.J gives `ED A0 BD ED B8 80`. (The function has no caller
under `src/`.)

## 4. Not modelled
Everything under `src/` that changes state is modelled. What remains:

- The heap (allocation, GC), the intern table and the char-to-byte cache are
  outside `src/`. The interner is modelled only by its interface: `Intern` in
  `HString`, and `Create` with its length check `InternLengthOk` in
  `HStringHeader`. The char-to-byte lookup is modelled as `ScanChar2Byte`, its
  result and not its caching policy.
- The `DUK_USE_HSTRING_EXTDATA` branch of `duk_hstring_get_data` (l. 51)
  returns `(x + 1)`, and no `x` is in scope. That build does not compile, and
  no model checks compilation. `GetData` models the intended data pointer.
- The `#if 0` reference ASCII check is not an operation. It is used as the
  reference for keepcheck (`AsciiPrefixLen`).
- Comments and assertions account for the lines of the two files the map does
  not name.
