-------------------------------- MODULE HString --------------------------------
(***************************************************************************)
(* The string handle of duk_hstring_misc.c and the operations of           *)
(* duk_unicode_wtf8.c that work on handles: get_charlen with its lazy      *)
(* 'clen' and ASCII flag, substring, charCodeAt and search.                *)
(*                                                                         *)
(* A handle is identified by its bytes (interning makes a handle's bytes   *)
(* unique).  Handles is the set of handles whose lazy fields are tracked;  *)
(* ReadOnly those that are READ_ONLY (ROM strings).  Variant is the build: *)
(*   "lazy_clen"    DUK_USE_HSTRING_LAZY_CLEN with DUK_USE_HSTRING_CLEN    *)
(*   "lazy_noclen"  DUK_USE_HSTRING_LAZY_CLEN without a 'clen' field       *)
(*   "eager"        'clen' computed by duk_hstring_init_charlen at creation*)
(*                                                                         *)
(* The intern table and the char-to-byte cache are not under src/; they   *)
(* are modelled from their interface (Intern, ScanChar2Byte).              *)
(***************************************************************************)
EXTENDS Wtf8

CONSTANTS Handles, ReadOnly, Variant

ASSUME /\ ReadOnly \subseteq Handles
       /\ Variant \in {"lazy_clen", "lazy_noclen", "eager"}
       /\ \A s \in Handles : IsSymbolInput(s) \/ Canonical(s)

VARIABLES
    clen,          \* h->clen per handle (0: not computed; unused in lazy_noclen)
    ascii,         \* DUK_HSTRING_HAS_ASCII per handle
    wroteReadOnly, \* some call wrote a field of a READ_ONLY handle
    last           \* the last call and what it returned

vars == <<clen, ascii, wroteReadOnly, last>>

StringHandles == {s \in Handles : ~IsSymbolInput(s)}

\* The ECMAScript length of a handle (0 for a Symbol).
EsLength(s) == IF IsSymbolInput(s) THEN 0 ELSE Len(Utf16(s))

IsAsciiBytes(s) == \A i \in 1..Len(s) : s[i] < \h80

-----------------------------------------------------------------------------
(***************************************************************************)
(* Interfaces of code outside src/ (spec section 6).                       *)
(***************************************************************************)

\* duk_push_lstring: intern the bytes, sanitizing a non-Symbol input.
Intern(b) == IF IsSymbolInput(b) THEN b ELSE RefSanitize(b)

\* Code point table of a valid string: byte and char offset of each code point.
RECURSIVE CpTable(_, _, _)
CpTable(s, b, c) ==
    IF b = Len(s) THEN <<>>
    ELSE LET k  == LeadLen(s[b + 1])
             cp == RawDecode(SubSeq(s, b + 1, b + k))
         IN <<[byte |-> b, char |-> c]>> \o CpTable(s, b + k, c + Len(Utf16Units(cp)))

\* duk_strcache_scan_char2byte_wtf8: byte offset of the code point holding
\* char offset pos, and that code point's char offset (pos or pos - 1).
ScanChar2Byte(s, pos) ==
    LET t == CpTable(s, 0, 0)
    IN IF pos = EsLength(s) THEN [byte |-> Len(s), char |-> pos]
       ELSE t[Max({i \in DOMAIN t : t[i].char <= pos})]

-----------------------------------------------------------------------------
(***************************************************************************)
(* duk_hstring_get_charlen in each build: the value returned, the fields   *)
(* after the call, and whether the call wrote a field.  c and a are the    *)
(* handle's clen and ASCII flag before the call.                           *)
(***************************************************************************)
Result(res, c, a, wrote) == [res |-> res, clen |-> c, ascii |-> a, wrote |-> wrote]

\* clen != 0: fast path; otherwise duk__hstring_get_charlen_slowpath.
CharlenLazyClenNoReadOnlyCheck(s, c, a) ==    \* mutant: the DUK_USE_ROM_STRINGS test left out
    IF c # 0 THEN Result(c, c, a, FALSE)
    ELSE IF IsSymbolInput(s) THEN Result(0, c, a, FALSE)
    ELSE LET res == CharLength(s)
         IN Result(res, res, a \/ res = Len(s), TRUE)

CharlenLazyClenAsciiUnconditional(s, c, a) ==    \* mutant: SET_ASCII outside its 'if'
    IF c # 0 THEN Result(c, c, a, FALSE)
    ELSE IF s \in ReadOnly THEN Result(0, c, a, FALSE)
    ELSE IF IsSymbolInput(s) THEN Result(0, c, a, FALSE)
    ELSE LET res == CharLength(s)
         IN Result(res, res, TRUE, TRUE)

CharlenLazyClen(s, c, a) ==
    IF c # 0 THEN Result(c, c, a, FALSE)
    ELSE IF s \in ReadOnly THEN Result(0, c, a, FALSE)
    ELSE IF IsSymbolInput(s) THEN Result(0, c, a, FALSE)
    ELSE LET res == CharLength(s)
         IN Result(res, res, a \/ res = Len(s), TRUE)

\* Without a clen field: ASCII flag or a full count on every call.
CharlenLazyNoClenNoSymbolCheck(s, c, a) ==    \* mutant: a Symbol's bytes counted
    IF a THEN Result(Len(s), c, a, FALSE)
    ELSE LET res == CharLength(s)
         IN IF s \in ReadOnly THEN Result(res, c, a, FALSE)
            ELSE IF res = Len(s) THEN Result(res, c, TRUE, TRUE)
            ELSE Result(res, c, a, FALSE)

CharlenLazyNoClenAsciiUnconditional(s, c, a) ==    \* mutant: SET_ASCII outside its 'if'
    IF a THEN Result(Len(s), c, a, FALSE)
    ELSE IF IsSymbolInput(s) THEN Result(0, c, a, FALSE)
    ELSE LET res == CharLength(s)
         IN IF s \in ReadOnly THEN Result(res, c, a, FALSE)
            ELSE Result(res, c, TRUE, TRUE)

CharlenLazyNoClen(s, c, a) ==
    IF a THEN Result(Len(s), c, a, FALSE)
    ELSE IF IsSymbolInput(s) THEN Result(0, c, a, FALSE)
    ELSE LET res == CharLength(s)
         IN IF s \in ReadOnly THEN Result(res, c, a, FALSE)
            ELSE IF res = Len(s) THEN Result(res, c, TRUE, TRUE)
            ELSE Result(res, c, a, FALSE)

\* Non-lazy build: the field set at creation.
CharlenEager(s, c, a) == Result(c, c, a, FALSE)

CharlenCall(s, c, a) ==
    CASE Variant = "lazy_clen"   -> CharlenLazyClen(s, c, a)
      [] Variant = "lazy_noclen" -> CharlenLazyNoClen(s, c, a)
      [] OTHER                   -> CharlenEager(s, c, a)

\* duk_hstring_init_charlen (non-lazy build), at creation.
InitCharlenNoSymbolCheck(s) ==    \* mutant: a Symbol's bytes counted
    LET c == CharLength(s)
    IN [clen |-> c, ascii |-> c = Len(s)]

InitCharlen(s) ==
    LET c == IF IsSymbolInput(s) THEN 0 ELSE CharLength(s)
    IN [clen |-> c, ascii |-> c = Len(s)]

-----------------------------------------------------------------------------
(***************************************************************************)
(* Initial handles.  RAM strings start lazy (clen 0; the interner may have *)
(* set ASCII on an ASCII string); ROM strings carry a precomputed clen and *)
(* ASCII flag; the eager build runs init_charlen.                          *)
(***************************************************************************)
Init ==
    /\ \/ /\ Variant = "eager"
          /\ clen = [s \in Handles |-> InitCharlen(s).clen]
          /\ ascii = [s \in Handles |-> InitCharlen(s).ascii]
       \/ /\ Variant # "eager"
          /\ clen = [s \in Handles |->
                        IF s \in ReadOnly /\ Variant = "lazy_clen" THEN EsLength(s) ELSE 0]
          /\ ascii \in {f \in [Handles -> BOOLEAN] :
                          \A s \in Handles :
                             /\ f[s] => IsAsciiBytes(s)
                             /\ s \in ReadOnly => f[s] = IsAsciiBytes(s)}
    /\ wroteReadOnly = FALSE
    /\ last = [op |-> "none"]

\* Apply a get_charlen call on handle s.
Apply(s, r) ==
    /\ clen' = [clen EXCEPT ![s] = r.clen]
    /\ ascii' = [ascii EXCEPT ![s] = r.ascii]
    /\ wroteReadOnly' = (wroteReadOnly \/ (r.wrote /\ s \in ReadOnly))

GetCharlen(s) ==
    LET r == CharlenCall(s, clen[s], ascii[s])
    IN /\ Apply(s, r)
       /\ last' = [op |-> "charlen", h |-> s, res |-> r.res]

(***************************************************************************)
(* duk_push_wtf8_substring_hstring: the bytes pushed for [st, en[ of s,    *)
(* given the get_charlen result cl.  A split non-BMP code point at either  *)
(* end contributes a manufactured surrogate (0: none).                     *)
(***************************************************************************)
SurrogateBytes(x) ==
    IF x = 0 THEN <<>> ELSE <<\hed, \h80 + ((x \div 64) % 64), \h80 + (x % 64)>>

LowHalf(cp)  == \hdc00 + ((cp - \h10000) % 1024)
HighHalf(cp) == \hd800 + ((cp - \h10000) \div 1024)

SubstringBytesNoSkip(s, st, en, cl) ==    \* mutant: copy_start = start_byteoff after a split
    IF cl = Len(s) THEN SubSeq(s, st + 1, en)
    ELSE IF st = en THEN <<>>
    ELSE LET a         == ScanChar2Byte(s, st)
             b         == ScanChar2Byte(s, en)
             prefix    == IF a.char # st THEN LowHalf(DecodeKnown(s, a.byte + 1)) ELSE 0
             suffix    == IF b.char # en THEN HighHalf(DecodeKnown(s, b.byte + 1)) ELSE 0
         IN SurrogateBytes(prefix) \o SubSeq(s, a.byte + 1, b.byte) \o SurrogateBytes(suffix)

SubstringBytesPrefixHigh(s, st, en, cl) ==    \* mutant: prefix and suffix halves swapped
    IF cl = Len(s) THEN SubSeq(s, st + 1, en)
    ELSE IF st = en THEN <<>>
    ELSE LET a         == ScanChar2Byte(s, st)
             b         == ScanChar2Byte(s, en)
             prefix    == IF a.char # st THEN HighHalf(DecodeKnown(s, a.byte + 1)) ELSE 0
             copyStart == IF a.char # st THEN a.byte + 4 ELSE a.byte
             suffix    == IF b.char # en THEN LowHalf(DecodeKnown(s, b.byte + 1)) ELSE 0
         IN SurrogateBytes(prefix) \o SubSeq(s, copyStart + 1, b.byte) \o SurrogateBytes(suffix)

SubstringBytes(s, st, en, cl) ==
    IF cl = Len(s) THEN SubSeq(s, st + 1, en)
    ELSE IF st = en THEN <<>>
    ELSE LET a         == ScanChar2Byte(s, st)
             b         == ScanChar2Byte(s, en)
             prefix    == IF a.char # st THEN LowHalf(DecodeKnown(s, a.byte + 1)) ELSE 0
             copyStart == IF a.char # st THEN a.byte + 4 ELSE a.byte
             suffix    == IF b.char # en THEN HighHalf(DecodeKnown(s, b.byte + 1)) ELSE 0
         IN SurrogateBytes(prefix) \o SubSeq(s, copyStart + 1, b.byte) \o SurrogateBytes(suffix)

\* The caller passes 0 <= st <= en <= charlen.
Substring(s, st, en) ==
    LET r == CharlenCall(s, clen[s], ascii[s])
    IN /\ Apply(s, r)
       /\ last' = [op |-> "substring", h |-> s, st |-> st, en |-> en,
                   pushed |-> SubstringBytes(s, st, en, r.res),
                   res |-> Intern(SubstringBytes(s, st, en, r.res))]

(***************************************************************************)
(* duk_unicode_wtf8_charcodeat_helper, for 0 <= pos < charlen.             *)
(***************************************************************************)
CharCodeAtValueAwareLow(s, pos, aware, cl) ==    \* mutant: surrogate-aware on the low half too
    IF cl = Len(s) THEN s[pos + 1]
    ELSE LET a  == ScanChar2Byte(s, pos)
             cp == DecodeKnown(s, a.byte + 1)
         IN CASE cp < \h10000  -> cp
              [] aware         -> cp
              [] a.char = pos  -> HighHalf(cp)
              [] OTHER         -> LowHalf(cp)

CharCodeAtValue(s, pos, aware, cl) ==
    IF cl = Len(s) THEN s[pos + 1]
    ELSE LET a  == ScanChar2Byte(s, pos)
             cp == DecodeKnown(s, a.byte + 1)
         IN CASE cp < \h10000  -> cp
              [] a.char = pos  -> IF aware THEN cp ELSE HighHalf(cp)
              [] OTHER         -> LowHalf(cp)

\* duk_hstring_char_code_at_raw: forwards to the helper.
CharCodeAtRaw(s, pos, aware, cl) == CharCodeAtValue(s, pos, aware, cl)

CharCodeAt(s, pos, aware) ==
    LET r == CharlenCall(s, clen[s], ascii[s])
    IN /\ Apply(s, r)
       /\ last' = [op |-> "charCodeAt", h |-> s, pos |-> pos, aware |-> aware,
                   res |-> CharCodeAtRaw(s, pos, aware, r.res)]

(***************************************************************************)
(* duk_unicode_wtf8_search_forwards / _backwards: get_charlen of the input *)
(* then of the match, then a substring at each candidate offset compared   *)
(* with the match by interned identity.  The substrings' own get_charlen   *)
(* calls on the input change nothing after the first call, and the         *)
(* temporary handles they intern are popped again.                         *)
(***************************************************************************)
Matches(s, m, off, il, ml) ==
    /\ off + ml <= il
    /\ Intern(SubstringBytes(s, off, off + ml, il)) = m

\* The offsets the loop visits: start..input_charlen forwards ("must scan
\* to charoff == input_charlen for zero length input"), start..0 backwards.
SearchOffsetsBeforeEnd(start, il, forwards) ==    \* mutant: charoff < input_charlen
    IF forwards THEN start..(il - 1) ELSE 0..start

SearchOffsets(start, il, forwards) ==
    IF forwards THEN start..il ELSE 0..start

\* The first offset the loop finds, in its order, or -1.
SearchResult(s, m, start, il, ml, forwards) ==
    LET hits == {off \in SearchOffsets(start, il, forwards) : Matches(s, m, off, il, ml)}
    IN CASE hits = {} -> -1
         [] forwards  -> Min(hits)
         [] OTHER     -> Max(hits)

Search(s, m, start, forwards) ==
    LET r1 == CharlenCall(s, clen[s], ascii[s])
        c1 == [clen EXCEPT ![s] = r1.clen]
        a1 == [ascii EXCEPT ![s] = r1.ascii]
        r2 == CharlenCall(m, c1[m], a1[m])
        res == SearchResult(s, m, start, r1.res, r2.res, forwards)
    IN /\ clen' = [c1 EXCEPT ![m] = r2.clen]
       /\ ascii' = [a1 EXCEPT ![m] = r2.ascii]
       /\ wroteReadOnly' = (wroteReadOnly \/ (r1.wrote /\ s \in ReadOnly)
                                          \/ (r2.wrote /\ m \in ReadOnly))
       /\ last' = [op |-> "search", h |-> s, m |-> m, start |-> start,
                   forwards |-> forwards, res |-> res]

Next ==
    \/ \E s \in Handles : GetCharlen(s)
    \/ \E s \in StringHandles : \E st, en \in 0..EsLength(s) :
          st <= en /\ Substring(s, st, en)
    \/ \E s \in StringHandles : \E pos \in 0..EsLength(s) - 1, aware \in BOOLEAN :
          CharCodeAt(s, pos, aware)
    \/ \E s, m \in StringHandles : \E start \in 0..EsLength(s), forwards \in BOOLEAN :
          Search(s, m, start, forwards)

Spec == Init /\ [][Next]_vars

-----------------------------------------------------------------------------
\* A lazily filled field, once set, holds the truth: a nonzero clen is the
\* handle's ECMAScript length (0 for a Symbol), and ASCII is set only on a
\* string whose bytes are all ASCII.  Substring and charCodeAt read
\* 'get_charlen == blen' as "ASCII"; a wrong field sends them down the
\* byte-indexed fast path.
LazyFieldsSound ==
    \A s \in Handles :
        /\ clen[s] # 0 => clen[s] = EsLength(s)
        /\ ascii[s] => IsAsciiBytes(s)

\* No call ever writes a field of a READ_ONLY (ROM) handle ("can't write
\* anything"), whatever the build and whatever the call sequence.
NoWriteToReadOnly == ~wroteReadOnly

\* The bytes substring pushes are already canonical WTF-8: interning keeps
\* them as they are, so a manufactured surrogate never lands next to a
\* partner it would have to be combined with.
SubstringIsCanonical ==
    last.op = "substring" => last.res = last.pushed

-----------------------------------------------------------------------------
(***************************************************************************)
(* Refinement: seen through the UTF-16 view of each handle, every call is  *)
(* a step of HStringAbstract.  A Symbol handle is mapped to an opaque      *)
(* Symbol, a substring's result to the UTF-16 view of the string interned. *)
(***************************************************************************)
AbsHandle(s) ==
    [symbol |-> IsSymbolInput(s), units |-> IF IsSymbolInput(s) THEN s ELSE Utf16(s)]

\* The abstract view of each handle, computed once.
AbsOf == [s \in Handles |-> AbsHandle(s)]

AbsResult ==
    CASE last.op = "substring" ->
            [op |-> "substring", h |-> AbsOf[last.h], st |-> last.st, en |-> last.en,
             res |-> AbsHandle(last.res)]
      [] last.op = "search" ->
            [last EXCEPT !.h = AbsOf[last.h], !.m = AbsOf[last.m]]
      [] last.op = "none" -> last
      [] OTHER -> [last EXCEPT !.h = AbsOf[last.h]]

AbsStrings == {AbsOf[s] : s \in StringHandles}
AbsSymbols == {AbsOf[s] : s \in Handles \ StringHandles}

Abstract == INSTANCE HStringAbstract WITH
    Strings <- AbsStrings,
    Symbols <- AbsSymbols,
    result  <- AbsResult

\* Every sequence of get_charlen, substring, charCodeAt and search calls,
\* whatever the lazy fields hold and whichever path (ASCII fast path, clen
\* field, char-to-byte scan) answers, returns what the UTF-16 string
\* operations of HStringAbstract return.
RefinesAbstract == Abstract!Spec

=============================================================================
