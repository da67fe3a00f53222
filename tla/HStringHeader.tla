------------------------------ MODULE HStringHeader ------------------------------
(***************************************************************************)
(* The header fields of a duk_hstring and the getters and setters of       *)
(* duk_hstring_misc.c that read and write them, in every combination of    *)
(* the build options that change their layout:                             *)
(*   strhash16  DUK_USE_STRHASH16: the hash is the upper half of the       *)
(*              32-bit flags word h_flags, whose lower half holds the      *)
(*              heap header type bits and the string flags                 *)
(*   strlen16   DUK_USE_STRLEN16: the byte length is the 16-bit field      *)
(*              h_strextra16                                               *)
(*   arridx     DUK_USE_HSTRING_ARRIDX: the array index is cached in       *)
(*              h->arridx instead of recomputed from the HAS_ARRIDX flag   *)
(*                                                                         *)
(* A handle is a model value; its bytes are the constant Bytes[h], so a    *)
(* 64 KiB string costs nothing per state.  Its creation (the intern        *)
(* table's allocation, not under src/) is modelled from spec sections 3    *)
(* and 6.                                                                  *)
(***************************************************************************)
EXTENDS Wtf8, Bitwise

CONSTANTS
    Handles,   \* the handles
    Bytes,     \* [Handles -> Seq(Byte)]: each handle's bytes
    StrHash,   \* [Handles -> Word32]: the interner's hash of the bytes
    CStrings,  \* ASCII C strings given to equals_ascii_cstring
    FlagBit,   \* [{"ascii", "symbol", "arridx"} -> bit]: string flag masks
    TypeBits,  \* the heap header type bits of a string in h_flags
    MaxLive    \* bound: handles live at the same time

(***************************************************************************)
(* A 32-bit word is a record of its upper and lower 16-bit halves (TLC's  *)
(* integers stop at 2^31).                                                 *)
(***************************************************************************)
Half == 2^16
Word32 == [hi : 0..Half - 1, lo : 0..Half - 1]
W(hi, lo) == [hi |-> hi, lo |-> lo]
AndW(x, y) == W(x.hi & y.hi, x.lo & y.lo)
OrW(x, y) == W(x.hi | y.hi, x.lo | y.lo)
Shl16(x) == W(x.lo, 0)     \* (duk_uint32_t) x << 16
Shr16(x) == W(0, x.hi)     \* x >> 16
LessW(x, y) == x.hi < y.hi \/ (x.hi = y.hi /\ x.lo < y.lo)

ASSUME /\ DOMAIN Bytes = Handles
       /\ StrHash \in [Handles -> Word32]
       /\ \A f \in DOMAIN FlagBit : FlagBit[f] \in 1..Half - 1 /\ (FlagBit[f] & TypeBits) = 0
       /\ TypeBits \in 0..Half - 1
       /\ MaxLive \in Nat

\* DUK_HSTRING_NO_ARRAY_INDEX, 0xffffffff
NoArrayIndex == W(Half - 1, Half - 1)

VARIABLES
    build,   \* the build options, fixed for a run
    hdr,     \* per handle: live, h_flags, h->hash, byte length, h->arridx
    last     \* the last read and what it returned

vars == <<build, hdr, last>>

Builds == [strhash16 : BOOLEAN, strlen16 : BOOLEAN, arridx : BOOLEAN]

Unborn == [live |-> FALSE, flags |-> W(0, 0), hash |-> W(0, 0), blen |-> 0, arridx |-> W(0, 0)]

IsAsciiBytes(s) == \A i \in 1..Len(s) : s[i] < \h80

\* Each handle's byte length and whether it is all ASCII, computed once.
BLen == [h \in Handles |-> Len(Bytes[h])]
AsciiOf == [h \in Handles |-> IsAsciiBytes(Bytes[h])]

HasFlag(h, f) == (hdr[h].flags.lo & FlagBit[f]) # 0

-----------------------------------------------------------------------------
(***************************************************************************)
(* Interfaces of code outside src/.                                        *)
(***************************************************************************)

\* The array index of a string: a canonical unsigned decimal below
\* 2^32 - 1 (spec 3, 'arridx'), else NO_ARRAY_INDEX.
\* Its value as a word (the upper half may exceed 16 bits for 10 digits).
DecimalValue(b) ==
    FoldLeft(LAMBDA acc, c : LET lo == acc.lo * 10 + (c - 48)
                             IN W(acc.hi * 10 + lo \div Half, lo % Half),
             W(0, 0), b)

ArrayIndex(b) ==
    IF /\ Len(b) > 0
       /\ \A i \in 1..Len(b) : b[i] \in 48..57
       /\ (b[1] # 48 \/ Len(b) = 1)
       /\ LessW(DecimalValue(b), NoArrayIndex)
    THEN DecimalValue(b) ELSE NoArrayIndex

\* The array index of each handle, computed once.
ArrayIndexOf == [h \in Handles |-> ArrayIndex(Bytes[h])]

\* duk_js_to_arrayindex_hstring_fast_known / _fast: parse the bytes.
ToArrayIndexFastKnown(h) == ArrayIndexOf[h]
ToArrayIndexFast(h) == ArrayIndexOf[h]

\* The intern table's length limit (DUK_HSTRING_MAX_BYTELEN): a string
\* whose length does not fit h_strextra16 is refused under STRLEN16
\* ("Bytelength checked during interning", duk_hstring_misc.c).
InternLengthOkAnyBuild(h) ==    \* mutant: the 16-bit limit not applied
    BLen[h] <= 2147483647

InternLengthOk(h) ==
    BLen[h] <= IF build.strlen16 THEN Half - 1 ELSE 2147483647

\* The hash the interner hands to set_hash: 16 bits wide in a STRHASH16 build.
InternHash(h) == IF build.strhash16 THEN W(0, StrHash[h].lo) ELSE StrHash[h]

\* The header word as DUK_HEAPHDR_SET_TYPE_AND_FLAGS and the interner's
\* flag setters leave it before the hash is stored.
CreationFlags(h) ==
    W(0, TypeBits
           | (IF IsSymbolInput(Bytes[h]) THEN FlagBit["symbol"] ELSE 0)
           | (IF ArrayIndexOf[h] # NoArrayIndex THEN FlagBit["arridx"] ELSE 0))

CreationFlagsOf == [h \in Handles |-> CreationFlags(h)]

-----------------------------------------------------------------------------
(***************************************************************************)
(* Setters.  Each takes and returns one handle's header record.            *)
(***************************************************************************)

\* duk_hstring_set_hash
SetHashMaskHigh(r, hash) ==    \* mutant: the flags' mask inverted to 0xffff0000
    IF build.strhash16
    THEN [r EXCEPT !.flags = OrW(AndW(@, W(Half - 1, 0)), Shl16(hash))]
    ELSE [r EXCEPT !.hash = hash]

SetHash(r, hash) ==
    IF build.strhash16
    THEN [r EXCEPT !.flags = OrW(AndW(@, W(0, Half - 1)), Shl16(hash))]
    ELSE [r EXCEPT !.hash = hash]

\* duk_hstring_set_bytelen: h_strextra16 or blen takes the low bits.
SetByteLen(r, len) ==
    [r EXCEPT !.blen = IF build.strlen16 THEN len % Half ELSE len]

-----------------------------------------------------------------------------
(***************************************************************************)
(* Getters.                                                                *)
(***************************************************************************)

GetByteLen(h) == hdr[h].blen

GetHash(h) == IF build.strhash16 THEN Shr16(hdr[h].flags) ELSE hdr[h].hash

IsAscii(h) == HasFlag(h, "ascii")

IsEmpty(h) == GetByteLen(h) = 0

\* duk_hstring_get_data: the bytes after the header, or at h->extdata.
GetData(h) == Bytes[h]

\* duk_hstring_get_data_end (and get_data_and_bytelen): data + byte length,
\* as an offset from the data pointer.
GetDataEnd(h) == GetByteLen(h)

\* duk_hstring_equals_ascii_cstring: length compare, then memcmp.
EqualsAsciiCstringNoLen(h, c) ==    \* mutant: the length compare left out
    Len(c) <= BLen[h] /\ SubSeq(GetData(h), 1, Len(c)) = c

EqualsAsciiCstring(h, c) ==
    Len(c) = GetByteLen(h) /\ SubSeq(GetData(h), 1, Len(c)) = c

GetArridxFast(h) ==
    IF build.arridx THEN hdr[h].arridx
    ELSE IF HasFlag(h, "arridx") THEN ToArrayIndexFastKnown(h) ELSE NoArrayIndex

GetArridxFastKnown(h) ==
    IF build.arridx THEN hdr[h].arridx ELSE ToArrayIndexFastKnown(h)

GetArridxSlow(h) ==
    IF build.arridx THEN hdr[h].arridx ELSE ToArrayIndexFast(h)

-----------------------------------------------------------------------------
(***************************************************************************)
(* Actions.                                                                *)
(***************************************************************************)

\* The intern table allocates the handle: header word, hash, byte length
\* and (ARRIDX build) the cached array index.
Create(h) ==
    /\ ~hdr[h].live
    /\ InternLengthOk(h)
    /\ Cardinality({g \in Handles : hdr[g].live}) < MaxLive
    /\ LET r0 == [Unborn EXCEPT !.live = TRUE, !.flags = CreationFlagsOf[h],
                                !.arridx = IF build.arridx THEN ArrayIndexOf[h] ELSE W(0, 0)]
       IN hdr' = [hdr EXCEPT ![h] = SetByteLen(SetHash(r0, InternHash(h)), BLen[h])]
    /\ UNCHANGED <<build, last>>

\* get_charlen's lazy DUK_HSTRING_SET_ASCII (h_flags |= flag) once its
\* count equals the byte length; a Symbol returns 0 before it.
SetAscii(h) ==
    /\ hdr[h].live
    /\ ~IsSymbolInput(Bytes[h])
    /\ AsciiOf[h]
    /\ hdr' = [hdr EXCEPT ![h].flags = OrW(@, W(0, FlagBit["ascii"]))]
    /\ UNCHANGED <<build, last>>

\* A getter call on a live handle (c: the C string argument, if any).
ReadCall(h, op, c, res) ==
    /\ hdr[h].live
    /\ last' = [op |-> op, h |-> h, c |-> c, res |-> res]
    /\ UNCHANGED <<build, hdr>>

Read(h) ==
    \/ ReadCall(h, "is_ascii", <<>>, IsAscii(h))
    \/ ReadCall(h, "is_empty", <<>>, IsEmpty(h))
    \/ ReadCall(h, "get_hash", <<>>, GetHash(h))
    \/ ReadCall(h, "get_bytelen", <<>>, GetByteLen(h))
    \/ ReadCall(h, "get_data_end", <<>>, GetDataEnd(h))
    \/ \E c \in CStrings : ReadCall(h, "equals", c, EqualsAsciiCstring(h, c))
    \/ ReadCall(h, "arridx_fast", <<>>, GetArridxFast(h))
    \/ ReadCall(h, "arridx_slow", <<>>, GetArridxSlow(h))
    \/ /\ HasFlag(h, "arridx")
       /\ ReadCall(h, "arridx_fast_known", <<>>, GetArridxFastKnown(h))

Init ==
    /\ build \in Builds
    /\ hdr = [h \in Handles |-> Unborn]
    /\ last = [op |-> "none"]

Next == \E h \in Handles : Create(h) \/ SetAscii(h) \/ Read(h)

Spec == Init /\ [][Next]_vars

-----------------------------------------------------------------------------
\* Every header getter returns the handle's own value, in every build: the
\* hash the interner stored (16 bits of it under STRHASH16, sharing a word
\* with the flags), the byte length, the lazy ASCII flag only for ASCII
\* bytes, and equals_ascii_cstring exactly byte equality.  Under STRLEN16
\* this rests on the interner refusing what h_strextra16 cannot hold.
HeaderReadsBack ==
    LET h == last.h IN
    CASE last.op = "is_ascii"    -> last.res => AsciiOf[h]
      [] last.op = "is_empty"    -> last.res = (BLen[h] = 0)
      [] last.op = "get_hash"    -> last.res = InternHash(h)
      [] last.op \in {"get_bytelen", "get_data_end"} -> last.res = BLen[h]
      [] last.op = "equals"      -> last.res = (Len(last.c) = BLen[h] /\ last.c = Bytes[h])
      [] OTHER -> TRUE

\* The three array-index getters agree with the string's array index in
\* every build, whether they read the cached h->arridx or recompute it
\* from the HAS_ARRIDX flag kept in the same word as a 16-bit hash.
ArridxAgrees ==
    last.op \in {"arridx_fast", "arridx_slow", "arridx_fast_known"} =>
        last.res = ArrayIndexOf[last.h]

=============================================================================
