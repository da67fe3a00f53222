-------------------------------- MODULE Wtf8 --------------------------------
(***************************************************************************)
(* Pure WTF-8 helpers of duk_unicode_wtf8.c, as operators over byte        *)
(* sequences (sequences of integers 0..255), together with the reference   *)
(* definitions they are checked against:                                   *)
(*                                                                         *)
(*  - IsValidWtf8, DecodeKnown, CharLength: translated from the code;      *)
(*  - EncodeCp, RefValid, RefCodepoints, Utf16, Canonical, RefSanitize:    *)
(*    the Unicode definitions (shortest-form encoding of any code point    *)
(*    up to U+10FFFF, surrogates included; UTF-16 view; one U+FFFD per     *)
(*    maximal ill-formed subpart) the code is meant to implement.          *)
(*                                                                         *)
(* Shifts and masks are written as their arithmetic equivalents on         *)
(* non-negative integers: x >> n is x \div 2^n, x & (2^n-1) is x % 2^n.    *)
(***************************************************************************)
EXTENDS Integers, Sequences, SequencesExt

Byte == 0..255

\* The symbol marker bytes tested in sanitize_detect and keepcheck.
SymbolMarkers == {\h80, \h81, \h82, \hff}

\* sanitize_detect: a non-empty input whose first byte is a marker.
IsSymbolInput(s) == Len(s) > 0 /\ s[1] > \h7f /\ s[1] \in SymbolMarkers

\* U+FFFD encoded, emitted by the sanitizer's 'replacement' label.
Replacement == <<\hef, \hbf, \hbd>>

Drop(s, k) == SubSeq(s, k + 1, Len(s))

(***************************************************************************)
(* duk_unicode_is_valid_wtf8(): the loop, one lead byte per recursion.     *)
(***************************************************************************)
\* Range of the first continuation byte after lead t: lower bound A0 after
\* E0 and 90 after F0 (no overlong forms), upper bound 8F after F4 (nothing
\* above U+10FFFF).
ValidSecondRangeE0Overlong(t) ==    \* mutant: lower bound 80 after E0 too
    CASE t <= \hef -> \h80..\hbf
      [] OTHER     -> (IF t = \hf0 THEN \h90 ELSE \h80)..(IF t = \hf4 THEN \h8f ELSE \hbf)

ValidSecondRange(t) ==
    CASE t <= \hdf -> \h80..\hbf
      [] t <= \hef -> (IF t = \he0 THEN \ha0 ELSE \h80)..\hbf
      [] OTHER     -> (IF t = \hf0 THEN \h90 ELSE \h80)..(IF t = \hf4 THEN \h8f ELSE \hbf)

RECURSIVE ValidFrom(_, _)
ValidFrom(s, i) ==
    IF i = Len(s) + 1 THEN TRUE
    ELSE LET t    == s[i]
             left == Len(s) - i + 1
             Cont(j) == s[i + j] \in \h80..\hbf
         IN CASE t <= \h7f -> ValidFrom(s, i + 1)
              [] t <= \hc1 -> FALSE
              [] t <= \hdf -> /\ left >= 2
                              /\ s[i + 1] \in ValidSecondRange(t)
                              /\ ValidFrom(s, i + 2)
              [] t <= \hef -> /\ left >= 3
                              /\ s[i + 1] \in ValidSecondRange(t) /\ Cont(2)
                              /\ ValidFrom(s, i + 3)
              [] t <= \hf4 -> /\ left >= 4
                              /\ s[i + 1] \in ValidSecondRange(t) /\ Cont(2) /\ Cont(3)
                              /\ ValidFrom(s, i + 4)
              [] OTHER     -> FALSE

IsValidWtf8(s) == ValidFrom(s, 1)

(***************************************************************************)
(* duk_unicode_wtf8_decode_known(): decode the code point whose lead byte  *)
(* is s[i], s being valid WTF-8.                                           *)
(***************************************************************************)
DecodeKnownContMask5(s, i) ==    \* mutant: continuation bytes masked with 0x1f
    LET t == s[i]
        c(j) == s[i + j] % 32
    IN CASE t <= \h7f -> t
         [] t <= \hdf -> (t % 32) * 64 + c(1)
         [] t <= \hef -> (t % 16) * 4096 + c(1) * 64 + c(2)
         [] OTHER     -> (t % 8) * 262144 + c(1) * 4096 + c(2) * 64 + c(3)

DecodeKnown(s, i) ==
    LET t == s[i]
        c(j) == s[i + j] % 64
    IN CASE t <= \h7f -> t
         [] t <= \hdf -> (t % 32) * 64 + c(1)
         [] t <= \hef -> (t % 16) * 4096 + c(1) * 64 + c(2)
         [] OTHER     -> (t % 8) * 262144 + c(1) * 4096 + c(2) * 64 + c(3)

(***************************************************************************)
(* duk_unicode_wtf8_charlength(): clen = blen - adj, where a 2-byte        *)
(* sequence adds 1 to adj, a 3-byte one 2 and a 4-byte one 2 (it is two    *)
(* ECMAScript characters).                                                 *)
(***************************************************************************)
RECURSIVE CharLengthAdjNonBmpOne(_, _)
CharLengthAdjNonBmpOne(s, i) ==    \* mutant: a 4-byte sequence counted as one char
    IF i = Len(s) + 1 THEN 0
    ELSE CASE s[i] <= \h7f -> CharLengthAdjNonBmpOne(s, i + 1)
           [] s[i] <= \hdf -> 1 + CharLengthAdjNonBmpOne(s, i + 2)
           [] s[i] <= \hef -> 2 + CharLengthAdjNonBmpOne(s, i + 3)
           [] OTHER        -> 3 + CharLengthAdjNonBmpOne(s, i + 4)

RECURSIVE CharLengthAdj(_, _)
CharLengthAdj(s, i) ==
    IF i = Len(s) + 1 THEN 0
    ELSE CASE s[i] <= \h7f -> CharLengthAdj(s, i + 1)
           [] s[i] <= \hdf -> 1 + CharLengthAdj(s, i + 2)
           [] s[i] <= \hef -> 2 + CharLengthAdj(s, i + 3)
           [] OTHER        -> 2 + CharLengthAdj(s, i + 4)

CharLength(s) == Len(s) - CharLengthAdj(s, 1)

-----------------------------------------------------------------------------
(***************************************************************************)
(* Reference definitions (Unicode and ECMAScript), not taken from the code.*)
(***************************************************************************)

\* Shortest-form UTF-8 encoding of a code point (surrogates encode like any
\* other code point in WTF-8).
EncodeCp(cp) ==
    CASE cp <= \h7f   -> <<cp>>
      [] cp <= \h7ff  -> <<\hc0 + cp \div 64, \h80 + (cp % 64)>>
      [] cp <= \hffff -> <<\he0 + cp \div 4096, \h80 + ((cp \div 64) % 64),
                           \h80 + (cp % 64)>>
      [] OTHER        -> <<\hf0 + cp \div 262144, \h80 + ((cp \div 4096) % 64),
                           \h80 + ((cp \div 64) % 64), \h80 + (cp % 64)>>

\* Sequence length announced by a lead byte's high bits (0: not a lead).
LeadLen(t) ==
    CASE t < \h80 -> 1
      [] t < \hc0 -> 0
      [] t < \he0 -> 2
      [] t < \hf0 -> 3
      [] t < \hf8 -> 4
      [] OTHER    -> 0

\* The payload bits of a sequence, read without any range check.
RawDecode(b) ==
    LET lead == IF Len(b) = 1 THEN b[1] ELSE b[1] % (2 ^ (7 - Len(b)))
    IN FoldLeft(LAMBDA acc, x : acc * 64 + (x % 64), lead, Tail(b))

\* b is the shortest-form encoding of a code point in 0..U+10FFFF.
IsEncoding(b) ==
    /\ Len(b) \in 1..4
    /\ LeadLen(b[1]) = Len(b)
    /\ RawDecode(b) <= \h10ffff
    /\ EncodeCp(RawDecode(b)) = b

RECURSIVE RefValid(_)
RefValid(s) ==
    \/ s = <<>>
    \/ LET k == LeadLen(s[1])
       IN k \in 1..Len(s) /\ IsEncoding(SubSeq(s, 1, k)) /\ RefValid(Drop(s, k))

\* The code points of a valid WTF-8 sequence.
RECURSIVE RefCodepoints(_)
RefCodepoints(s) ==
    IF s = <<>> THEN <<>>
    ELSE LET k == LeadLen(s[1])
         IN <<RawDecode(SubSeq(s, 1, k))>> \o RefCodepoints(Drop(s, k))

IsHighSurrogate(cp) == cp \in \hd800..\hdbff
IsLowSurrogate(cp)  == cp \in \hdc00..\hdfff

\* ECMAScript view: a code point as one or two UTF-16 code units.
Utf16Units(cp) ==
    IF cp < \h10000 THEN <<cp>>
    ELSE <<\hd800 + (cp - \h10000) \div 1024, \hdc00 + ((cp - \h10000) % 1024)>>

Utf16(s) == FlattenSeq([i \in DOMAIN RefCodepoints(s) |-> Utf16Units(RefCodepoints(s)[i])])

\* WTF-8 canonical form: valid, and no high surrogate directly followed by a
\* low surrogate (such a pair must use the 4-byte form).
Canonical(s) ==
    /\ RefValid(s)
    /\ LET cps == RefCodepoints(s)
       IN ~\E i \in 1..Len(cps) - 1 : IsHighSurrogate(cps[i]) /\ IsLowSurrogate(cps[i + 1])

\* b is a prefix of some valid encoding.  The second byte of a valid
\* sequence ranges over 80..BF, A0..BF, 90..BF or 80..8F depending on the
\* lead, each of which holds one of 80, 90, A0; later bytes range over 80..BF.
IsEncodingPrefix(b) ==
    \E x \in {\h80, \h90, \ha0} :
        LET k == LeadLen(b[1])
            fill == [j \in 1..k |-> IF j <= Len(b) THEN b[j]
                                    ELSE IF j = 2 THEN x ELSE \h80]
        IN k >= Len(b) /\ IsEncoding(fill)

\* Length of the maximal ill-formed subpart at the start of s (s non-empty,
\* no valid encoding at its start): the longest proper prefix of an
\* encoding, at least one byte.
MaximalSubpart(s) ==
    LET ks == {k \in 1..Min({3, Len(s)}) : IsEncodingPrefix(SubSeq(s, 1, k))}
    IN IF ks = {} THEN 1 ELSE Max(ks)

\* The code points of any byte sequence, with U+FFFD standing for each
\* maximal ill-formed subpart.
RECURSIVE RefDecodeLossy(_)
RefDecodeLossy(s) ==
    IF s = <<>> THEN <<>>
    ELSE LET k == LeadLen(s[1])
         IN IF k \in 1..Len(s) /\ IsEncoding(SubSeq(s, 1, k))
            THEN <<RawDecode(SubSeq(s, 1, k))>> \o RefDecodeLossy(Drop(s, k))
            ELSE <<\hfffd>> \o RefDecodeLossy(Drop(s, MaximalSubpart(s)))

\* Combine each high surrogate directly followed by a low surrogate, left
\* to right.
RECURSIVE Coalesce(_)
Coalesce(cps) ==
    IF Len(cps) < 2 THEN cps
    ELSE IF IsHighSurrogate(cps[1]) /\ IsLowSurrogate(cps[2])
         THEN <<\h10000 + (cps[1] - \hd800) * 1024 + (cps[2] - \hdc00)>>
              \o Coalesce(Drop(cps, 2))
         ELSE <<cps[1]>> \o Coalesce(Tail(cps))

EncodeAll(cps) == FlattenSeq([i \in DOMAIN cps |-> EncodeCp(cps[i])])

\* What sanitizing a (non-Symbol) byte string must produce.
RefSanitize(s) == EncodeAll(Coalesce(RefDecodeLossy(s)))

=============================================================================
