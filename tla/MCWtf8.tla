-------------------------------- MODULE MCWtf8 --------------------------------
(***************************************************************************)
(* The pure helpers of duk_unicode_wtf8.c applied to every byte string of  *)
(* up to MaxLen bytes over Alphabet, compared with the Unicode definitions.*)
(***************************************************************************)
EXTENDS Wtf8

CONSTANTS Alphabet, MaxLen

ASSUME Alphabet \subseteq Byte /\ MaxLen \in Nat

VARIABLE s

Init == s \in SeqOf(Alphabet, MaxLen)

\* The helpers are pure: a call leaves the bytes as they are.
Call == UNCHANGED s

Spec == Init /\ [][Call]_s

\* duk_unicode_is_valid_wtf8() accepts exactly the concatenations of
\* shortest-form encodings of code points up to U+10FFFF, surrogates
\* included.
ValidatorIsReference == IsValidWtf8(s) = RefValid(s)

\* On valid WTF-8, duk_unicode_wtf8_charlength() is the ECMAScript length:
\* the number of UTF-16 code units, a non-BMP code point counting two.
CharLengthIsUtf16Length == RefValid(s) => CharLength(s) = Len(Utf16(s))

\* On valid WTF-8, duk_unicode_wtf8_decode_known() at each lead byte yields
\* the code point encoded there.
DecodeKnownIsReference ==
    RefValid(s) =>
        LET leads == SelectSeq([i \in 1..Len(s) |-> i], LAMBDA i : s[i] \notin \h80..\hbf)
        IN [k \in DOMAIN leads |-> DecodeKnown(s, leads[k])] = RefCodepoints(s)

=============================================================================
