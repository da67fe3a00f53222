------------------------------ MODULE Wtf8Cesu8 ------------------------------
(***************************************************************************)
(* duk_unicode_wtf8_to_cesu8(): a first pass counts the non-BMP lead bytes *)
(* to size the output buffer, a second pass copies bytes and rewrites each *)
(* 4-byte sequence as the 3-byte encodings of its two surrogate halves.    *)
(*                                                                         *)
(*   str      the input, valid WTF-8                                       *)
(*   p        1-based index of 'p'                                         *)
(*   nonbmp   'nonbmp_count'                                               *)
(*   alloc    'alloc_size', the size of the pushed buffer                  *)
(*   out      the bytes written so far ('buf' .. 'q')                      *)
(***************************************************************************)
EXTENDS Wtf8

VARIABLES str, p, nonbmp, alloc, out, pc

vars == <<str, p, nonbmp, alloc, out, pc>>

Start(s) ==
    /\ str = s
    /\ p = 1 /\ nonbmp = 0 /\ alloc = 0 /\ out = <<>>
    /\ pc = "count"

AtEnd == p = Len(str) + 1

\* The first pass: t >= 0xf0 starts a 4-byte sequence.
IsNonBmpLeadFromE0(t) == t >= \he0    \* mutant: 3-byte leads counted too

IsNonBmpLead(t) == t >= \hf0

CountStep ==
    /\ pc = "count"
    /\ ~AtEnd
    /\ nonbmp' = IF IsNonBmpLead(str[p]) THEN nonbmp + 1 ELSE nonbmp
    /\ p' = p + 1
    /\ UNCHANGED <<str, alloc, out, pc>>

\* alloc_size = blen + 2 * nonbmp_count; p rewinds to the start.
Allocate ==
    /\ pc = "count"
    /\ AtEnd
    /\ alloc' = Len(str) + 2 * nonbmp
    /\ p' = 1
    /\ pc' = "convert"
    /\ UNCHANGED <<str, nonbmp, out>>

\* The 3-byte encoding of a surrogate half.
Surrogate3(x) == <<\hed, \h80 + ((x \div 64) % 64), \h80 + (x % 64)>>

\* t = *p++; a non-BMP lead is decoded from t, p[0], p[1], p[2] and written
\* as two surrogates; any other byte is copied.  p is not advanced past the
\* three continuation bytes.
ConvertStep ==
    /\ pc = "convert"
    /\ ~AtEnd
    /\ LET t == str[p]
       IN IF IsNonBmpLead(t)
          THEN LET cp == (t % 8) * 262144 + (str[p + 1] % 64) * 4096
                         + (str[p + 2] % 64) * 64 + (str[p + 3] % 64) - \h10000
               IN out' = out \o Surrogate3(\hd800 + cp \div 1024)
                             \o Surrogate3(\hdc00 + (cp % 1024))
          ELSE out' = Append(out, t)
    /\ p' = p + 1
    /\ UNCHANGED <<str, nonbmp, alloc, pc>>

ConvertDone ==
    /\ pc = "convert"
    /\ AtEnd
    /\ pc' = "done"
    /\ UNCHANGED <<str, p, nonbmp, alloc, out>>

Step == CountStep \/ Allocate \/ ConvertStep \/ ConvertDone

-----------------------------------------------------------------------------
\* CESU-8 of a valid WTF-8 string: each UTF-16 unit in its 1-3 byte form.
RefCesu8(s) == EncodeAll(Utf16(s))

\* Spec 4.J.8: the buffer is sized for the CESU-8 result,
\* |wtf8| + 2 * (number of 4-byte sequences).
AllocIsCesu8Length ==
    pc # "count" => alloc = Len(RefCesu8(str))

\* The DUK_ASSERT(q <= buf + alloc_size) after every byte: the second pass
\* never writes past the buffer the first pass sized.
OutWithinAlloc ==
    pc # "count" => Len(out) <= alloc

=============================================================================
