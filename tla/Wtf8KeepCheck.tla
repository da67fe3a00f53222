----------------------------- MODULE Wtf8KeepCheck -----------------------------
(***************************************************************************)
(* duk_unicode_wtf8_sanitize_keepcheck() and the word-scanning ASCII check *)
(* it calls (duk__unicode_wtf8_sanitize_asciicheck_optimized), one action  *)
(* per loop iteration.                                                     *)
(*                                                                         *)
(*   str      the input bytes                                              *)
(*   align    address of str[1] modulo 4 (any, the caller's pointer)       *)
(*   p        1-based index of 'p'                                         *)
(*   p32      1-based index of the byte 'p32' points at                    *)
(*   p32End   1-based index of the byte 'p32_end' points at                *)
(*   readEnd  highest byte index read so far (0: none)                     *)
(*   keep     the value being returned                                     *)
(***************************************************************************)
EXTENDS Wtf8

VARIABLES str, align, p, p32, p32End, readEnd, keep, pc

vars == <<str, align, p, p32, p32End, readEnd, keep, pc>>

\* Address of the byte at index i, modulo 4.
AddrMod4(i) == (align + i - 1) % 4

Start(s, a) ==
    /\ str = s
    /\ align = a
    /\ p = 1 /\ p32 = 1 /\ p32End = 1
    /\ readEnd = 0
    /\ keep = 0
    /\ pc = "enter"

Read(i) == readEnd' = IF i > readEnd THEN i ELSE readEnd

\* Short strings skip the word loop.
EnterShort ==
    /\ pc = "enter"
    /\ Len(str) < 8
    /\ pc' = "tail"
    /\ UNCHANGED <<str, align, p, p32, p32End, readEnd, keep>>

EnterFast ==
    /\ pc = "enter"
    /\ Len(str) >= 8
    /\ pc' = "align"
    /\ UNCHANGED <<str, align, p, p32, p32End, readEnd, keep>>

\* One step of the walk to 4-byte alignment.
AlignStepNoAdvance ==    \* mutant: the 'p++' of the alignment loop left out
    /\ pc = "align"
    /\ AddrMod4(p) # 0
    /\ Read(p)
    /\ IF str[p] >= \h80 THEN pc' = "tail" ELSE UNCHANGED pc
    /\ UNCHANGED <<str, align, p, p32, p32End, keep>>

AlignStep ==
    /\ pc = "align"
    /\ AddrMod4(p) # 0
    /\ Read(p)
    /\ IF str[p] >= \h80 THEN pc' = "tail" /\ UNCHANGED p
                         ELSE p' = p + 1 /\ UNCHANGED pc
    /\ UNCHANGED <<str, align, p32, p32End, keep>>

\* Aligned: p32_end = p + ((p_end - p) & ~3).
P32EndUnrounded ==    \* mutant: the remaining length not rounded down to whole words
    /\ pc = "align"
    /\ AddrMod4(p) = 0
    /\ p32' = p
    /\ p32End' = p + (Len(str) + 1 - p)
    /\ pc' = "words"
    /\ UNCHANGED <<str, align, p, readEnd, keep>>

AlignDone ==
    /\ pc = "align"
    /\ AddrMod4(p) = 0
    /\ p32' = p
    /\ p32End' = p + ((Len(str) + 1 - p) \div 4) * 4
    /\ pc' = "words"
    /\ UNCHANGED <<str, align, p, readEnd, keep>>

\* x = *p32: (x & 0x80808080) == 0 iff the four bytes are ASCII.  A read
\* past the end yields whatever the memory holds.
WordAsciiTopBytes(w) ==    \* mutant: mask 0x00808080, the last byte of the word unchecked
    \A j \in 1..3 : w[j] < \h80

WordAscii(w) == \A j \in 1..4 : w[j] < \h80

WordStep ==
    /\ pc = "words"
    /\ Read(p32 + 3)
    /\ \E w \in [1..4 -> {\h41, \hc3}] :
        LET word == [j \in 1..4 |-> IF p32 + j - 1 <= Len(str) THEN str[p32 + j - 1] ELSE w[j]]
        IN IF WordAscii(word)
           THEN IF p32 + 4 = p32End
                THEN p32' = p32 + 4 /\ p' = p32 + 4 /\ pc' = "tail"
                ELSE p32' = p32 + 4 /\ UNCHANGED <<p, pc>>
           ELSE p' = p32 /\ pc' = "tail" /\ UNCHANGED p32
    /\ UNCHANGED <<str, align, p32End, keep>>

\* skip_fastpath: the byte-by-byte tail.
TailStep ==
    /\ pc = "tail"
    /\ p # Len(str) + 1
    /\ Read(p)
    /\ IF str[p] >= \h80 THEN keep' = p - 1 /\ pc' = "check" /\ UNCHANGED p
                         ELSE p' = p + 1 /\ UNCHANGED <<keep, pc>>
    /\ UNCHANGED <<str, align, p32, p32End>>

TailDone ==
    /\ pc = "tail"
    /\ p = Len(str) + 1
    /\ keep' = Len(str)
    /\ pc' = "check"
    /\ UNCHANGED <<str, align, p, p32, p32End, readEnd>>

\* keepcheck: nothing kept and a Symbol marker first: keep all of it.
KeepSymbol ==
    /\ pc = "check"
    /\ keep = 0 /\ Len(str) > 0 /\ str[1] \in SymbolMarkers
    /\ keep' = Len(str)
    /\ pc' = "done"
    /\ UNCHANGED <<str, align, p, p32, p32End, readEnd>>

KeepReturn ==
    /\ pc = "check"
    /\ ~(keep = 0 /\ Len(str) > 0 /\ str[1] \in SymbolMarkers)
    /\ pc' = "done"
    /\ UNCHANGED <<str, align, p, p32, p32End, readEnd, keep>>

Step ==
    \/ EnterShort \/ EnterFast \/ AlignStep \/ AlignDone \/ WordStep
    \/ TailStep \/ TailDone \/ KeepSymbol \/ KeepReturn

-----------------------------------------------------------------------------
TypeOK ==
    /\ str \in Seq(Byte)
    /\ align \in 0..3
    /\ p \in 1..Len(str) + 1
    /\ keep \in 0..Len(str)
    /\ pc \in {"enter", "align", "words", "tail", "check", "done"}

\* The word loop never reads past p_end, whatever the alignment of the
\* string's address (the DUK_ASSERT before 'x = *p32').
ReadsInBounds == readEnd <= Len(str)

\* Reference of the '#if 0' duk__unicode_wtf8_sanitize_asciicheck_reference:
\* the index of the first byte >= 0x80, or blen.
AsciiPrefixLen(s) ==
    LET bad == {i \in 1..Len(s) : s[i] >= \h80}
    IN IF bad = {} THEN Len(s) ELSE Min(bad) - 1

\* keepcheck returns the ASCII prefix length the byte-by-byte reference
\* returns, except that a Symbol is kept whole.
KeepCheckIsReference ==
    pc = "done" =>
        keep = IF AsciiPrefixLen(str) = 0 /\ Len(str) > 0 /\ str[1] \in SymbolMarkers
               THEN Len(str) ELSE AsciiPrefixLen(str)

\* Every keepcheck call returns: the alignment walk, the word loop (left
\* only by 'p32 != p32_end' turning false or a non-ASCII word) and the tail
\* each end, from every alignment of the string's address.
ScanTerminates == <>(pc = "done")

=============================================================================
