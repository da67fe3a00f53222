----------------------------- MODULE Wtf8Sanitize -----------------------------
(***************************************************************************)
(* duk_unicode_wtf8_sanitize_detect() and the sanitizer loop it calls      *)
(* (duk__unicode_wtf8_sanitize_string_reference), one action per block of  *)
(* the loop body.  A state is the sanitizer in the middle of one call:     *)
(*                                                                         *)
(*   str      the input bytes (const, chosen by the caller)                *)
(*   p        1-based index of the next input byte ('p' in the code)       *)
(*   out      the bytes written so far ('out_data' .. 'q')                 *)
(*   clenSub  'out_clen_sub': output charlen = Len(out) - clenSub          *)
(*   cp, numCont, lower, upper   the decoder's locals                      *)
(*   pc       the point of the loop the call is at                         *)
(***************************************************************************)
EXTENDS Wtf8

VARIABLES str, p, out, clenSub, cp, numCont, lower, upper, pc

vars == <<str, p, out, clenSub, cp, numCont, lower, upper, pc>>

AtEnd == p = Len(str) + 1

\* The call starts on input s (entry of sanitize_detect).
Start(s) ==
    /\ str = s
    /\ p = 1
    /\ out = <<>>
    /\ clenSub = 0
    /\ cp = 0 /\ numCont = 0 /\ lower = 0 /\ upper = 0
    /\ pc = "detect"

(***************************************************************************)
(* sanitize_detect: a non-empty input whose first byte is a Symbol marker  *)
(* is copied 1:1 (sanitize_symbol); anything else goes to the loop.        *)
(***************************************************************************)
DetectSymbol ==
    /\ pc = "detect"
    /\ IsSymbolInput(str)
    /\ out' = str
    /\ p' = Len(str) + 1
    /\ pc' = "done"
    /\ UNCHANGED <<str, clenSub, cp, numCont, lower, upper>>

DetectString ==
    /\ pc = "detect"
    /\ ~IsSymbolInput(str)
    /\ pc' = "loop"
    /\ UNCHANGED <<str, p, out, clenSub, cp, numCont, lower, upper>>

\* while (p != p_end) ... ; out_blen = q - out_data; return out_blen.
Finish ==
    /\ pc = "loop"
    /\ AtEnd
    /\ pc' = "done"
    /\ UNCHANGED <<str, p, out, clenSub, cp, numCont, lower, upper>>

\* t = *p++; t < 0x80: copied as is.
CopyAscii ==
    /\ pc = "loop"
    /\ ~AtEnd
    /\ str[p] < \h80
    /\ p' = p + 1
    /\ out' = Append(out, str[p])
    /\ UNCHANGED <<str, clenSub, cp, numCont, lower, upper, pc>>

\* t in 0xc2..0xf4: set up the continuation loop with the ranges allowed
\* for the first continuation byte.
StartSequenceF4Unbounded ==    \* mutant: upper bound 0xbf after lead 0xf4
    /\ pc = "loop"
    /\ ~AtEnd
    /\ str[p] \in \hc2..\hf4
    /\ LET t == str[p] IN
       CASE t <= \hdf -> cp' = t % 32 /\ numCont' = 1 /\ lower' = \h80 /\ upper' = \hbf
         [] t <= \hef -> /\ cp' = t % 16 /\ numCont' = 2
                         /\ lower' = IF t = \he0 THEN \ha0 ELSE \h80
                         /\ upper' = \hbf
         [] OTHER     -> /\ cp' = t % 8 /\ numCont' = 3
                         /\ lower' = IF t = \hf0 THEN \h90 ELSE \h80
                         /\ upper' = \hbf
    /\ p' = p + 1
    /\ pc' = "cont"
    /\ UNCHANGED <<str, out, clenSub>>

StartSequence ==
    /\ pc = "loop"
    /\ ~AtEnd
    /\ str[p] \in \hc2..\hf4
    /\ LET t == str[p] IN
       CASE t <= \hdf -> cp' = t % 32 /\ numCont' = 1 /\ lower' = \h80 /\ upper' = \hbf
         [] t <= \hef -> /\ cp' = t % 16 /\ numCont' = 2
                         /\ lower' = IF t = \he0 THEN \ha0 ELSE \h80
                         /\ upper' = \hbf
         [] OTHER     -> /\ cp' = t % 8 /\ numCont' = 3
                         /\ lower' = IF t = \hf0 THEN \h90 ELSE \h80
                         /\ upper' = IF t = \hf4 THEN \h8f ELSE \hbf
    /\ p' = p + 1
    /\ pc' = "cont"
    /\ UNCHANGED <<str, out, clenSub>>

\* Continuation byte, 0xc0, 0xc1 or 0xf5..0xff as lead: goto replacement.
InvalidLeadNoAdvance ==    \* mutant: t = *p; without the increment
    /\ pc = "loop"
    /\ ~AtEnd
    /\ str[p] >= \h80
    /\ str[p] \notin \hc2..\hf4
    /\ pc' = "replacement"
    /\ UNCHANGED <<str, p, out, clenSub, cp, numCont, lower, upper>>

InvalidLead ==
    /\ pc = "loop"
    /\ ~AtEnd
    /\ str[p] >= \h80
    /\ str[p] \notin \hc2..\hf4
    /\ p' = p + 1
    /\ pc' = "replacement"
    /\ UNCHANGED <<str, out, clenSub, cp, numCont, lower, upper>>

(***************************************************************************)
(* One iteration of the do-while over the continuation bytes.              *)
(***************************************************************************)
Truncated ==
    /\ pc = "cont"
    /\ AtEnd
    /\ pc' = "replacement"
    /\ UNCHANGED <<str, p, out, clenSub, cp, numCont, lower, upper>>

ContinuationOkPostDecrement ==    \* mutant: } while (num_cont-- != 0);
    /\ pc = "cont"
    /\ ~AtEnd
    /\ str[p] \in lower..upper
    /\ cp' = cp * 64 + (str[p] % 64)
    /\ lower' = \h80
    /\ upper' = \hbf
    /\ p' = p + 1
    /\ numCont' = numCont - 1
    /\ pc' = IF numCont = 0 THEN "emit" ELSE "cont"
    /\ UNCHANGED <<str, out, clenSub>>

ContinuationOk ==
    /\ pc = "cont"
    /\ ~AtEnd
    /\ str[p] \in lower..upper
    /\ cp' = cp * 64 + (str[p] % 64)
    /\ lower' = \h80
    /\ upper' = \hbf
    /\ p' = p + 1
    /\ numCont' = numCont - 1
    /\ pc' = IF numCont - 1 = 0 THEN "emit" ELSE "cont"
    /\ UNCHANGED <<str, out, clenSub>>

\* Invalid continuation byte: p++ then p--, the byte is reread as a lead.
ContinuationBad ==
    /\ pc = "cont"
    /\ ~AtEnd
    /\ str[p] \notin lower..upper
    /\ pc' = "replacement"
    /\ UNCHANGED <<str, p, out, clenSub, cp, numCont, lower, upper>>

(***************************************************************************)
(* A decoded high surrogate directly followed by the 3-byte encoding of a  *)
(* low surrogate is combined with it; the code point is then emitted in    *)
(* shortest form and out_clen_sub grows by bytes - chars.                  *)
(***************************************************************************)
IsPairedAnySurrogate(s, i) ==    \* mutant: p[1] >= 0xa0 accepts a high surrogate too
    /\ Len(s) - i + 1 >= 3
    /\ s[i] = \hed
    /\ s[i + 1] \in \ha0..\hbf
    /\ s[i + 2] \in \h80..\hbf

IsPaired(s, i) ==
    /\ Len(s) - i + 1 >= 3
    /\ s[i] = \hed
    /\ s[i + 1] \in \hb0..\hbf
    /\ s[i + 2] \in \h80..\hbf

Combined(c, s, i) ==
    \h10000 + (c % 1024) * 1024 + (s[i + 1] % 16) * 64 + (s[i + 2] % 64)

EmitBytes(c) ==
    CASE c <= \h7ff  -> <<\hc0 + c \div 64, \h80 + (c % 64)>>
      [] c <= \hffff -> <<\he0 + c \div 4096, \h80 + ((c \div 64) % 64), \h80 + (c % 64)>>
      [] OTHER       -> <<\hf0 + c \div 262144, \h80 + ((c \div 4096) % 64),
                          \h80 + ((c \div 64) % 64), \h80 + (c % 64)>>

EmitSub(c) ==
    CASE c <= \h7ff -> 1 [] c <= \hffff -> 2 [] OTHER -> 3

Emit ==
    /\ pc = "emit"
    /\ LET paired == cp \in \hd800..\hdbff /\ IsPaired(str, p)
           c      == IF paired THEN Combined(cp, str, p) ELSE cp
       IN /\ p' = IF paired THEN p + 3 ELSE p
          /\ out' = out \o EmitBytes(c)
          /\ clenSub' = clenSub + EmitSub(c)
    /\ pc' = "loop"
    /\ UNCHANGED <<str, cp, numCont, lower, upper>>

\* replacement: emit U+FFFD, 3 bytes for 1 character.
EmitReplacement ==
    /\ pc = "replacement"
    /\ out' = out \o Replacement
    /\ clenSub' = clenSub + 2
    /\ pc' = "loop"
    /\ UNCHANGED <<str, p, cp, numCont, lower, upper>>

Step ==
    \/ DetectSymbol \/ DetectString
    \/ Finish \/ CopyAscii \/ StartSequence \/ InvalidLead
    \/ Truncated \/ ContinuationOk \/ ContinuationBad
    \/ Emit \/ EmitReplacement

-----------------------------------------------------------------------------
(***************************************************************************)
(* Properties.                                                             *)
(***************************************************************************)
TypeOK ==
    /\ str \in Seq(Byte)
    /\ p \in 1..Len(str) + 1
    /\ out \in Seq(Byte)
    /\ clenSub \in Nat
    /\ numCont \in 0..3
    /\ pc \in {"detect", "loop", "cont", "emit", "replacement", "done"}

\* The caller allocates 3 * str_blen bytes for 'out' ("Caller must ensure
\* 'out' has enough space for maximum expansion, 3x input"): no write of the
\* loop may go past that, at any point of the call.
OutWithinBuffer == Len(out) <= 3 * Len(str)

\* A string input comes out as the Unicode best practice says: every valid
\* code point kept, each maximal ill-formed subpart replaced by one U+FFFD,
\* and every high surrogate directly followed by a low surrogate combined
\* into its 4-byte form; a Symbol input comes out byte for byte.
SanitizeIsReference ==
    pc = "done" =>
        out = IF IsSymbolInput(str) THEN str ELSE RefSanitize(str)

\* Spec 4.B.5: the sanitizer's output character length
\* (out_blen - out_clen_sub) is the output's ECMAScript length, i.e. its
\* length in UTF-16 code units, the value duk_unicode_wtf8_charlength()
\* computes for it.
ClenAccounting ==
    (pc = "done" /\ ~IsSymbolInput(str)) =>
        Len(out) - clenSub = Len(Utf16(out))

\* Input bytes not yet consumed, and how far pc is from the loop head.
Remaining == Len(str) + 1 - p
PcRank == CASE pc = "detect" -> 3 [] pc = "cont" -> 2
            [] pc \in {"emit", "replacement"} -> 1
            [] pc = "loop" -> 0 [] pc = "done" -> -1

\* The loop terminates: every step consumes an input byte, or keeps p and
\* moves towards the loop head.  The 'p--' that hands an invalid
\* continuation byte back to be re-read as a lead, and the jumps to
\* 'replacement', never lead to the same byte being read again and again.
SanitizeProgress ==
    [][\/ Remaining' < Remaining
       \/ Remaining' = Remaining /\ PcRank' < PcRank]_vars

=============================================================================
