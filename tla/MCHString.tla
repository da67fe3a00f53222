------------------------------ MODULE MCHString ------------------------------
(***************************************************************************)
(* Handles for checking HString: ROM strings (empty, ASCII, 2-byte), RAM   *)
(* strings with a 2-byte, a non-BMP code point, lone surrogates of both    *)
(* kinds, a non-BMP code point followed by a lone low surrogate, and a     *)
(* Symbol.                                                                 *)
(***************************************************************************)
EXTENDS HString

RomEmpty  == <<>>
RomA      == <<\h41>>
RomE      == <<\hc3, \ha9>>                            \* U+00E9
RamAB     == <<\h41, \h42>>
Emoji     == <<\hf0, \h9f, \h98, \h80>>                \* U+1F600
AEmoji    == <<\h41>> \o Emoji
EmojiLo   == Emoji \o <<\hed, \hb8, \h80>>             \* U+1F600 U+DE00
LoneHi    == <<\hed, \ha0, \hbd>>                      \* U+D83D
LoneLo    == <<\hed, \hb8, \h80>>                      \* U+DE00
Sym       == <<\h81, \h41>>

\* The handles the lazy fields are checked on: ROM and RAM, ASCII and not,
\* and a Symbol.
FieldHandles  == {RomEmpty, RomA, RomE, RamAB, Emoji, Sym}
FieldReadOnly == {RomEmpty, RomA, RomE}

\* The handles the string operations are checked on.
OpsHandles  == {RomEmpty, RomA, AEmoji, EmojiLo, LoneHi, LoneLo}
OpsReadOnly == {RomEmpty, RomA}

\* The handles the refinement is checked on: the ASCII and empty ROM
\* strings, a non-BMP code point followed by a lone low surrogate, and the
\* lone surrogates of both kinds.
RefHandles == {RomEmpty, RomA, EmojiLo, LoneHi, LoneLo}

\* The abstract calls, evaluated once for the model (substituted for
\* HStringAbstract's Calls in the .cfg).
AbsCalls == Abstract!CallsOn(AbsStrings, AbsSymbols)

=============================================================================
