--------------------------- MODULE MCHStringHeader ---------------------------
(***************************************************************************)
(* Handles for the header model: the empty string, array indices at both  *)
(* ends of the range, a leading zero, the sentinel 2^32-1, 2^32 (past 32   *)
(* bits), a Symbol (never ASCII) and a 65536-byte string, one byte past  *)
(* what h_strextra16 holds.  Flag masks in the lower half of h_flags next  *)
(* to the heap header's type bits.                                         *)
(***************************************************************************)
EXTENDS HStringHeader

CONSTANTS Empty, Seven, Seven0, IdxMax, IdxNone, IdxWide, Sym, Long

MCHandles == {Empty, Seven, Seven0, IdxMax, IdxNone, IdxWide, Sym, Long}

MCBytes ==
    (Empty   :> <<>>) @@
    (Seven   :> <<55>>) @@                                     \* "7"
    (Seven0  :> <<48, 55>>) @@                                 \* "07"
    (IdxMax  :> <<52, 50, 57, 52, 57, 54, 55, 50, 57, 52>>) @@ \* "4294967294"
    (IdxNone :> <<52, 50, 57, 52, 57, 54, 55, 50, 57, 53>>) @@ \* "4294967295"
    (IdxWide :> <<52, 50, 57, 52, 57, 54, 55, 50, 57, 54>>) @@ \* "4294967296"
    (Sym     :> <<129, 55>>) @@                                \* a Symbol
    (Long    :> [i \in 1..65536 |-> 65])                       \* 64 KiB of "A"

\* The interner's hash: values that use both halves of 32 bits.
MCStrHash == [h \in MCHandles |-> IF h = Seven THEN W(0, 65535)
                                  ELSE IF BLen[h] = 10 THEN W(65535, 1) ELSE W(2, 1)]

MCCStrings == {<<>>, <<55>>, <<52>>, <<52, 50, 57, 52, 57, 54, 55, 50, 57, 52>>}

\* Masks below bit 16, as the spec places them; type bits 1 and 2.
MCFlagBit == [ascii |-> 128, symbol |-> 512, arridx |-> 1024]
MCTypeBits == 3
=============================================================================
