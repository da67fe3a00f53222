---------------------------- MODULE MCWtf8Sanitize ----------------------------
(***************************************************************************)
(* One call of sanitize_detect on every input of up to MaxLen bytes drawn  *)
(* from Alphabet.                                                          *)
(***************************************************************************)
EXTENDS Wtf8Sanitize

CONSTANTS Alphabet, MaxLen

ASSUME Alphabet \subseteq Byte /\ MaxLen \in Nat

Init == \E s \in SeqOf(Alphabet, MaxLen) : Start(s)

\* The call has returned.
Returned == pc = "done" /\ UNCHANGED vars

Next == Step \/ Returned

Spec == Init /\ [][Next]_vars

=============================================================================
