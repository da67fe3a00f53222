---------------------------- MODULE MCWtf8KeepCheck ----------------------------
(***************************************************************************)
(* One keepcheck call on every input of up to MaxLen bytes over Alphabet,  *)
(* at each of the four alignments of the string's address.                 *)
(***************************************************************************)
EXTENDS Wtf8KeepCheck

CONSTANTS Alphabet, MaxLen

ASSUME Alphabet \subseteq Byte /\ MaxLen \in Nat

Init == \E s \in SeqOf(Alphabet, MaxLen), a \in 0..3 : Start(s, a)

\* The call has returned.
Returned == pc = "done" /\ UNCHANGED vars

Next == Step \/ Returned

\* The call is sequential code with no lock or wait: once entered, its next
\* statement always runs.
Spec == Init /\ [][Next]_vars /\ WF_vars(Step)

=============================================================================
