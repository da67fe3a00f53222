----------------------------- MODULE MCWtf8Cesu8 -----------------------------
(***************************************************************************)
(* Every valid WTF-8 string made of up to MaxCps code points from Cps.     *)
(***************************************************************************)
EXTENDS Wtf8Cesu8

CONSTANTS Cps, MaxCps

Inputs == {EncodeAll(c) : c \in SeqOf(Cps, MaxCps)}

Init == \E s \in Inputs : Start(s)

Returned == pc = "done" /\ UNCHANGED vars

Next == Step \/ Returned

Spec == Init /\ [][Next]_vars

=============================================================================
