--------------------------- MODULE HStringAbstract ---------------------------
(***************************************************************************)
(* What the string operations promise, stated on the ECMAScript view of a  *)
(* string: a sequence of UTF-16 code units.  A handle is a record: a       *)
(* string's 'units', or an opaque Symbol of length 0.  'result' is the     *)
(* last call and what it returned; the lazy fields, the WTF-8 bytes and    *)
(* interning are invisible at this level.                                  *)
(***************************************************************************)
EXTENDS Integers, Sequences, FiniteSetsExt

CONSTANTS Strings,  \* string handles [symbol |-> FALSE, units |-> <<code units>>]
          Symbols   \* Symbol handles [symbol |-> TRUE, units |-> <<...>>]

VARIABLE result

IsHigh(u) == u \in \hd800..\hdbff
IsLow(u)  == u \in \hdc00..\hdfff

\* 'length': a string's number of code units, 0 for a Symbol.
LengthCall(h) ==
    [op |-> "charlen", h |-> h, res |-> IF h.symbol THEN 0 ELSE Len(h.units)]

\* 'substring(st, en)': the string of code units st..en-1.
SliceCall(h, st, en) ==
    [op |-> "substring", h |-> h, st |-> st, en |-> en,
     res |-> [symbol |-> FALSE, units |-> SubSeq(h.units, st + 1, en)]]

\* 'charCodeAt(pos)', or 'codePointAt(pos)' when aware: the unit at pos, or
\* the code point of a surrogate pair starting at pos.
CodeUnitCall(h, pos, aware) ==
    LET u == h.units
        i == pos + 1
    IN [op |-> "charCodeAt", h |-> h, pos |-> pos, aware |-> aware,
        res |-> IF aware /\ i < Len(u) /\ IsHigh(u[i]) /\ IsLow(u[i + 1])
                THEN \h10000 + (u[i] - \hd800) * 1024 + (u[i + 1] - \hdc00)
                ELSE u[i]]

\* 'indexOf' (forwards) / 'lastIndexOf' (backwards) from start: the nearest
\* offset in that direction where m occurs, or -1.
IndexOfCall(h, m, start, forwards) ==
    LET u    == h.units
        w    == m.units
        hits == {i \in 0..Len(u) - Len(w) :
                    /\ SubSeq(u, i + 1, i + Len(w)) = w
                    /\ IF forwards THEN i >= start ELSE i <= start}
    IN [op |-> "search", h |-> h, m |-> m, start |-> start, forwards |-> forwards,
        res |-> CASE hits = {} -> -1 [] forwards -> Min(hits) [] OTHER -> Max(hits)]

\* Every result a call on the strings S and Symbols Y can return.
CallsOn(S, Y) ==
    {LengthCall(h) : h \in S \cup Y}
    \cup UNION {{SliceCall(h, r[1], r[2]) : r \in {r \in (0..Len(h.units)) \X (0..Len(h.units)) : r[1] <= r[2]}} : h \in S}
    \cup UNION {{CodeUnitCall(h, pos, aware) : pos \in 0..Len(h.units) - 1, aware \in BOOLEAN} : h \in S}
    \cup UNION {{IndexOfCall(h, m, start, fw) : m \in S, start \in 0..Len(h.units), fw \in BOOLEAN} : h \in S}

Calls == CallsOn(Strings, Symbols)

Init == result = [op |-> "none"]

\* One call returns.
Next == result' \in Calls

Spec == Init /\ [][Next]_result

=============================================================================
