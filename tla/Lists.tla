------------------------------- MODULE Lists --------------------------------
(***************************************************************************)
(* Lists with some of their elements taken out (Vec::retain, and the       *)
(* filters the code runs over its lists).  Sequences!SelectSeq written out *)
(* for a set, which TLAPS has no rules for.                                *)
(***************************************************************************)
EXTENDS Integers, Sequences

\* The elements of l that are in S, in their order.
Only(l, S) ==
    LET Left[i \in 0..Len(l)] ==
            IF i = 0 THEN <<>> ELSE IF l[i] \in S THEN Append(Left[i - 1], l[i]) ELSE Left[i - 1]
    IN Left[Len(l)]

\* l without x.
Drop(l, x) == Only(l, {l[i] : i \in DOMAIN l} \ {x})
=============================================================================
