------------------------------ MODULE Keeping ------------------------------
(***************************************************************************)
(* The list comprehension with an "if" that the code makes its lists by.   *)
(***************************************************************************)
EXTENDS Naturals, Sequences

\* The elements of a list that are in a set, in their order.
Keep(s, S) ==
    LET kept[i \in 0 .. Len(s)] ==
            IF i = 0 THEN <<>>
            ELSE IF s[i] \in S THEN Append(kept[i - 1], s[i]) ELSE kept[i - 1]
    IN  kept[Len(s)]

=============================================================================
