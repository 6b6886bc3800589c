----------------------------- MODULE Selection ------------------------------
(***************************************************************************)
(* The loop that keeps some elements of a slice in their order: range over *)
(* it, continue past the others, append the rest.                          *)
(***************************************************************************)
EXTENDS Naturals, Sequences

(* The elements of s at the positions in I.                                *)
KeepAt(s, I) ==
    LET kept[n \in 0..Len(s)] ==
            IF n = 0 THEN <<>>
            ELSE IF n \in I THEN Append(kept[n - 1], s[n])
            ELSE kept[n - 1]
    IN  kept[Len(s)]
=============================================================================
