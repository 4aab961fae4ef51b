----------------------------- MODULE Filtering -----------------------------
(***************************************************************************)
(* How the log stores select entries (internal/logger, memory_store.go and *)
(* file_store.go): a loop over a slice that appends the elements to keep   *)
(* to a new one.                                                           *)
(***************************************************************************)
EXTENDS Naturals, Sequences

\* The elements of s that are in T, in their order.
Filter(s, T) ==
    LET kept[i \in 0..Len(s)] ==
            IF i = 0 THEN <<>>
            ELSE IF s[i] \in T THEN Append(kept[i - 1], s[i])
                               ELSE kept[i - 1]
    IN  kept[Len(s)]

=============================================================================
