----------------------------- MODULE Selection ------------------------------
(***************************************************************************)
(* Array.filter by a set, as the queues and tables of the daemon use it.   *)
(***************************************************************************)
EXTENDS Naturals, Sequences

\* The elements of s in T, in their order: SelectSeq for a set.
Only(s, T) ==
    LET only[n \in 0..Len(s)] ==
            IF n = 0 THEN <<>>
            ELSE IF s[n] \in T THEN Append(only[n - 1], s[n]) ELSE only[n - 1]
    IN  only[Len(s)]
=============================================================================
