------------------------------- MODULE PoolSeq -------------------------------
(* Operations on the slices of provisioner/pool.go that the sequence        *)
(* modules lack in a form that can be reasoned about without operators as   *)
(* arguments.                                                               *)
EXTENDS Integers, Sequences

\* The elements of s that are not in D, in order: the loop
\* "for x in s { if x not in D { keep = append(keep, x) } }".
Without(s, D) ==
  LET keep[i \in 0..Len(s)] ==
        IF i = 0 THEN <<>>
        ELSE IF s[i] \in D THEN keep[i - 1]
        ELSE Append(keep[i - 1], s[i])
  IN keep[Len(s)]
=============================================================================
