----------------------------- MODULE SeqFilter ------------------------------
(* What is left of a list when an iterator removes elements from it. *)
EXTENDS Integers, Sequences

\* The elements of P that are in S, in the order of P.
Only(P, S) ==
  LET upTo[i \in 0..Len(P)] ==
        IF i = 0 THEN <<>>
        ELSE IF P[i] \in S THEN Append(upTo[i - 1], P[i]) ELSE upTo[i - 1]
  IN upTo[Len(P)]
=============================================================================
