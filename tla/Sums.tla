-------------------------------- MODULE Sums --------------------------------
(* Sums and products of sequences of numbers, term by term.                *)
EXTENDS Integers, Sequences

Sum(s) ==
    LET upto[i \in 0..Len(s)] == IF i = 0 THEN 0 ELSE upto[i - 1] + s[i]
    IN  upto[Len(s)]
Product(s) ==
    LET upto[i \in 0..Len(s)] == IF i = 0 THEN 1 ELSE upto[i - 1] * s[i]
    IN  upto[Len(s)]
=============================================================================
