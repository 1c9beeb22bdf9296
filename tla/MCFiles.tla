------------------------------ MODULE MCFiles ------------------------------
(* The files on a small instance: bytes of three bits, and strings at the  *)
(* limits of their length fields.                                          *)
EXTENDS Files

Longest == [i \in 1..MaxOf(W16) |-> 1]
MCBuiltIds ==
    {[kind |-> "Int", v |-> 0], [kind |-> "Int", v |-> MaxOf(W64)],
     [kind |-> "Str", v |-> <<>>], [kind |-> "Str", v |-> Longest]}
MCTooLong == {[kind |-> "Str", v |-> Append(Longest, 1)]}

MCVectors == {<<>>, <<0>>, <<0, Infinity - 1>>, <<Infinity>>, <<40, 40>>}
MCTexts == {<<>>, <<1, 2>>}
MCTextOfNone == {[i \in 1..NoText |-> 1]}
MCMetas ==
    {[key |-> <<1>>, value |-> x] : x \in {[kind |-> "Int", v |-> MaxOf(W64)],
        [kind |-> "Float", v |-> 0], [kind |-> "Bool", v |-> 1],
        [kind |-> "Str", v |-> <<>>], [kind |-> "Bytes", v |-> Longest]}}
    \cup {[key |-> Append(Longest, 1), value |-> [kind |-> "Bool", v |-> 0]]}

MCStock ==
    {[life |-> "live", id |-> [kind |-> "Int", v |-> 1], vector |-> <<9>>, norm |-> 9,
      text |-> <<3>>, meta |-> <<>>],
     [life |-> "tombstone", id |-> [kind |-> "Str", v |-> <<2>>], vector |-> <<0>>, norm |-> None,
      text |-> None, meta |-> <<>>]}
=============================================================================
