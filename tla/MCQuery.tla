------------------------------ MODULE MCQuery ------------------------------
(* Vector queries over the store with one id and two scores. *)
EXTENDS Query

MCVals == {[score |-> s, text |-> None, meta |-> {}] : s \in {1, 2}}
MCLower == <<>>
=============================================================================
