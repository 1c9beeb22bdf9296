------------------------------ MODULE MCStore ------------------------------
(* The store on small instances.  Ids of one kind are interchangeable.     *)
EXTENDS StoreRefinement, TLC

IdSymmetry == Permutations(Ids)
=============================================================================
