------------------------------- MODULE MCWal -------------------------------
(* The log on a small instance: any payload is as good as any other, so    *)
(* the payloads are interchangeable.                                       *)
EXTENDS WalRefinement, TLC

PayloadSymmetry == Permutations(Payload)
=============================================================================
