------------------------------- MODULE MCHnsw -------------------------------
(* The graph index on small instances: directions on a half circle, whose  *)
(* distance is the angle between them, and a vector without a direction,   *)
(* as far from everything as two opposite ones (hnsw.rs:101).               *)
EXTENDS Hnsw

CONSTANTS Directions, NoDirection

MCVector == Directions \cup {NoDirection}

MCDist(a, b) ==
    IF NoDirection \in {a, b} THEN 3 ELSE IF a < b THEN b - a ELSE a - b

MCScorable(v) == v # NoDirection
=============================================================================
