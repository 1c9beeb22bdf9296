----------------------------- MODULE HnswProofs -----------------------------
(***************************************************************************)
(* Proofs about the graph index, for any vectors and distances, any bounds *)
(* and any widths of the beam.                                             *)
(*                                                                         *)
(* The invariants come in layers, each proved from those before: where the *)
(* walk may be (Struct), what the links are (Linked), what a beam search   *)
(* holds (Beam), who has neighbours (Company), and at last what a beam as  *)
(* wide as an uncut graph finds (Grounded, Explored, Exact).               *)
(***************************************************************************)
EXTENDS Hnsw, FiniteSetTheorems, WellFoundedInduction, TLAPS

(* Who is where during a call. *)
Walk ==
    /\ pc \in {"build", "ready"} => node = 0
    /\ pc = "link" => node # 0
    /\ node # 0 => node = pushed
    /\ entry <= pushed
    /\ pc = "ready" \/ (node = 0 /\ pc \in {"descend", "beam"}) => pushed = Len(vectors)
    /\ pc \in {"descend", "beam", "link"} =>
          /\ entry # 0 /\ entry # node
          /\ ep \in 1..pushed /\ ep # node /\ lc <= levels[ep]
    /\ pc = "descend" => lc <= max_level /\ TopShared <= lc
    /\ pc \in {"beam", "link"} => lc <= Base
    /\ \A c \in visited \cup todo : c <= pushed /\ c # node /\ lc <= levels[c]
    /\ pc # "beam" => visited = {}
    /\ pc \in {"build", "ready", "descend"} => todo = {}

(* The node being inserted is not linked to on the layers still to come. *)
Fresh ==
    node # 0 =>
        \A a \in Nodes, l \in Layers :
            pc = "descend" \/ l < lc \/ (l = lc /\ pc = "beam") => node \notin links[a][l]

Struct == TypeOK /\ LayersReached /\ EntryOnTop /\ Walk /\ Fresh

(* The neighbours still to link back are those the node was given. *)
Pending == pc = "link" => todo \subseteq links[node][lc]

Linked == DegreesBounded /\ CutListsAreFull /\ Pending

Beam == BeamKeepsClosest /\ todo \cap visited = {}

-----------------------------------------------------------------------------
LEMMA NodesFacts ==
  ASSUME vectors \in Seq(Vector)
  PROVE  /\ Nodes = 1..Len(vectors) /\ Len(vectors) \in Nat
         /\ IsFiniteSet(Nodes)
  <1>1. Nodes = 1..Len(vectors) /\ Len(vectors) \in Nat
    BY DEF Nodes
  <1> QED  BY <1>1, FS_Interval

(* Setting the neighbours of one node on one layer. *)
LEMMA SetLinks ==
  ASSUME NEW N, NEW L, NEW f \in [N -> [L -> SUBSET N]],
         NEW n \in N, NEW l \in L, NEW S \in SUBSET N,
         NEW g, g = [f EXCEPT ![n][l] = S]
  PROVE  /\ g \in [N -> [L -> SUBSET N]]
         /\ \A a \in N, m \in L : g[a][m] = IF a = n /\ m = l THEN S ELSE f[a][m]
  OBVIOUS

LEMMA InitStruct == ASSUME Init PROVE Struct
  <1> USE DEF Init
  <1>0. vectors \in Seq(Vector) /\ Len(vectors) <= MaxNodes
    BY HnswAssumption
  <1>1. Nodes = 1..Len(vectors) /\ Len(vectors) \in Nat
    BY <1>0, NodesFacts
  <1>2. TypeOK
    <2>1. q \in Vector
      BY HnswAssumption
    <2> QED  BY <1>0, <1>1, <2>1, HnswAssumption DEF TypeOK, Layers
  <1>3. LayersReached /\ EntryOnTop
    BY <1>1 DEF LayersReached, EntryOnTop
  <1>4. Walk /\ Fresh
    BY DEF Walk, Fresh
  <1> QED  BY <1>2, <1>3, <1>4 DEF Struct

LEMMA BaseType == TypeOK => Base \in Layers /\ Base \in Nat /\ lc \in Nat
  <1>1. 0 \in Layers /\ Layers \subseteq Nat
    BY HnswAssumption DEF Layers
  <1> QED  BY <1>1 DEF TypeOK, Base

LEMMA NodesStay ==
  ASSUME [Next]_vars  PROVE  vectors' = vectors /\ Nodes' = Nodes
  BY DEF Next, vars, Step, InsertFirst, Insert, Push, Built, QueryAll, Query, Hop, Descend,
         BeginBeam, Pop, Visit, Connect, LinkBack, NextLayer, Finish, Answer, Nodes

LEMMA StepTypes == Struct /\ [Next]_vars => TypeOK'
  <1>0. SUFFICES ASSUME Struct, [Next]_vars  PROVE TypeOK'
    OBVIOUS
  <1>1. TypeOK /\ vectors' = vectors /\ Nodes' = Nodes
    BY <1>0, NodesStay DEF Struct
  <1>2. Nodes = 1..Len(vectors) /\ Len(vectors) \in Nat
    BY <1>1, NodesFacts DEF TypeOK
  <1>a. LayersReached /\ EntryOnTop /\ Walk
    BY <1>0 DEF Struct
  <1> USE <1>1, <1>2 DEF graph, walk, beam
  <1>3. CASE UNCHANGED vars
    BY <1>3 DEF TypeOK, vars
  <1>4. ASSUME NEW level \in Layers, InsertFirst(level)  PROVE TypeOK'
    <2>1. pushed + 1 \in Nodes
      BY <1>4 DEF InsertFirst, Push, TypeOK
    <2> QED  BY <1>4, <2>1 DEF InsertFirst, Push, TypeOK
  <1>5. ASSUME NEW level \in Layers, Insert(level)  PROVE TypeOK'
    <2>1. pushed + 1 \in Nodes
      BY <1>5 DEF Insert, Push, TypeOK
    <2>2. q' \in Vector
      BY <1>5, <2>1 DEF Insert, TypeOK
    <2>3. lc' \in Layers /\ ep' \in Nodes
      BY <1>5, <1>a DEF Insert, TypeOK, EntryOnTop
    <2>4. levels' \in [Nodes -> Layers] /\ pushed' \in 0..Len(vectors)
      BY <1>5, <2>1 DEF Insert, Push, TypeOK
    <2>5. /\ node' \in Nodes \cup {0} /\ k' \in 0..MaxK /\ pc' = "descend"
          /\ UNCHANGED <<links, entry, max_level, beam, todo, answer>>
      BY <1>5, <2>1, HnswAssumption DEF Insert
    <2> QED  BY <2>2, <2>3, <2>4, <2>5 DEF TypeOK
  <1>6. CASE Built
    BY <1>6 DEF Built, TypeOK
  <1>7. ASSUME NEW v \in Vector, NEW m \in 1..MaxK, QueryAll(v, m)  PROVE TypeOK'
    <2>1. answer' \subseteq Nodes /\ m \in 0..MaxK
      BY <1>7, HnswAssumption DEF QueryAll, TopHits
    <2> QED  BY <1>7, <2>1 DEF QueryAll, TypeOK
  <1>8. ASSUME NEW v \in Vector, NEW m \in 1..MaxK, Query(v, m)  PROVE TypeOK'
    <2>1. max_level \in Layers /\ m \in 0..MaxK
      <3>1. m \in 0..MaxK /\ m > 0 /\ m < Len(vectors)
        BY <1>8, HnswAssumption DEF Query
      <3>2. entry # 0
        BY <1>8, <1>a, <3>1 DEF Query, EntryOnTop, Walk
      <3> QED  BY <1>a, <3>1, <3>2 DEF TypeOK, EntryOnTop
    <2> QED  BY <1>8, <2>1 DEF Query, TypeOK
  <1>9. ASSUME NEW nb \in Nodes, Hop(nb)  PROVE TypeOK'
    BY <1>9 DEF Hop, TypeOK
  <1>10. CASE Descend
    <2>1. Base \in Layers
      BY BaseType
    <2>2. lc - 1 \in Layers
      <3>1. lc \in Layers /\ lc > Base
        BY <1>10 DEF Descend, TypeOK
      <3> QED  BY <3>1, <2>1, HnswAssumption DEF Layers
    <2> QED  BY <1>10, <2>2 DEF Descend, TypeOK
  <1>11. CASE BeginBeam
    <2>1. Base \in Layers
      BY BaseType
    <2>2. TopShared \in Layers /\ ep \in Nodes
      <3>1. ep \in Nodes /\ lc \in Layers /\ lc <= max_level /\ max_level \in Layers \cup {-1}
        BY <1>11, <1>a DEF BeginBeam, TypeOK, Walk
      <3> QED  BY <3>1, <2>1, HnswAssumption DEF TopShared, Layers
    <2> QED  BY <1>11, <2>2 DEF BeginBeam, StartBeam, TypeOK
  <1>12. ASSUME NEW c \in cands, Pop(c)  PROVE TypeOK'
    BY <1>12 DEF Pop, TypeOK
  <1>13. ASSUME NEW nb \in Nodes, Visit(nb)  PROVE TypeOK'
    BY <1>13 DEF Visit, TypeOK
  <1>14. CASE Connect
    <2> PICK chosen \in Selections(q, results, M) :
            links' = [links EXCEPT ![node][lc] = chosen] /\ todo' = chosen
      BY <1>14 DEF Connect
    <2>1. chosen \in SUBSET Nodes
      BY DEF Selections, TypeOK
    <2>2. links' \in [Nodes -> [Layers -> SUBSET Nodes]]
      BY <1>14, <2>1, SetLinks DEF Connect, TypeOK
    <2>3. ep' \in Nodes
      BY <1>14 DEF Connect, TypeOK, IsClosest
    <2> QED  BY <1>14, <2>1, <2>2, <2>3 DEF Connect, EndBeam, TypeOK
  <1>15. ASSUME NEW nb \in Nodes, LinkBack(nb)  PROVE TypeOK'
    <2> PICK kept : /\ kept \in SUBSET (links[nb][lc] \cup {node})
                    /\ links' = [links EXCEPT ![nb][lc] = kept]
      BY <1>15 DEF LinkBack, Selections
    <2>1. kept \in SUBSET Nodes
      <3>1. node \in Nodes
        BY <1>15, <1>a DEF TypeOK, Walk, LinkBack
      <3>2. links \in [Nodes -> [Layers -> SUBSET Nodes]] /\ lc \in Layers
        BY <1>a DEF TypeOK
      <3>3. links[nb] \in [Layers -> SUBSET Nodes]
        BY ONLY <3>2, nb \in Nodes
      <3>4. links[nb][lc] \in SUBSET Nodes
        BY ONLY <3>2, <3>3
      <3> QED  BY <3>1, <3>4
    <2>2. links' \in [Nodes -> [Layers -> SUBSET Nodes]]
      BY <2>1, SetLinks DEF TypeOK
    <2> QED  BY <1>15, <2>2 DEF LinkBack, TypeOK
  <1>16. CASE NextLayer
    <2>1. ep \in Nodes /\ lc - 1 \in Layers
      BY <1>16, <1>a, HnswAssumption DEF NextLayer, TypeOK, Walk, Layers
    <2> QED  BY <1>16, <2>1 DEF NextLayer, StartBeam, TypeOK
  <1>17. CASE Finish
    <2>1. node \in Nodes /\ levels[node] \in Layers
      BY <1>17, <1>a DEF Finish, TypeOK, Walk
    <2>2. entry' \in Nodes \cup {0} /\ max_level' \in Layers \cup {-1}
      BY <1>17, <2>1 DEF Finish, TypeOK
    <2> QED  BY <1>17, <2>2 DEF Finish, TypeOK
  <1>18. CASE Answer
    <2>1. answer' \subseteq results
      BY <1>18 DEF Answer, TopHits
    <2> QED  BY <1>18, <2>1 DEF Answer, EndBeam, TypeOK
  <1> QED
    BY <1>0, <1>3, <1>4, <1>5, <1>6, <1>7, <1>8, <1>9, <1>10, <1>11, <1>12, <1>13, <1>14,
       <1>15, <1>16, <1>17, <1>18 DEF Next, Step

LEMMA StepEntry == Struct /\ [Next]_vars => EntryOnTop'
  <1>0. SUFFICES ASSUME Struct, [Next]_vars  PROVE EntryOnTop'
    OBVIOUS
  <1>1. TypeOK /\ EntryOnTop /\ Walk /\ vectors' = vectors /\ Nodes' = Nodes
    BY <1>0, NodesStay DEF Struct
  <1>2. /\ Nodes = 1..Len(vectors) /\ Len(vectors) \in Nat
        /\ pushed \in 0..Len(vectors) /\ entry \in Nodes \cup {0}
        /\ levels \in [Nodes -> Layers]
    BY <1>1, NodesFacts DEF TypeOK
  <1>3. Layers \subseteq Nat
    BY HnswAssumption DEF Layers
  <1> USE <1>1, <1>2, <1>3
  <1>4. ASSUME NEW level \in Layers, InsertFirst(level)  PROVE EntryOnTop'
    BY <1>4 DEF InsertFirst, Push, EntryOnTop, walk
  <1>5. ASSUME NEW level \in Layers, Insert(level)  PROVE EntryOnTop'
    <2>1. node = 0 /\ node' = pushed + 1 /\ pushed' = pushed + 1 /\ entry' = entry
          /\ max_level' = max_level /\ levels' = [levels EXCEPT ![pushed + 1] = level]
          /\ entry # 0
      BY <1>5 DEF Insert, Push, Walk
    <2>2. \A x \in 1..pushed : levels'[x] = levels[x]
      BY <2>1
    <2>3. entry \in 1..pushed
      BY <2>1 DEF Walk
    <2> QED  BY <2>1, <2>2, <2>3 DEF EntryOnTop
  <1>6. ASSUME NEW v \in Vector, NEW m \in 1..MaxK, QueryAll(v, m) \/ Query(v, m)
        PROVE EntryOnTop'
    BY <1>6 DEF QueryAll, Query, EntryOnTop, Walk, graph
  <1>7. CASE Finish
    <2>1. node = pushed /\ pushed > 0 /\ node \in Nodes
      BY <1>7 DEF Finish, Walk, TypeOK
    <2>a. \A x \in Nodes : levels[x] \in Nat
      <3>1. \A x \in Nodes : levels[x] \in Layers
        OBVIOUS
      <3> QED  BY <3>1
    <2>2. entry # 0 /\ max_level = levels[entry] /\ max_level \in Nat
      BY <2>1, <2>a DEF EntryOnTop
    <2>3. \A x \in 1..pushed : levels[x] \in Nat /\ (x # node => levels[x] <= max_level)
      BY <2>a DEF EntryOnTop
    <2>4. levels' = levels /\ pushed' = pushed /\ node' = 0
      BY <1>7 DEF Finish
    <2>5. CASE Raises
      <3>1. entry' = node /\ max_level' = levels[node] /\ max_level < levels[node]
        BY <1>7, <2>5, <2>1, <2>2, <2>3 DEF Finish, Raises
      <3> QED  BY <2>1, <2>2, <2>3, <2>4, <3>1 DEF EntryOnTop
    <2>6. CASE ~Raises
      <3>1. entry' = entry /\ max_level' = max_level /\ levels[node] <= max_level
        BY <1>7, <2>6, <2>1, <2>2, <2>3 DEF Finish, Raises
      <3> QED  BY <2>1, <2>2, <2>3, <2>4, <3>1 DEF EntryOnTop
    <2> QED  BY <2>5, <2>6
  <1>8. ASSUME UNCHANGED <<levels, entry, max_level, pushed, node>>  PROVE EntryOnTop'
    BY <1>8 DEF EntryOnTop
  <1> QED
    BY <1>0, <1>4, <1>5, <1>6, <1>7, <1>8
    DEF Next, Step, Built, Hop, Descend, BeginBeam, Pop, Visit, Connect, LinkBack,
        NextLayer, Answer, vars, graph, walk

LEMMA StepLinksShape ==
  Struct /\ [Next]_vars =>
    \A a \in Nodes, l \in Layers : \A b \in links'[a][l] :
        l <= levels'[a] /\ l <= levels'[b] /\ a <= pushed' /\ b <= pushed' /\ a # b
  <1>0. SUFFICES ASSUME Struct, [Next]_vars,
                        NEW a \in Nodes, NEW l \in Layers, NEW b \in links'[a][l]
                 PROVE  l <= levels'[a] /\ l <= levels'[b]
                        /\ a <= pushed' /\ b <= pushed' /\ a # b
    OBVIOUS
  <1>1. TypeOK /\ LayersReached /\ Walk /\ vectors' = vectors /\ Nodes' = Nodes
    BY <1>0, NodesStay DEF Struct
  <1>2. /\ Nodes = 1..Len(vectors) /\ Len(vectors) \in Nat
        /\ pushed \in 0..Len(vectors) /\ node \in Nodes \cup {0}
        /\ levels \in [Nodes -> Layers]
        /\ links \in [Nodes -> [Layers -> SUBSET Nodes]]
        /\ lc \in Layers
    BY <1>1, NodesFacts DEF TypeOK
  <1>3. \A x \in links[a][l] :
            l <= levels[a] /\ l <= levels[x] /\ a <= pushed /\ x <= pushed /\ a # x
    BY <1>1 DEF LayersReached
  <1> USE <1>1, <1>2, <1>3
  <1>4. ASSUME NEW level \in Layers, InsertFirst(level) \/ Insert(level)
        PROVE  l <= levels'[a] /\ l <= levels'[b] /\ a <= pushed' /\ b <= pushed' /\ a # b
    <2>1. links' = links /\ pushed' = pushed + 1
          /\ levels' = [levels EXCEPT ![pushed + 1] = level]
      BY <1>4 DEF InsertFirst, Insert, Push
    <2> QED  BY <2>1
  <1>5. CASE Connect
    <2>1. PICK chosen \in SUBSET results : links' = [links EXCEPT ![node][lc] = chosen]
      BY <1>5 DEF Connect, Selections
    <2>2. /\ node \in Nodes /\ node = pushed /\ lc <= levels[node]
          /\ \A c \in results : c \in Nodes /\ c <= pushed /\ c # node /\ lc <= levels[c]
      BY <1>5 DEF Connect, BeamDone, Walk, Base, TypeOK
    <2>3. levels' = levels /\ pushed' = pushed
      BY <1>5 DEF Connect
    <2>4. links'[a][l] = IF a = node /\ l = lc THEN chosen ELSE links[a][l]
      BY <2>1, <2>2, SetLinks
    <2> QED  BY <2>2, <2>3, <2>4
  <1>6. ASSUME NEW nb \in Nodes, LinkBack(nb)
        PROVE  l <= levels'[a] /\ l <= levels'[b] /\ a <= pushed' /\ b <= pushed' /\ a # b
    <2>1. PICK kept \in SUBSET (links[nb][lc] \cup {node}) :
             links' = [links EXCEPT ![nb][lc] = kept]
      BY <1>6 DEF LinkBack, Selections
    <2>2. /\ node \in Nodes /\ node = pushed /\ lc <= levels[node]
          /\ nb <= pushed /\ nb # node /\ lc <= levels[nb]
      BY <1>6 DEF LinkBack, Walk, Base, TypeOK
    <2>3. levels' = levels /\ pushed' = pushed
      BY <1>6 DEF LinkBack
    <2>4. links'[a][l] = IF a = nb /\ l = lc THEN kept ELSE links[a][l]
      BY <2>1, <2>2, SetLinks
    <2> QED  BY <2>1, <2>2, <2>3, <2>4
  <1>7. ASSUME UNCHANGED <<levels, links, pushed>>
        PROVE  l <= levels'[a] /\ l <= levels'[b] /\ a <= pushed' /\ b <= pushed' /\ a # b
    BY <1>7, <1>0
  <1> QED
    BY <1>0, <1>4, <1>5, <1>6, <1>7
    DEF Next, Step, Built, QueryAll, Query, Hop, Descend, BeginBeam, Pop, Visit,
        NextLayer, Finish, Answer, vars, graph

LEMMA StepWalk == Struct /\ [Next]_vars => Walk'
  <1>0. SUFFICES ASSUME Struct, [Next]_vars  PROVE Walk'
    OBVIOUS
  <1>1. TypeOK /\ LayersReached /\ EntryOnTop /\ Walk /\ Fresh
        /\ vectors' = vectors /\ Nodes' = Nodes
    BY <1>0, NodesStay DEF Struct
  <1>2. /\ Nodes = 1..Len(vectors) /\ Len(vectors) \in Nat
        /\ pushed \in 0..Len(vectors) /\ entry \in Nodes \cup {0}
        /\ node \in Nodes \cup {0} /\ ep \in Nodes \cup {0} /\ lc \in Layers
        /\ cands \subseteq visited /\ results \subseteq visited
        /\ visited \subseteq Nodes /\ todo \subseteq Nodes
    BY <1>1, NodesFacts DEF TypeOK
  <1>3. \A x \in Nodes : levels[x] \in Nat
    BY <1>1, HnswAssumption DEF TypeOK, Layers
  <1>4. lc \in Nat /\ Base \in Nat /\ max_level \in Int
    BY <1>1, BaseType, HnswAssumption DEF TypeOK, Layers
  <1>5. TopShared <= Base /\ TopShared <= max_level /\ TopShared \in Int
    BY <1>4 DEF TopShared
  <1> USE <1>1, <1>2, <1>3, <1>4, <1>5
  <1>6. ASSUME NEW level \in Layers, InsertFirst(level)  PROVE Walk'
    BY <1>6 DEF InsertFirst, Push, Walk, walk, beam
  <1>7. ASSUME NEW level \in Layers, Insert(level)  PROVE Walk'
    <2>1. /\ pc' = "descend" /\ entry' = entry /\ ep' = entry /\ lc' = max_level
          /\ max_level' = max_level /\ entry # 0
          /\ node' = pushed + 1 /\ pushed' = pushed + 1 /\ pushed + 1 \in Nodes
          /\ levels' = [levels EXCEPT ![pushed + 1] = level]
          /\ visited' = {} /\ todo' = {}
      BY <1>7 DEF Insert, Push, Walk, beam
    <2>2. entry \in 1..pushed /\ levels'[entry] = max_level
      BY <2>1 DEF Walk, EntryOnTop, TypeOK
    <2>3. Base' \in Nat
      <3>1. levels'[pushed + 1] = level
        BY <2>1 DEF TypeOK
      <3>2. level \in Nat
        BY HnswAssumption DEF Layers
      <3> QED  BY <2>1, <3>1, <3>2 DEF Base
    <2>4. TopShared' <= max_level
      BY <2>1, <2>3 DEF TopShared
    <2> QED  BY <2>1, <2>2, <2>4 DEF Walk
  <1>8. CASE Built
    BY <1>8 DEF Built, Walk, graph, walk, beam
  <1>9. ASSUME NEW v \in Vector, NEW m \in 1..MaxK, QueryAll(v, m)  PROVE Walk'
    BY <1>9 DEF QueryAll, Walk, graph, beam
  <1>10. ASSUME NEW v \in Vector, NEW m \in 1..MaxK, Query(v, m)  PROVE Walk'
    <2>1. /\ pc' = "descend" /\ node' = 0 /\ ep' = entry /\ lc' = max_level
          /\ UNCHANGED graph /\ visited' = {} /\ todo' = {}
          /\ pushed = Len(vectors) /\ m < Len(vectors)
      BY <1>10 DEF Query, Walk, beam
    <2>2. entry # 0 /\ entry \in 1..pushed /\ levels[entry] = max_level
      BY <2>1, HnswAssumption DEF EntryOnTop, Walk
    <2>3. TopShared' <= max_level
      BY <2>1 DEF TopShared, Base, graph
    <2> QED  BY <2>1, <2>2, <2>3 DEF Walk, graph
  <1>11. ASSUME NEW nb \in Nodes, Hop(nb)  PROVE Walk'
    <2>1. /\ pc = "descend" /\ nb \in links[ep][lc] /\ ep \in Nodes
          /\ ep' = nb /\ pc' = pc /\ UNCHANGED <<graph, node, lc, beam, todo>>
      BY <1>11 DEF Hop, Walk
    <2>2. lc <= levels[nb] /\ nb <= pushed
      BY <2>1 DEF LayersReached
    <2>3. nb # node
      BY <2>1 DEF Fresh
    <2>4. TopShared' = TopShared
      BY <2>1 DEF TopShared, Base, graph
    <2> QED  BY <2>1, <2>2, <2>3, <2>4 DEF Walk, graph, beam
  <1>12. CASE Descend
    <2>1. /\ pc = "descend" /\ lc > Base /\ lc' = lc - 1 /\ pc' = pc
          /\ UNCHANGED <<graph, node, ep, beam, todo>>
      BY <1>12 DEF Descend
    <2>2. TopShared' = TopShared /\ TopShared <= lc - 1
      BY <2>1 DEF TopShared, Base, graph
    <2> QED  BY <2>1, <2>2 DEF Walk, graph, beam
  <1>13. CASE BeginBeam
    <2>1. /\ pc = "descend" /\ pc' = "beam" /\ ep' = ep /\ lc' = TopShared
          /\ visited' = {ep} /\ todo' = {} /\ UNCHANGED <<graph, node>>
      BY <1>13 DEF BeginBeam, StartBeam
    <2>2. Base' = Base
      BY <2>1 DEF Base, graph
    <2> QED  BY <2>1, <2>2 DEF Walk, graph
  <1>14. ASSUME NEW c \in cands, Pop(c)  PROVE Walk'
    <2>1. /\ pc = "beam" /\ pc' = pc /\ todo' \subseteq links[c][lc]
          /\ visited' = visited /\ UNCHANGED <<graph, node, lc, ep>>
      BY <1>14 DEF Pop, walk
    <2>2. \A x \in links[c][lc] : x <= pushed /\ lc <= levels[x] /\ x # node
      BY <2>1 DEF LayersReached, Fresh, TypeOK
    <2>3. Base' = Base
      BY <2>1 DEF Base, graph
    <2> QED  BY <2>1, <2>2, <2>3 DEF Walk, graph
  <1>15. ASSUME NEW nb \in Nodes, Visit(nb)  PROVE Walk'
    <2>1. /\ pc = "beam" /\ pc' = pc /\ nb \in todo /\ todo' \subseteq todo
          /\ visited' = visited \cup {nb} /\ UNCHANGED <<graph, node, lc, ep>>
      BY <1>15 DEF Visit, walk
    <2>2. Base' = Base
      BY <2>1 DEF Base, graph
    <2> QED  BY <2>1, <2>2 DEF Walk, graph
  <1>16. CASE Connect
    <2>1. /\ pc = "beam" /\ pc' = "link" /\ node # 0 /\ todo' \subseteq results
          /\ ep' \in results /\ visited' = {}
          /\ UNCHANGED <<levels, entry, max_level, pushed, node, lc>>
      BY <1>16 DEF Connect, BeamDone, EndBeam, Selections, IsClosest
    <2>2. Base' = Base
      BY <2>1 DEF Base
    <2>3. \A c \in results : c \in 1..pushed /\ c # node /\ lc <= levels[c]
      BY DEF Walk
    <2>4. ep' \in 1..pushed' /\ ep' # node' /\ lc' <= levels'[ep']
      <3>1. ep' \in 1..pushed /\ ep' # node /\ lc <= levels[ep']
        BY <2>1, <2>3
      <3> QED  BY <2>1, <3>1
    <2>5. \A c \in visited' \cup todo' : c <= pushed' /\ c # node' /\ lc' <= levels'[c]
      <3>1. visited' \cup todo' \subseteq results
        BY <2>1
      <3>2. \A c \in results : c <= pushed /\ c # node /\ lc <= levels[c]
        BY <2>3
      <3> QED  BY <2>1, <3>1, <3>2
    <2> QED  BY <2>1, <2>2, <2>4, <2>5 DEF Walk
  <1>17. ASSUME NEW nb \in Nodes, LinkBack(nb)  PROVE Walk'
    <2>1. /\ pc = "link" /\ pc' = pc /\ todo' \subseteq todo /\ visited' = visited
          /\ UNCHANGED <<levels, entry, max_level, pushed, node, lc, ep>>
      BY <1>17 DEF LinkBack, walk, beam
    <2>2. Base' = Base
      BY <2>1 DEF Base
    <2> QED  BY <2>1, <2>2 DEF Walk
  <1>18. CASE NextLayer
    <2>1. /\ pc = "link" /\ pc' = "beam" /\ ep' = ep /\ lc' = lc - 1
          /\ visited' = {ep} /\ todo' = {} /\ UNCHANGED <<graph, node>>
      BY <1>18 DEF NextLayer, StartBeam
    <2>2. Base' = Base
      BY <2>1 DEF Base, graph
    <2> QED  BY <2>1, <2>2 DEF Walk, graph
  <1>19. CASE Finish
    <2>1. /\ pc = "link" /\ pc' = "build" /\ node' = 0 /\ entry' \in {node, entry}
          /\ pushed' = pushed /\ todo' = {} /\ visited' = visited
      BY <1>19 DEF Finish, beam
    <2>2. visited' = {} /\ entry' <= pushed'
      BY <2>1 DEF Walk
    <2> QED  BY <2>1, <2>2 DEF Walk
  <1>20. CASE Answer
    <2>1. /\ pc = "beam" /\ pc' = "ready" /\ node' = 0 /\ node = 0
          /\ visited' = {} /\ todo' = {} /\ UNCHANGED graph
      BY <1>20 DEF Answer, BeamDone, EndBeam, walk
    <2> QED  BY <2>1 DEF Walk, graph
  <1>21. CASE UNCHANGED vars
    BY <1>21 DEF vars, graph, walk, beam, Walk, TopShared, Base
  <1> QED
    BY <1>0, <1>6, <1>7, <1>8, <1>9, <1>10, <1>11, <1>12, <1>13, <1>14, <1>15, <1>16,
       <1>17, <1>18, <1>19, <1>20, <1>21 DEF Next, Step

LEMMA StepFresh == Struct /\ [Next]_vars => Fresh'
  <1>0. SUFFICES ASSUME Struct, [Next]_vars  PROVE Fresh'
    OBVIOUS
  <1>1. TypeOK /\ LayersReached /\ Walk /\ Fresh /\ vectors' = vectors /\ Nodes' = Nodes
    BY <1>0, NodesStay DEF Struct
  <1>2. /\ Nodes = 1..Len(vectors) /\ Len(vectors) \in Nat /\ pushed \in 0..Len(vectors)
        /\ node \in Nodes \cup {0} /\ lc \in Layers /\ lc \in Nat /\ Layers \subseteq Nat
        /\ links \in [Nodes -> [Layers -> SUBSET Nodes]]
        /\ results \subseteq visited
    BY <1>1, NodesFacts, BaseType, HnswAssumption DEF TypeOK, Layers
  <1> USE <1>1, <1>2
  <1>3. ASSUME NEW level \in Layers, Insert(level)  PROVE Fresh'
    <2>1. node' = pushed + 1 /\ links' = links /\ pc' = "descend"
      BY <1>3 DEF Insert, Push
    <2>2. \A a \in Nodes, l \in Layers : \A b \in links[a][l] : b <= pushed
      BY DEF LayersReached
    <2> QED  BY <2>1, <2>2 DEF Fresh
  <1>4. ASSUME \/ \E level \in Layers : InsertFirst(level)
               \/ Built \/ Finish \/ Answer
               \/ \E v \in Vector, m \in 1..MaxK : QueryAll(v, m) \/ Query(v, m)
        PROVE Fresh'
    <2>1. node' = 0
      BY <1>4 DEF InsertFirst, Push, Built, Finish, Answer, QueryAll, Query, Walk, walk
    <2> QED  BY <2>1 DEF Fresh
  <1>5. ASSUME Descend \/ BeginBeam \/ \E nb \in Nodes : Hop(nb)  PROVE Fresh'
    <2>1. pc = "descend" /\ links' = links /\ node' = node
      BY <1>5 DEF Descend, BeginBeam, Hop, graph
    <2> QED  BY <2>1 DEF Fresh
  <1>6. ASSUME (\E c \in cands : Pop(c)) \/ \E nb \in Nodes : Visit(nb)  PROVE Fresh'
    <2>1. pc' = pc /\ links' = links /\ node' = node /\ lc' = lc
      BY <1>6 DEF Pop, Visit, graph, walk
    <2> QED  BY <2>1 DEF Fresh
  <1>7. CASE Connect
    <2>1. PICK chosen \in SUBSET results : links' = [links EXCEPT ![node][lc] = chosen]
      BY <1>7 DEF Connect, Selections
    <2>2. pc = "beam" /\ pc' = "link" /\ node' = node /\ lc' = lc /\ node \in Nodes
          /\ chosen \in SUBSET Nodes
      BY <1>7 DEF Connect, BeamDone, TypeOK
    <2>3. \A a \in Nodes, l \in Layers : l < lc => links'[a][l] = links[a][l]
      BY <2>1, <2>2, SetLinks
    <2>4. \A a \in Nodes, l \in Layers : l < lc => node \notin links[a][l]
      BY <2>2 DEF Fresh
    <2> QED  BY <2>2, <2>3, <2>4 DEF Fresh
  <1>8. ASSUME NEW nb \in Nodes, LinkBack(nb)  PROVE Fresh'
    <2>1. PICK kept \in SUBSET (links[nb][lc] \cup {node}) :
             links' = [links EXCEPT ![nb][lc] = kept]
      BY <1>8 DEF LinkBack, Selections
    <2>2. pc = "link" /\ pc' = "link" /\ node' = node /\ lc' = lc /\ node \in Nodes
          /\ kept \in SUBSET Nodes
      BY <1>8, <2>1 DEF LinkBack, Walk, walk
    <2>3. \A a \in Nodes, l \in Layers : l < lc => links'[a][l] = links[a][l]
      BY <2>1, <2>2, SetLinks
    <2>4. \A a \in Nodes, l \in Layers : l < lc => node \notin links[a][l]
      BY <2>2 DEF Fresh
    <2> QED  BY <2>2, <2>3, <2>4 DEF Fresh
  <1>9. CASE NextLayer
    <2>1. pc = "link" /\ pc' = "beam" /\ lc' = lc - 1 /\ links' = links /\ node' = node
      BY <1>9 DEF NextLayer, StartBeam, graph
    <2>2. \A l \in Layers : l < lc' \/ l = lc' => l < lc
      BY <2>1
    <2> QED  BY <2>1, <2>2 DEF Fresh
  <1>10. CASE UNCHANGED vars
    BY <1>10 DEF vars, graph, walk, Fresh
  <1> QED
    BY <1>0, <1>3, <1>4, <1>5, <1>6, <1>7, <1>8, <1>9, <1>10 DEF Next, Step

LEMMA StepStruct == Struct /\ [Next]_vars => Struct'
  <1>0. SUFFICES ASSUME Struct, [Next]_vars  PROVE Struct'
    OBVIOUS
  <1>1. TypeOK' /\ EntryOnTop' /\ Walk' /\ Fresh' /\ Nodes' = Nodes
    BY <1>0, StepTypes, StepEntry, StepWalk, StepFresh, NodesStay
  <1>2. LayersReached'
    BY <1>0, <1>1, StepLinksShape DEF LayersReached, Walk
  <1> QED  BY <1>1, <1>2 DEF Struct

THEOREM Structure == Spec => []Struct
  BY InitStruct, StepStruct, PTL DEF Spec

(* The shape of the index and of the walk over it. *)
THEOREM TypeCorrect == Spec => []TypeOK
  <1>1. Struct => TypeOK
    BY DEF Struct
  <1> QED  BY Structure, <1>1, PTL

(* Reading the neighbours of a node on a layer never goes out of bounds:   *)
(* neither a walk nor a link ever reaches a node below its own layer.      *)
THEOREM WalkStaysOnLayers == Spec => []LayersReached
  <1>1. Struct => LayersReached
    BY DEF Struct
  <1> QED  BY Structure, <1>1, PTL

(* A search starts at a node of the top layer. *)
THEOREM EntryStaysOnTop == Spec => []EntryOnTop
  <1>1. Struct => EntryOnTop
    BY DEF Struct
  <1> QED  BY Structure, <1>1, PTL

-----------------------------------------------------------------------------
(* The links                                                               *)

LEMMA SelectionSize ==
  ASSUME NEW v, NEW C, IsFiniteSet(C), NEW m \in Nat, NEW S \in Selections(v, C, m)
  PROVE  /\ S \in SUBSET C
         /\ Cardinality(S) <= m
         /\ Cardinality(C) > m => Cardinality(S) = m
  <1>1. Cardinality(C) \in Nat
    BY FS_CardinalityType
  <1>2. S \in SUBSET C
        /\ Cardinality(S) = (IF m < Cardinality(C) THEN m ELSE Cardinality(C))
    BY DEF Selections
  <1> QED  BY <1>1, <1>2

LEMMA InitLinked == ASSUME Init PROVE Linked
  <1>1. vectors \in Seq(Vector)
    BY HnswAssumption DEF Init
  <1>2. \A a \in Nodes, l \in Layers : links[a][l] = {}
    BY DEF Init
  <1>3. Cardinality({}) = 0
    BY FS_EmptySet
  <1> QED
    BY <1>2, <1>3, HnswAssumption
    DEF Linked, DegreesBounded, CutListsAreFull, Pending, Init

LEMMA StepLinked == Struct /\ Linked /\ [Next]_vars => Linked'
  <1>0. SUFFICES ASSUME Struct, Linked, [Next]_vars  PROVE Linked'
    OBVIOUS
  <1>1. /\ TypeOK /\ LayersReached /\ Walk /\ Fresh /\ Nodes' = Nodes
        /\ DegreesBounded /\ CutListsAreFull /\ Pending
    BY <1>0, NodesStay DEF Struct, Linked
  <1>2. /\ IsFiniteSet(Nodes) /\ node \in Nodes \cup {0} /\ lc \in Layers
        /\ links \in [Nodes -> [Layers -> SUBSET Nodes]]
        /\ results \subseteq visited /\ visited \subseteq Nodes /\ todo \subseteq Nodes
    BY <1>1, NodesFacts DEF TypeOK
  <1> DEFINE Bound(l) == IF l = 0 THEN M0 ELSE M
  <1>3. \A l \in Layers : MaxDegree(l) = Bound(l) /\ Bound(l) \in Nat /\ M <= Bound(l)
    BY HnswAssumption DEF MaxDegree
  <1>4. DegreesBounded <=> \A a \in Nodes, l \in Layers : Cardinality(links[a][l]) <= Bound(l)
    BY DEF DegreesBounded
  <1>5. CutListsAreFull <=>
          \A a \in Nodes, l \in Layers : \A b \in links[a][l] :
              \/ a \in links[b][l]
              \/ pc = "link" /\ a = node /\ l = lc /\ b \in todo
              \/ Cardinality(links[b][l]) = Bound(l)
    BY DEF CutListsAreFull
  <1>6. (DegreesBounded <=> \A a \in Nodes, l \in Layers : Cardinality(links[a][l]) <= Bound(l))'
    BY DEF DegreesBounded
  <1>7. (CutListsAreFull <=>
          \A a \in Nodes, l \in Layers : \A b \in links[a][l] :
              \/ a \in links[b][l]
              \/ pc = "link" /\ a = node /\ l = lc /\ b \in todo
              \/ Cardinality(links[b][l]) = Bound(l))'
    BY DEF CutListsAreFull
  <1> HIDE DEF Bound
  <1>8. CASE Connect
    <2>1. PICK chosen \in Selections(q, results, M) :
             links' = [links EXCEPT ![node][lc] = chosen] /\ todo' = chosen
      BY <1>8 DEF Connect
    <2>2. /\ pc = "beam" /\ pc' = "link" /\ node \in Nodes /\ node # 0 /\ node' = node /\ lc' = lc
      BY <1>8, <1>2 DEF Connect, BeamDone
    <2>3. chosen \in SUBSET Nodes /\ Cardinality(chosen) <= M /\ chosen \subseteq results
      <3>1. IsFiniteSet(results)
        BY <1>2, FS_Subset
      <3> QED  BY <1>2, <3>1, SelectionSize, HnswAssumption
    <2>4. \A a \in Nodes, l \in Layers :
             links'[a][l] = IF a = node /\ l = lc THEN chosen ELSE links[a][l]
      BY <1>2, <2>1, <2>2, <2>3, SetLinks
    <2>5. \A a \in Nodes : node \notin links[a][lc]
      BY <1>1, <1>2, <2>2 DEF Fresh
    <2>6. DegreesBounded'
      <3>1. Cardinality(chosen) <= Bound(lc)
        <4>1. Cardinality(chosen) \in Nat
          BY <1>2, <2>3, FS_Subset, FS_CardinalityType
        <4> QED  BY <1>2, <1>3, <2>3, <4>1, HnswAssumption
      <3> QED  BY <1>1, <1>4, <1>6, <2>4, <3>1
    <2>7. CutListsAreFull'
      <3> SUFFICES ASSUME NEW a \in Nodes, NEW l \in Layers, NEW b \in links'[a][l]
                   PROVE  \/ a \in links'[b][l]
                          \/ a = node /\ l = lc /\ b \in todo'
                          \/ Cardinality(links'[b][l]) = Bound(l)
        BY <1>1, <1>7, <2>2
      <3>1. CASE a = node /\ l = lc
        BY <2>1, <2>4, <3>1
      <3>2. CASE ~(a = node /\ l = lc)
        <4>1. b \in links[a][l] /\ b \in Nodes
          BY <1>2, <2>4, <3>2
        <4>2. links'[b][l] = links[b][l]
          BY <2>4, <2>5, <4>1
        <4> QED  BY <1>1, <1>5, <2>2, <4>1, <4>2
      <3> QED  BY <3>1, <3>2
    <2>8. Pending'
      BY <1>2, <2>1, <2>2, <2>4 DEF Pending
    <2> QED  BY <2>6, <2>7, <2>8 DEF Linked
  <1>9. ASSUME NEW nb \in Nodes, LinkBack(nb)  PROVE Linked'
    <2> DEFINE list == links[nb][lc] \cup {node}
    <2>1. PICK kept : /\ kept \in IF Cardinality(list) > MaxDegree(lc)
                                  THEN Selections(vectors[nb], list, MaxDegree(lc))
                                  ELSE {list}
                      /\ links' = [links EXCEPT ![nb][lc] = kept]
      BY <1>9 DEF LinkBack
    <2>2. /\ pc = "link" /\ pc' = "link" /\ node' = node /\ lc' = lc
          /\ nb \in todo /\ todo' = todo \ {nb}
      BY <1>9 DEF LinkBack, walk
    <2>3. node \in Nodes /\ nb # node
      BY <1>1, <1>2, <2>2 DEF Walk
    <2>4. list \in SUBSET Nodes /\ IsFiniteSet(list) /\ Cardinality(list) \in Nat
      BY <1>2, <2>3, FS_Subset, FS_CardinalityType
    <2>5. /\ kept \in SUBSET list /\ Cardinality(kept) <= Bound(lc)
          /\ kept = list \/ Cardinality(kept) = Bound(lc)
      <3>a. MaxDegree(lc) = Bound(lc) /\ Bound(lc) \in Nat
        BY <1>2, <1>3
      <3>1. CASE Cardinality(list) > MaxDegree(lc)
        <4>1. kept \in Selections(vectors[nb], list, Bound(lc))
          BY <2>1, <3>a, <3>1
        <4> HIDE DEF list
        <4> QED  BY <2>4, <3>a, <3>1, <4>1, SelectionSize
      <3>2. CASE ~(Cardinality(list) > MaxDegree(lc))
        <4>1. kept = list
          BY <2>1, <3>2
        <4> HIDE DEF list
        <4> QED  BY <2>4, <3>a, <3>2, <4>1
      <3> QED  BY <3>1, <3>2
    <2>6. \A a \in Nodes, l \in Layers :
             links'[a][l] = IF a = nb /\ l = lc THEN kept ELSE links[a][l]
      BY <1>2, <2>1, <2>4, <2>5, SetLinks
    <2>7. DegreesBounded'
      BY <1>1, <1>4, <1>6, <2>5, <2>6
    <2>8. CutListsAreFull'
      <3> SUFFICES ASSUME NEW a \in Nodes, NEW l \in Layers, NEW b \in links'[a][l]
                   PROVE  \/ a \in links'[b][l]
                          \/ a = node /\ l = lc /\ b \in todo'
                          \/ Cardinality(links'[b][l]) = Bound(l)
        BY <1>1, <1>7, <2>2
      <3>1. CASE l # lc
        <4>1. \A x \in Nodes : links'[x][l] = links[x][l]
          BY <2>6, <3>1
        <4>2. b \in links[a][l] /\ b \in Nodes
          BY <1>2, <4>1
        <4> QED  BY <1>1, <1>5, <3>1, <4>1, <4>2
      <3>2. CASE l = lc /\ a = nb
        <4>1. b \in list /\ b \in Nodes
          BY <2>4, <2>5, <2>6, <3>2
        <4>2. CASE b = node
          <5>1. nb \in links[node][lc]
            BY <1>1, <2>2 DEF Pending
          <5> QED  BY <2>3, <2>6, <3>2, <4>2, <5>1
        <4>3. CASE b # node
          <5>1. b \in links[nb][lc] /\ b # nb
            BY <1>1, <1>2, <4>1, <4>3 DEF LayersReached
          <5>2. links'[b][lc] = links[b][lc]
            BY <1>2, <2>6, <4>1, <5>1
          <5> QED  BY <1>1, <1>2, <1>5, <2>3, <3>2, <5>1, <5>2
        <4> QED  BY <4>2, <4>3
      <3>3. CASE l = lc /\ a # nb
        <4>1. b \in links[a][lc] /\ b \in Nodes
          BY <1>2, <2>6, <3>3
        <4>2. CASE b # nb
          <5>1. links'[b][lc] = links[b][lc]
            BY <1>2, <2>6, <4>1, <4>2
          <5> QED  BY <1>1, <1>2, <1>5, <2>2, <3>3, <4>1, <4>2, <5>1
        <4>3. CASE b = nb
          <5>1. links'[nb][lc] = kept
            BY <1>2, <2>6
          <5>2. CASE Cardinality(kept) = Bound(lc)
            BY <3>3, <4>3, <5>1, <5>2
          <5>3. CASE kept = list
            <6>1. CASE a \in list
              BY <3>3, <4>3, <5>1, <5>3, <6>1
            <6>2. CASE a \notin list
              <7>1. Cardinality(links[nb][lc]) = Bound(lc)
                BY <1>1, <1>2, <1>5, <4>1, <4>3, <6>2
              <7>2. node \in links[nb][lc]
                <8> SUFFICES ASSUME node \notin links[nb][lc]  PROVE FALSE
                  OBVIOUS
                <8>1. IsFiniteSet(links[nb][lc]) /\ Cardinality(links[nb][lc]) \in Nat
                  BY <1>2, FS_Subset, FS_CardinalityType
                <8>2. Cardinality(list) = Cardinality(links[nb][lc]) + 1
                  BY <8>1, FS_AddElement
                <8> QED  BY <2>5, <5>3, <7>1, <8>1, <8>2
              <7>3. list = links[nb][lc]
                BY <7>2
              <7> QED  BY <3>3, <4>3, <5>1, <5>3, <7>1, <7>3
            <6> QED  BY <6>1, <6>2
          <5> QED  BY <2>5, <5>2, <5>3
        <4> QED  BY <4>2, <4>3
      <3> QED  BY <3>1, <3>2, <3>3
    <2>9. Pending'
      BY <1>1, <1>2, <2>2, <2>3, <2>6 DEF Pending
    <2> QED  BY <2>7, <2>8, <2>9 DEF Linked
  <1>10. ASSUME links' = links,
                pc' # "link",
                pc = "link" => todo = {}
         PROVE  Linked'
    <2>1. DegreesBounded' /\ Pending'
      BY <1>1, <1>4, <1>6, <1>10 DEF Pending
    <2>2. CutListsAreFull'
      BY <1>1, <1>5, <1>7, <1>10
    <2> QED  BY <2>1, <2>2 DEF Linked
  <1>11. CASE UNCHANGED vars
    BY <1>1, <1>4, <1>5, <1>6, <1>7, <1>11 DEF vars, graph, walk, Pending, Linked
  <1> QED
    BY <1>0, <1>8, <1>9, <1>10, <1>11
    DEF Next, Step, InsertFirst, Insert, Push, Built, QueryAll, Query, Hop, Descend,
        BeginBeam, StartBeam, Pop, Visit, NextLayer, Finish, Answer, BeamDone, graph

THEOREM Links == Spec => []Linked
  <1>1. Init => Linked
    BY InitLinked
  <1>2. Struct /\ Linked /\ [Next]_vars => Linked'
    BY StepLinked
  <1> QED  BY Structure, <1>1, <1>2, PTL DEF Spec

(* No node ever has more neighbours than its layer allows. *)
THEOREM DegreesStayBounded == Spec => []DegreesBounded
  <1>1. Linked => DegreesBounded
    BY DEF Linked
  <1> QED  BY Links, <1>1, PTL

(* A node cuts a neighbour off only when its list is full, and then stays  *)
(* full.                                                                   *)
THEOREM CutListsStayFull == Spec => []CutListsAreFull
  <1>1. Linked => CutListsAreFull
    BY DEF Linked
  <1> QED  BY Links, <1>1, PTL

-----------------------------------------------------------------------------
(* The beam                                                                *)

LEMMA EfType == TypeOK => Ef \in Nat
  <1> SUFFICES ASSUME TypeOK  PROVE Ef \in Nat
    OBVIOUS
  <1>1. 4 * k \in Nat
    <2>1. k \in 0..MaxK
      BY DEF TypeOK
    <2> QED  BY <2>1, HnswAssumption
  <1>2. EfConstruction \in Nat /\ EfSearch \in Nat
    BY HnswAssumption
  <1> QED  BY <1>1, <1>2 DEF Ef

LEMMA StepBeam == Struct /\ Beam /\ [Next]_vars => Beam'
  <1>0. SUFFICES ASSUME Struct, Beam, [Next]_vars  PROVE Beam'
    OBVIOUS
  <1>1. /\ TypeOK /\ Walk /\ BeamKeepsClosest /\ todo \cap visited = {}
        /\ vectors' = vectors /\ Nodes' = Nodes
    BY <1>0, NodesStay DEF Struct, Beam
  <1>2. /\ IsFiniteSet(Nodes) /\ visited \subseteq Nodes
        /\ cands \subseteq visited /\ results \subseteq visited /\ Ef \in Nat
        /\ todo \subseteq Nodes
    BY <1>1, NodesFacts, EfType DEF TypeOK
  <1>3. \A x \in Nodes : D(x) \in Nat
    <2>1. q \in Vector /\ vectors \in Seq(Vector) /\ Nodes = 1..Len(vectors)
      BY <1>1, NodesFacts DEF TypeOK
    <2>2. \A x \in Nodes : vectors[x] \in Vector
      BY <2>1
    <2> QED  BY <2>1, <2>2, HnswAssumption DEF D
  <1>4. IsFiniteSet(results) /\ Cardinality(results) \in Nat
    BY <1>2, FS_Subset, FS_CardinalityType
  <1>5. ASSUME NEW nb \in Nodes, Visit(nb)  PROVE Beam'
    <2>1. /\ nb \in todo /\ todo' = todo \ {nb} /\ visited' = visited \cup {nb}
          /\ UNCHANGED <<q, k, node>>
      BY <1>5 DEF Visit, walk
    <2>2. Ef' = Ef /\ \A x : D(x)' = D(x)
      BY <1>1, <2>1 DEF Ef, D
    <2>3. nb \notin visited /\ nb \notin results
      BY <1>1, <1>2, <2>1
    <2>4. todo' \cap visited' = {}
      BY <1>1, <2>1
    <2>5. \A s \in visited \ results :
             Cardinality(results) >= Ef /\ \A r \in results : D(r) <= D(s)
      BY <1>1 DEF BeamKeepsClosest
    <2>6. SUFFICES ASSUME NEW s \in visited' \ results'
                   PROVE  Cardinality(results') >= Ef /\ \A r \in results' : D(r) <= D(s)
      BY <2>2, <2>4 DEF Beam, BeamKeepsClosest
    <2>7. CASE ~Admitted(nb)
      <3>1. results' = results
        BY <1>5, <2>7 DEF Visit
      <3>2. Cardinality(results) >= Ef /\ \A r \in results : ~(D(nb) < D(r))
        BY <1>2, <1>4, <2>7 DEF Admitted, Closer
      <3> QED  BY <1>2, <1>3, <2>1, <2>5, <2>6, <3>1, <3>2
    <2>8. CASE Admitted(nb)
      <3> DEFINE more == results \cup {nb}
      <3>1. IsFiniteSet(more) /\ Cardinality(more) = Cardinality(results) + 1
        BY <1>4, <2>3, FS_AddElement
      <3>2. CASE Cardinality(more) > Ef
        <4>1. PICK f \in more : IsFarthest(f, more) /\ results' = more \ {f}
          BY <1>5, <2>8, <3>2 DEF Visit
        <4>2. Cardinality(results') >= Ef
          <5>1. Cardinality(results') = Cardinality(more) - 1
            BY <3>1, <4>1, FS_RemoveElement
          <5> QED  BY <1>2, <1>4, <3>1, <3>2, <5>1
        <4>3. \A r \in more : r \in Nodes /\ D(r) \in Nat /\ D(r) <= D(f)
          BY <1>2, <1>3, <4>1 DEF IsFarthest, Before
        <4>4. CASE s = f
          BY <4>1, <4>2, <4>3, <4>4
        <4>5. CASE s # f
          <5>1. s \in visited \ results /\ s \in Nodes
            BY <1>2, <2>1, <2>6, <4>1, <4>5
          <5>2. Cardinality(results) >= Ef /\ \A r \in results : D(r) <= D(s)
            BY <2>5, <5>1
          <5>3. PICK r \in results : D(nb) < D(r)
            BY <1>2, <1>4, <2>8, <5>2 DEF Admitted, Closer
          <5>4. D(nb) <= D(s)
            BY <1>2, <1>3, <2>1, <5>1, <5>2, <5>3
          <5> QED  BY <4>1, <4>2, <5>2, <5>4
        <4> QED  BY <4>4, <4>5
      <3>3. CASE ~(Cardinality(more) > Ef)
        <4>1. results' = more
          BY <1>5, <2>8, <3>3 DEF Visit
        <4>2. s \in visited \ results
          BY <2>1, <2>6, <4>1
        <4> QED  BY <1>2, <1>4, <2>5, <3>1, <3>3, <4>2
      <3> QED  BY <3>2, <3>3
    <2> QED  BY <2>7, <2>8
  <1>6. ASSUME NEW c \in cands, Pop(c)  PROVE Beam'
    <2>1. /\ todo' \cap visited' = {} /\ visited' = visited /\ results' = results
          /\ UNCHANGED <<q, k, node>>
      BY <1>6 DEF Pop, walk
    <2>2. Ef' = Ef /\ \A x : D(x)' = D(x)
      BY <1>1, <2>1 DEF Ef, D
    <2> QED  BY <1>1, <2>1, <2>2 DEF Beam, BeamKeepsClosest
  <1>7. ASSUME visited' \subseteq results', todo' \cap visited' = {}  PROVE Beam'
    BY <1>7 DEF Beam, BeamKeepsClosest
  <1>8. CASE UNCHANGED vars
    <2>1. /\ visited' = visited /\ results' = results /\ todo' = todo
          /\ UNCHANGED <<q, k, node>>
      BY <1>8 DEF vars, walk, beam
    <2>2. Ef' = Ef /\ \A x : D(x)' = D(x)
      BY <1>1, <2>1 DEF Ef, D
    <2> QED  BY <1>1, <2>1, <2>2 DEF Beam, BeamKeepsClosest
  <1>9. ASSUME \/ \E level \in Layers : InsertFirst(level) \/ Insert(level)
               \/ Built \/ Finish \/ Descend
               \/ \E v \in Vector, m \in 1..MaxK : QueryAll(v, m) \/ Query(v, m)
               \/ \E nb \in Nodes : Hop(nb) \/ LinkBack(nb)
        PROVE  Beam'
    <2>1. visited = {} /\ visited' = visited
      BY <1>1, <1>9 DEF InsertFirst, Insert, Push, Built, Finish, Descend, QueryAll, Query,
                        Hop, LinkBack, Walk, beam
    <2> QED  BY <1>7, <2>1
  <1>10. CASE BeginBeam \/ NextLayer
    BY <1>7, <1>10 DEF BeginBeam, NextLayer, StartBeam
  <1>11. CASE Connect \/ Answer
    BY <1>7, <1>11 DEF Connect, Answer, EndBeam
  <1> QED
    BY <1>0, <1>5, <1>6, <1>8, <1>9, <1>10, <1>11 DEF Next, Step

THEOREM Beams == Spec => []Beam
  <1>1. Init => Beam
    BY DEF Init, Beam, BeamKeepsClosest
  <1>2. Struct /\ Beam /\ [Next]_vars => Beam'
    BY StepBeam
  <1> QED  BY Structure, <1>1, <1>2, PTL DEF Spec

(* A beam search never gives up a node that is closer than one it keeps,   *)
(* nor any node while it has room: at its end the results are the closest  *)
(* of all nodes it has seen.                                               *)
THEOREM BeamIsCorrect == Spec => []BeamKeepsClosest
  <1>1. Beam => BeamKeepsClosest
    BY DEF Beam
  <1> QED  BY Beams, <1>1, PTL

-----------------------------------------------------------------------------
(* No dead ends.  While a node is inserted it has its neighbours on the    *)
(* layers already done, and they have some too; so the second node of a    *)
(* layer ends the loneliness of the first.                                 *)

Done(l) == l <= TopShared /\ ((pc = "beam" /\ l > lc) \/ (pc = "link" /\ l >= lc))

Joined ==
    node # 0 => \A l \in Layers : Done(l) =>
        /\ links[node][l] # {}
        /\ \A b \in links[node][l] : links[b][l] # {} \/ (pc = "link" /\ l = lc /\ b \in todo)

Together ==
    \A a, b \in 1..pushed : \A l \in Layers :
        a # b /\ a # node /\ b # node /\ l <= levels[a] /\ l <= levels[b] => links[a][l] # {}

Company == Joined /\ Together /\ (pc = "beam" => results # {})

LEMMA SelectionNotEmpty ==
  ASSUME NEW v, NEW C, IsFiniteSet(C), C # {}, NEW m \in Nat, m > 0, NEW S \in Selections(v, C, m)
  PROVE  S # {}
  <1>1. Cardinality(C) \in Nat /\ Cardinality(C) # 0
    BY FS_CardinalityType, FS_EmptySet
  <1>2. Cardinality(S) = (IF m < Cardinality(C) THEN m ELSE Cardinality(C))
    BY DEF Selections
  <1>3. Cardinality(S) # 0
    BY <1>1, <1>2
  <1> QED  BY <1>3, FS_EmptySet

LEMMA StepCompany == Struct /\ Beam /\ Company /\ [Next]_vars => Company'
  <1>0. SUFFICES ASSUME Struct, Beam, Company, [Next]_vars  PROVE Company'
    OBVIOUS
  <1>1. /\ TypeOK /\ LayersReached /\ EntryOnTop /\ Walk /\ Nodes' = Nodes /\ vectors' = vectors
        /\ Joined /\ Together /\ todo \cap visited = {}
        /\ pc = "beam" => results # {}
    BY <1>0, NodesStay DEF Struct, Beam, Company
  <1>2. /\ Nodes = 1..Len(vectors) /\ Len(vectors) \in Nat /\ IsFiniteSet(Nodes)
        /\ pushed \in 0..Len(vectors) /\ node \in Nodes \cup {0} /\ lc \in Layers /\ lc \in Nat
        /\ levels \in [Nodes -> Layers]
        /\ links \in [Nodes -> [Layers -> SUBSET Nodes]]
        /\ results \subseteq visited /\ visited \subseteq Nodes /\ todo \subseteq Nodes
        /\ Layers \subseteq Nat
    <2>1. Layers \subseteq Nat
      BY HnswAssumption DEF Layers
    <2> QED  BY <1>1, <2>1, NodesFacts DEF TypeOK
  <1>3. ASSUME UNCHANGED <<levels, links, max_level, pushed, node, pc, lc, todo>>,
               pc = "beam" => results' # {}
        PROVE  Company'
    <2>1. TopShared' = TopShared
      BY <1>3 DEF TopShared, Base
    <2> QED  BY <1>1, <1>3, <2>1 DEF Company, Joined, Done, Together
  <1>4. ASSUME UNCHANGED <<levels, links, pushed, node>>, node = 0 \/ pc' = "descend",
               pc' = "beam" => results' # {}
        PROVE  Company'
    BY <1>1, <1>4 DEF Company, Joined, Done, Together
  <1>5. ASSUME NEW level \in Layers, InsertFirst(level)  PROVE Company'
    <2>1. pushed' = 1 /\ node' = 0 /\ pc' = "build"
      BY <1>1, <1>2, <1>5 DEF InsertFirst, Push, EntryOnTop, Walk, walk
    <2> QED  BY <2>1 DEF Company, Joined, Together
  <1>6. ASSUME NEW level \in Layers, Insert(level)  PROVE Company'
    <2>1. /\ node = 0 /\ node' = pushed + 1 /\ pushed' = pushed + 1 /\ links' = links
          /\ levels' = [levels EXCEPT ![pushed + 1] = level] /\ pc' = "descend"
      BY <1>1, <1>6 DEF Insert, Push, Walk
    <2>2. \A a \in 1..pushed' : a # node' => a \in 1..pushed /\ levels'[a] = levels[a]
      BY <1>2, <2>1
    <2>3. Together'
      <3> SUFFICES ASSUME NEW a \in 1..pushed', NEW b \in 1..pushed', NEW l \in Layers,
                          a # b, a # node', b # node', l <= levels'[a], l <= levels'[b]
                   PROVE  links'[a][l] # {}
        BY DEF Together
      <3>1. a \in 1..pushed /\ b \in 1..pushed /\ l <= levels[a] /\ l <= levels[b]
        BY <2>2
      <3>2. a # node /\ b # node
        BY <2>1, <3>1
      <3> QED  BY <1>1, <2>1, <3>1, <3>2 DEF Together
    <2>4. Joined'
      BY <2>1 DEF Joined, Done
    <2> QED  BY <2>1, <2>3, <2>4 DEF Company
  <1>7. CASE Descend \/ Built \/ UNCHANGED vars
    BY <1>3, <1>4, <1>1, <1>7 DEF Descend, Built, Walk, vars, graph, walk, beam
  <1>8. ASSUME NEW v \in Vector, NEW m \in 1..MaxK, QueryAll(v, m) \/ Query(v, m)  PROVE Company'
    <2>1. node = 0 /\ node' = node /\ UNCHANGED <<levels, links, pushed>> /\ pc' # "beam"
      BY <1>1, <1>8 DEF QueryAll, Query, Walk, graph
    <2> QED  BY <1>4, <2>1
  <1>9. ASSUME NEW nb \in Nodes, Hop(nb)  PROVE Company'
    BY <1>4, <1>9 DEF Hop, graph
  <1>10. CASE BeginBeam
    <2>1. /\ pc' = "beam" /\ lc' = TopShared /\ results' # {}
          /\ UNCHANGED <<levels, links, max_level, pushed, node>>
      BY <1>10 DEF BeginBeam, StartBeam, graph
    <2>2. TopShared' = TopShared
      BY <2>1 DEF TopShared, Base
    <2>3. TopShared \in Int
      <3>1. Base \in Nat
        BY <1>1, BaseType
      <3>2. max_level \in Int
        BY <1>1, HnswAssumption DEF TypeOK, Layers
      <3> QED  BY <3>1, <3>2 DEF TopShared
    <2>4. Joined'
      BY <1>2, <2>1, <2>2, <2>3 DEF Joined, Done
    <2> QED  BY <1>1, <2>1, <2>4 DEF Company, Together
  <1>11. ASSUME NEW c \in cands, Pop(c)  PROVE Company'
    <2>1. /\ pc = "beam" /\ pc' = "beam" /\ results' = results
          /\ UNCHANGED <<levels, links, max_level, pushed, node, lc>>
      BY <1>11 DEF Pop, graph, walk
    <2>2. TopShared' = TopShared
      BY <2>1 DEF TopShared, Base
    <2> QED  BY <1>1, <2>1, <2>2 DEF Company, Joined, Done, Together
  <1>12. ASSUME NEW nb \in Nodes, Visit(nb)  PROVE Company'
    <2>1. /\ pc = "beam" /\ pc' = "beam" /\ nb \in todo
          /\ UNCHANGED <<levels, links, max_level, pushed, node, lc>>
      BY <1>12 DEF Visit, graph, walk
    <2>2. PICK r \in results : r # nb
      BY <1>1, <1>2, <2>1
    <2>3. \/ results' = results \/ results' = results \cup {nb}
          \/ \E f : results' = (results \cup {nb}) \ {f}
      BY <1>12 DEF Visit
    <2>4. results' # {}
      BY <2>2, <2>3
    <2>5. TopShared' = TopShared
      BY <2>1 DEF TopShared, Base
    <2> QED  BY <1>1, <2>1, <2>4, <2>5 DEF Company, Joined, Done, Together
  <1>13. CASE Connect
    <2>1. PICK chosen \in Selections(q, results, M) :
             links' = [links EXCEPT ![node][lc] = chosen] /\ todo' = chosen
      BY <1>13 DEF Connect
    <2>2. /\ pc = "beam" /\ pc' = "link" /\ node \in Nodes /\ node' = node /\ lc' = lc
          /\ UNCHANGED <<levels, max_level, pushed>> /\ TopShared' = TopShared
      BY <1>2, <1>13 DEF Connect, BeamDone, TopShared, Base
    <2>3. chosen \in SUBSET Nodes /\ chosen # {} /\ chosen \subseteq results
      <3>1. IsFiniteSet(results)
        BY <1>2, FS_Subset
      <3>2. chosen # {}
        BY <1>1, <2>2, <3>1, SelectionNotEmpty, HnswAssumption
      <3> QED  BY <1>2, <3>2 DEF Selections
    <2>4. \A a \in Nodes, l \in Layers :
             links'[a][l] = IF a = node /\ l = lc THEN chosen ELSE links[a][l]
      BY <1>2, <2>1, <2>2, <2>3, SetLinks
    <2>5. ASSUME NEW a \in Nodes, NEW l \in Layers, links[a][l] # {} PROVE links'[a][l] # {}
      BY <2>3, <2>4, <2>5
    <2>6. Together'
      <3> SUFFICES ASSUME NEW a \in 1..pushed, NEW b \in 1..pushed, NEW l \in Layers,
                          a # b, a # node, b # node, l <= levels[a], l <= levels[b]
                   PROVE  links'[a][l] # {}
        BY <2>2 DEF Together
      <3>1. a \in Nodes /\ links[a][l] # {}
        BY <1>1, <1>2 DEF Together
      <3> QED  BY <2>5, <3>1
    <2>7. Joined'
      <3> SUFFICES ASSUME NEW l \in Layers, l <= TopShared, l >= lc
                   PROVE  /\ links'[node][l] # {}
                          /\ \A b \in links'[node][l] :
                                links'[b][l] # {} \/ (l = lc /\ b \in chosen)
        BY <2>1, <2>2 DEF Joined, Done
      <3>1. CASE l = lc
        BY <2>2, <2>3, <2>4, <3>1
      <3>2. CASE l # lc
        <4>1. /\ links[node][l] # {} /\ links'[node][l] = links[node][l]
              /\ \A b \in links[node][l] : b \in Nodes /\ links[b][l] # {}
          BY <1>1, <1>2, <2>2, <2>4, <3>2 DEF Joined, Done
        <4> QED  BY <2>5, <4>1
      <3> QED  BY <3>1, <3>2
    <2> QED  BY <2>2, <2>6, <2>7 DEF Company
  <1>14. ASSUME NEW nb \in Nodes, LinkBack(nb)  PROVE Company'
    <2> DEFINE list == links[nb][lc] \cup {node}
    <2>1. PICK kept : /\ kept \in IF Cardinality(list) > MaxDegree(lc)
                                  THEN Selections(vectors[nb], list, MaxDegree(lc))
                                  ELSE {list}
                      /\ links' = [links EXCEPT ![nb][lc] = kept]
      BY <1>14 DEF LinkBack
    <2>2. /\ pc = "link" /\ pc' = "link" /\ node' = node /\ lc' = lc
          /\ nb \in todo /\ todo' = todo \ {nb}
          /\ UNCHANGED <<levels, max_level, pushed>> /\ TopShared' = TopShared
      BY <1>14 DEF LinkBack, walk, TopShared, Base
    <2>3. node \in Nodes /\ nb # node
      BY <1>1, <1>2, <2>2 DEF Walk
    <2>4. list \in SUBSET Nodes /\ IsFiniteSet(list) /\ list # {}
      BY <1>2, <2>3, FS_Subset
    <2>5. kept \in SUBSET Nodes /\ kept # {}
      <3>1. MaxDegree(lc) \in Nat /\ MaxDegree(lc) > 0
        BY HnswAssumption DEF MaxDegree
      <3> HIDE DEF list
      <3>2. CASE kept = list
        BY <2>4, <3>2
      <3>3. CASE kept \in Selections(vectors[nb], list, MaxDegree(lc))
        <4>1. kept # {}
          BY <2>4, <3>1, <3>3, SelectionNotEmpty
        <4>2. kept \in SUBSET list
          BY <3>3 DEF Selections
        <4> QED  BY <2>4, <4>1, <4>2
      <3> QED  BY <2>1, <3>2, <3>3
    <2>6. \A a \in Nodes, l \in Layers :
             links'[a][l] = IF a = nb /\ l = lc THEN kept ELSE links[a][l]
      BY <1>2, <2>1, <2>5, SetLinks
    <2>7. ASSUME NEW a \in Nodes, NEW l \in Layers, links[a][l] # {} PROVE links'[a][l] # {}
      BY <2>5, <2>6, <2>7
    <2>8. Together'
      <3> SUFFICES ASSUME NEW a \in 1..pushed, NEW b \in 1..pushed, NEW l \in Layers,
                          a # b, a # node, b # node, l <= levels[a], l <= levels[b]
                   PROVE  links'[a][l] # {}
        BY <2>2 DEF Together
      <3>1. a \in Nodes /\ links[a][l] # {}
        BY <1>1, <1>2 DEF Together
      <3> QED  BY <2>7, <3>1
    <2>9. Joined'
      <3> SUFFICES ASSUME NEW l \in Layers, l <= TopShared, l >= lc
                   PROVE  /\ links'[node][l] # {}
                          /\ \A b \in links'[node][l] :
                                links'[b][l] # {} \/ (l = lc /\ b \in todo')
        BY <2>2 DEF Joined, Done
      <3>1. /\ links[node][l] # {} /\ links'[node][l] = links[node][l]
            /\ \A b \in links[node][l] :
                  b \in Nodes /\ (links[b][l] # {} \/ (l = lc /\ b \in todo))
        BY <1>1, <1>2, <2>2, <2>3, <2>6 DEF Joined, Done
      <3>2. links'[nb][lc] # {}
        BY <1>2, <2>5, <2>6
      <3> QED  BY <2>2, <2>7, <3>1, <3>2
    <2> QED  BY <2>2, <2>8, <2>9 DEF Company
  <1>15. CASE NextLayer
    <2>1. /\ pc = "link" /\ todo = {} /\ pc' = "beam" /\ lc' = lc - 1 /\ results' # {}
          /\ UNCHANGED <<levels, links, max_level, pushed, node>> /\ TopShared' = TopShared
      BY <1>15 DEF NextLayer, StartBeam, graph, TopShared, Base
    <2>2. \A l \in Layers : Done(l)' => Done(l)
      BY <1>2, <2>1 DEF Done
    <2>3. Joined'
      BY <1>1, <2>1, <2>2 DEF Joined
    <2> QED  BY <1>1, <2>1, <2>3 DEF Company, Together
  <1>16. CASE Finish
    <2>1. /\ pc = "link" /\ todo = {} /\ lc = 0 /\ node \in Nodes /\ node # 0
          /\ node' = 0 /\ pc' = "build"
          /\ UNCHANGED <<levels, links, pushed>>
      BY <1>1, <1>2, <1>16 DEF Finish, Walk
    <2>2. \A x \in Nodes : levels[x] \in Nat
      BY <1>2
    <2>3. ASSUME NEW x \in 1..pushed, x # node, NEW l \in Layers, l <= levels[x], l <= levels[node]
          PROVE  /\ links[node][l] # {}
                 /\ \A b \in links[node][l] :
                       /\ links[b][l] # {} /\ b \in 1..pushed /\ b # node /\ l <= levels[b]
      <3>1. x \in Nodes /\ l \in Nat /\ levels[x] <= max_level
        BY <1>1, <1>2, <2>3 DEF EntryOnTop
      <3>2. max_level \in Int
        BY <1>1, HnswAssumption DEF TypeOK, Layers
      <3>3. Done(l)
        BY <2>1, <2>2, <2>3, <3>1, <3>2 DEF Done, TopShared, Base
      <3>4. links[node][l] # {} /\ \A b \in links[node][l] : links[b][l] # {}
        BY <1>1, <2>1, <3>3 DEF Joined
      <3>5. \A b \in links[node][l] : b \in Nodes /\ l <= levels[b] /\ b <= pushed /\ b # node
        BY <1>1, <1>2, <2>1 DEF LayersReached
      <3> QED  BY <1>2, <3>4, <3>5
    <2>4. Together'
      <3> SUFFICES ASSUME NEW a \in 1..pushed, NEW b \in 1..pushed, NEW l \in Layers,
                          a # b, l <= levels[a], l <= levels[b]
                   PROVE  links[a][l] # {}
        BY <2>1 DEF Together
      <3>1. CASE a = node
        BY <2>3, <3>1
      <3>2. CASE a # node /\ b # node
        BY <1>1, <3>2 DEF Together
      <3>3. CASE a # node /\ b = node
        <4>1. PICK c \in links[node][l] :
                 links[c][l] # {} /\ c \in 1..pushed /\ c # node /\ l <= levels[c]
          BY <2>3, <3>3
        <4>2. CASE c = a
          BY <4>1, <4>2
        <4>3. CASE c # a
          BY <1>1, <3>3, <4>1, <4>3 DEF Together
        <4> QED  BY <4>2, <4>3
      <3> QED  BY <3>1, <3>2, <3>3
    <2> QED  BY <2>1, <2>4 DEF Company, Joined
  <1>17. CASE Answer
    <2>1. node = 0 /\ node' = node /\ pc' = "ready" /\ UNCHANGED <<levels, links, pushed>>
      BY <1>17 DEF Answer, graph, walk
    <2> QED  BY <1>4, <2>1
  <1> QED
    BY <1>0, <1>5, <1>6, <1>7, <1>8, <1>9, <1>10, <1>11, <1>12, <1>13, <1>14, <1>15, <1>16,
       <1>17 DEF Next, Step

(* At no time does a search that has started hold nothing, or a linked     *)
(* layer have a lonely node.                                               *)
THEOREM Companies == Spec => []Company
  <1>1. Init => Company
    BY DEF Init, Company, Joined, Together
  <1>2. Struct /\ Beam /\ Company /\ [Next]_vars => Company'
    BY StepCompany
  <1> QED  BY Structure, Beams, <1>1, <1>2, PTL DEF Spec

(* A node that shares a layer with another one has a neighbour on it once  *)
(* its insertion is over: no cut of a list ever empties it, and the first  *)
(* node of a layer is found by the second.  (insert_node, search_layer)    *)
THEOREM NoNodeIsADeadEnd == Spec => []NoDeadEnds
  <1>1. Company => NoDeadEnds
    BY DEF Company, Together, NoDeadEnds
  <1> QED  BY Companies, <1>1, PTL

-----------------------------------------------------------------------------
(* A wide beam on an uncut graph.  While the lists of layer 0 have room    *)
(* for everybody its links go both ways and each node but the first has a  *)
(* neighbour that is older, so whatever a walk starts from, the nodes it   *)
(* can reach are all nodes; and a beam with room for everybody stops only  *)
(* when it has followed every link of what it saw.                         *)

Grounded ==
    Len(vectors) <= M0 + 1 =>
        \A a \in 2..pushed :
            (a # node \/ (pc = "link" /\ lc = 0)) => \E b \in links[a][0] : b < a

Explored ==
    (pc = "beam" /\ node = 0) =>
        /\ lc = 0 /\ visited # {}
        /\ Len(vectors) <= Ef =>
              \A c \in visited \ cands : links[c][0] \subseteq visited \cup todo

Exact ==
    /\ pc = "build" \/ node # 0 => k = 0
    /\ WideBeamIsExact

LEMMA LeastExists ==
  ASSUME NEW T \in SUBSET Nat, T # {}
  PROVE  \E x \in T : \A y \in T : x <= y
  <1> DEFINE Less == OpToRel(<, Nat)
  <1>1. \A x, y \in Nat : <<x, y>> \in Less <=> x < y
    BY DEF OpToRel
  <1>2. IsWellFoundedOn(Less, Nat)
    BY NatLessThanWellFounded, Zenon
  <1> HIDE DEF Less
  <1>3. PICK x \in T : \A y \in T : ~(<<y, x>> \in Less)
    BY <1>2, WFMin
  <1>4. ASSUME NEW y \in T PROVE x <= y
    <2>1. x \in Nat /\ y \in Nat /\ ~(<<y, x>> \in Less)
      BY <1>3
    <2>2. ~(y < x)
      BY <1>1, <2>1
    <2> QED  BY <2>1, <2>2
  <1> QED  BY <1>4

(* As many nodes as there are, are all of them. *)
LEMMA AllOfThem ==
  ASSUME vectors \in Seq(Vector), NEW S \in SUBSET Nodes, Cardinality(S) >= Len(vectors)
  PROVE  S = Nodes
  <1>1. Nodes = 1..Len(vectors) /\ Len(vectors) \in Nat /\ IsFiniteSet(Nodes)
    BY NodesFacts
  <1>2. Cardinality(Nodes) = Len(vectors)
    BY <1>1, FS_Interval
  <1>3. IsFiniteSet(S) /\ Cardinality(S) <= Cardinality(Nodes) /\ Cardinality(S) \in Nat
    BY <1>1, FS_Subset, FS_CardinalityType
  <1>4. Cardinality(Nodes) = Cardinality(S)
    BY <1>1, <1>2, <1>3
  <1> QED  BY <1>1, <1>4, FS_Subset

LEMMA ClosestExists ==
  ASSUME TypeOK, NEW S \in SUBSET Nodes, S # {}
  PROVE  \E c \in S : IsClosest(c, S)
  <1>1. Nodes = 1..Len(vectors) /\ q \in Vector /\ \A x \in Nodes : vectors[x] \in Vector
    BY NodesFacts DEF TypeOK
  <1>2. \A x \in S : x \in Nat /\ D(x) \in Nat
    BY <1>1, HnswAssumption DEF D
  <1> DEFINE Ds == {D(x) : x \in S}
  <1>3. PICK d \in Ds : \A e \in Ds : d <= e
    <2>1. Ds \in SUBSET Nat /\ Ds # {}
      BY <1>2
    <2> HIDE DEF Ds
    <2> QED  BY <2>1, LeastExists
  <1> DEFINE Tied == {x \in S : D(x) = d}
  <1>4. PICK c \in Tied : \A o \in Tied : c <= o
    <2>1. Tied \in SUBSET Nat /\ Tied # {}
      BY <1>2, <1>3
    <2> HIDE DEF Tied
    <2> QED  BY <2>1, LeastExists
  <1>5. ASSUME NEW o \in S  PROVE Before(c, o)
    <2>1. D(c) = d /\ d <= D(o) /\ D(c) \in Nat /\ D(o) \in Nat
      BY <1>2, <1>3, <1>4
    <2>2. CASE D(o) = d
      BY <1>4, <2>1, <2>2 DEF Before
    <2>3. CASE D(o) # d
      BY <2>1, <2>3 DEF Before
    <2> QED  BY <2>2, <2>3
  <1> QED  BY <1>4, <1>5 DEF IsClosest

(* On an uncut layer 0 every link goes both ways, but for those that are   *)
(* being returned.                                                         *)
LEMMA LinksReturned ==
  ASSUME Struct, Linked, Len(vectors) <= M0 + 1,
         NEW a \in Nodes, NEW b \in links[a][0]
  PROVE  a \in links[b][0] \/ (pc = "link" /\ a = node /\ lc = 0 /\ b \in todo)
  <1>1. /\ vectors \in Seq(Vector) /\ 0 \in Layers
        /\ links \in [Nodes -> [Layers -> SUBSET Nodes]]
    BY HnswAssumption DEF Struct, TypeOK, Layers
  <1>2. Nodes = 1..Len(vectors) /\ Len(vectors) \in Nat /\ IsFiniteSet(Nodes)
        /\ b \in Nodes /\ b # a /\ b \notin links[b][0]
    BY <1>1, NodesFacts DEF Struct, LayersReached
  <1> SUFFICES ASSUME Cardinality(links[b][0]) = M0  PROVE a \in links[b][0]
    BY <1>1 DEF Linked, CutListsAreFull
  <1> DEFINE others == links[b][0] \cup {b}
  <1>3. IsFiniteSet(links[b][0])
    BY <1>1, <1>2, FS_Subset
  <1>4. Cardinality(others) = M0 + 1
    BY <1>2, <1>3, FS_AddElement
  <1>5. others \in SUBSET Nodes
    BY <1>1, <1>2
  <1>6. others = Nodes
    <2> HIDE DEF others
    <2>1. Cardinality(others) >= Len(vectors)
      BY <1>2, <1>4, HnswAssumption
    <2> QED  BY <1>1, <1>5, <2>1, AllOfThem
  <1> QED  BY <1>2, <1>6

(* What is closed under the links of such a layer has all of the nodes.    *)
LEMMA AllReached ==
  ASSUME Struct, Linked, Grounded, node = 0, pushed = Len(vectors), Len(vectors) <= M0 + 1,
         NEW S \in SUBSET Nodes, S # {}, \A a \in S : links[a][0] \subseteq S
  PROVE  S = Nodes
  <1>1. /\ vectors \in Seq(Vector) /\ 0 \in Layers
        /\ links \in [Nodes -> [Layers -> SUBSET Nodes]]
    BY HnswAssumption DEF Struct, TypeOK, Layers
  <1>2. Nodes = 1..Len(vectors) /\ Len(vectors) \in Nat /\ Nodes \subseteq Nat
    BY <1>1, NodesFacts
  <1>3. \A a \in Nodes : a # 1 => \E b \in links[a][0] : b < a /\ b \in Nodes
    BY <1>1, <1>2 DEF Grounded
  <1>4. \A a \in Nodes : \A b \in links[a][0] : a \in links[b][0]
    <2>1. pc # "link"
      BY DEF Struct, Walk
    <2> QED  BY <2>1, LinksReturned
  <1>5. 1 \in S
    <2>1. PICK m \in S : \A o \in S : m <= o
      BY <1>2, LeastExists
    <2>2. CASE m # 1
      <3>1. PICK b \in links[m][0] : b < m /\ b \in Nodes
        BY <1>3, <2>2
      <3>2. b \in S /\ m <= b /\ m \in Nat /\ b \in Nat
        BY <1>2, <2>1, <3>1
      <3> QED  BY <3>1, <3>2
    <2> QED  BY <2>1, <2>2
  <1>6. Nodes \ S = {}
    <2> SUFFICES ASSUME Nodes \ S # {}  PROVE FALSE
      OBVIOUS
    <2>1. PICK a \in Nodes \ S : \A o \in Nodes \ S : a <= o
      <3>1. Nodes \ S \in SUBSET Nat
        BY <1>2
      <3> QED  BY <3>1, LeastExists
    <2>2. PICK b \in links[a][0] : b < a /\ b \in Nodes
      BY <1>3, <1>5, <2>1
    <2>3. a \in Nat /\ b \in Nat /\ b \in S
      BY <1>2, <2>1, <2>2
    <2>4. a \in links[b][0]
      BY <1>4, <2>1, <2>2
    <2> QED  BY <2>1, <2>3, <2>4
  <1> QED  BY <1>6

LEMMA StepGrounded == Struct /\ Linked /\ Company /\ Grounded /\ [Next]_vars => Grounded'
  <1>0. SUFFICES ASSUME Struct, Linked, Company, Grounded, [Next]_vars  PROVE Grounded'
    OBVIOUS
  <1>1. /\ TypeOK /\ LayersReached /\ EntryOnTop /\ Walk /\ Nodes' = Nodes /\ vectors' = vectors
        /\ pc = "beam" => results # {}
    BY <1>0, NodesStay DEF Struct, Company
  <1>2. /\ Nodes = 1..Len(vectors) /\ Len(vectors) \in Nat /\ IsFiniteSet(Nodes)
        /\ pushed \in 0..Len(vectors) /\ node \in Nodes \cup {0}
        /\ lc \in Layers /\ lc \in Nat /\ 0 \in Layers
        /\ links \in [Nodes -> [Layers -> SUBSET Nodes]]
        /\ results \subseteq visited /\ visited \subseteq Nodes /\ todo \subseteq Nodes
    <2>1. 0 \in Layers /\ Layers \subseteq Nat
      BY HnswAssumption DEF Layers
    <2> QED  BY <1>1, <2>1, NodesFacts DEF TypeOK
  <1>a. SUFFICES ASSUME Len(vectors) <= M0 + 1,
                        NEW a \in 2..pushed', a # node' \/ (pc' = "link" /\ lc' = 0)
                 PROVE  \E b \in links'[a][0] : b < a
    BY <1>1 DEF Grounded
  <1>b. a \in 2..pushed => (a # node \/ (pc = "link" /\ lc = 0) => \E b \in links[a][0] : b < a)
    BY <1>0, <1>a DEF Grounded
  <1>3. ASSUME NEW level \in Layers, InsertFirst(level)  PROVE FALSE
    <2>1. pushed' = 1
      BY <1>1, <1>2, <1>3 DEF InsertFirst, Push, EntryOnTop
    <2> QED  BY <2>1, <1>a
  <1>4. ASSUME NEW level \in Layers, Insert(level)  PROVE \E b \in links'[a][0] : b < a
    <2>1. /\ node = 0 /\ node' = pushed + 1 /\ pushed' = pushed + 1 /\ links' = links
          /\ pc' = "descend"
      BY <1>1, <1>4 DEF Insert, Push, Walk
    <2>2. a \in 2..pushed /\ a # node
      BY <1>2, <1>a, <2>1
    <2> QED  BY <1>b, <2>1, <2>2
  <1>5. CASE Connect
    <2>1. PICK chosen \in Selections(q, results, M) :
             links' = [links EXCEPT ![node][lc] = chosen] /\ todo' = chosen
      BY <1>5 DEF Connect
    <2>2. /\ pc = "beam" /\ pc' = "link" /\ node \in Nodes /\ node' = node /\ lc' = lc
          /\ pushed' = pushed /\ node = pushed
      BY <1>1, <1>2, <1>5 DEF Connect, BeamDone, Walk
    <2>3. chosen \in SUBSET Nodes /\ chosen # {} /\ chosen \subseteq results
      <3>1. IsFiniteSet(results)
        BY <1>2, FS_Subset
      <3>2. chosen # {}
        BY <1>1, <2>2, <3>1, SelectionNotEmpty, HnswAssumption
      <3> QED  BY <1>2, <3>2 DEF Selections
    <2>4. links'[a][0] = IF a = node /\ 0 = lc THEN chosen ELSE links[a][0]
      <3>1. a \in Nodes
        BY <1>2, <1>a, <2>2
      <3> QED  BY <1>2, <2>1, <2>2, <2>3, <3>1, SetLinks
    <2>5. CASE a = node /\ lc = 0
      <3>1. PICK b \in chosen : b \in visited
        BY <1>2, <2>3
      <3>2. b <= pushed /\ b # node /\ b \in Nat /\ node \in Nat
        BY <1>1, <1>2, <2>2, <3>1 DEF Walk
      <3> QED  BY <2>2, <2>4, <2>5, <3>1, <3>2
    <2>6. CASE ~(a = node /\ lc = 0)
      BY <1>a, <1>b, <2>2, <2>4, <2>6
    <2> QED  BY <2>5, <2>6
  <1>6. ASSUME NEW nb \in Nodes, LinkBack(nb)  PROVE \E b \in links'[a][0] : b < a
    <2> DEFINE list == links[nb][lc] \cup {node}
    <2>1. PICK kept : /\ kept \in IF Cardinality(list) > MaxDegree(lc)
                                  THEN Selections(vectors[nb], list, MaxDegree(lc))
                                  ELSE {list}
                      /\ links' = [links EXCEPT ![nb][lc] = kept]
      BY <1>6 DEF LinkBack
    <2>2. /\ pc = "link" /\ pc' = "link" /\ node' = node /\ lc' = lc /\ pushed' = pushed
          /\ nb \in todo
      BY <1>6 DEF LinkBack, walk
    <2>3. node \in Nodes /\ nb # node /\ a \in Nodes /\ a \in 2..pushed
      BY <1>1, <1>2, <1>a, <2>2 DEF Walk
    <2>4. list \in SUBSET Nodes /\ IsFiniteSet(list) /\ nb \notin list
      BY <1>1, <1>2, <2>3, FS_Subset DEF LayersReached
    <2>5. kept \in SUBSET Nodes
      BY <2>1, <2>4 DEF Selections
    <2>6. links'[a][0] = IF a = nb /\ 0 = lc THEN kept ELSE links[a][0]
      BY <1>2, <2>1, <2>3, <2>5, SetLinks
    <2>7. lc = 0 => kept = list
      <3> SUFFICES ASSUME lc = 0  PROVE kept = list
        OBVIOUS
      <3>1. Cardinality(list \cup {nb}) = Cardinality(list) + 1 /\ IsFiniteSet(list \cup {nb})
        BY <2>4, FS_AddElement
      <3>2. Cardinality(list \cup {nb}) <= Cardinality(Nodes)
        BY <1>2, <2>4, FS_Subset
      <3>3. Cardinality(Nodes) = Len(vectors) /\ Cardinality(list) \in Nat
        BY <1>2, <2>4, FS_Interval, FS_CardinalityType
      <3>4. ~(Cardinality(list) > MaxDegree(lc))
        <4> HIDE DEF list
        <4> QED  BY <1>a, <1>2, <3>1, <3>2, <3>3, HnswAssumption DEF MaxDegree
      <3> QED  BY <2>1, <3>4
    <2>8. PICK b \in links[a][0] : b < a
      BY <1>a, <1>b, <2>2, <2>3
    <2> QED  BY <2>6, <2>7, <2>8
  <1>7. CASE NextLayer
    <2>1. pc' = "beam" /\ lc > 0 /\ UNCHANGED <<links, pushed, node>>
      BY <1>7 DEF NextLayer, StartBeam, graph
    <2> QED  BY <1>a, <1>b, <2>1
  <1>8. CASE Finish
    <2>1. pc = "link" /\ lc = 0 /\ UNCHANGED <<links, pushed>>
      BY <1>8 DEF Finish
    <2> QED  BY <1>a, <1>b, <2>1
  <1>9. ASSUME UNCHANGED <<links, pushed, node>>, pc' # "link" \/ UNCHANGED <<pc, lc>>
        PROVE  \E b \in links'[a][0] : b < a
    BY <1>a, <1>b, <1>9
  <1>10. ASSUME NEW v \in Vector, NEW m \in 1..MaxK, QueryAll(v, m) \/ Query(v, m)
         PROVE  \E b \in links'[a][0] : b < a
    <2>1. node = 0 /\ UNCHANGED <<links, pushed, node>> /\ pc' # "link"
      BY <1>1, <1>10 DEF QueryAll, Query, Walk, graph
    <2> QED  BY <1>9, <2>1
  <1> QED
    BY <1>0, <1>3, <1>4, <1>5, <1>6, <1>7, <1>8, <1>9, <1>10
    DEF Next, Step, Built, Hop, Descend, BeginBeam, StartBeam, Pop, Visit, Answer, vars,
        graph, walk

(* A beam with room for all nodes admits every node it comes to. *)
LEMMA WideBeamAdmits ==
  ASSUME Struct, Beam, Len(vectors) <= Ef, NEW nb \in todo
  PROVE  Admitted(nb)
  <1>1. /\ vectors \in Seq(Vector) /\ results \in SUBSET Nodes /\ nb \in Nodes
        /\ nb \notin results /\ Ef \in Nat
    BY EfType DEF Struct, TypeOK, Beam
  <1>2. IsFiniteSet(Nodes) /\ Len(vectors) \in Nat
    BY <1>1, NodesFacts
  <1>3. Cardinality(results) \in Nat
    BY <1>1, <1>2, FS_Subset, FS_CardinalityType
  <1>4. ~(Cardinality(results) >= Len(vectors))
    BY <1>1, AllOfThem
  <1> QED  BY <1>1, <1>2, <1>3, <1>4 DEF Admitted

LEMMA StepExplored == Struct /\ Beam /\ Explored /\ [Next]_vars => Explored'
  <1>0. SUFFICES ASSUME Struct, Beam, Explored, [Next]_vars  PROVE Explored'
    OBVIOUS
  <1>1. /\ TypeOK /\ EntryOnTop /\ Walk /\ vectors' = vectors /\ Nodes' = Nodes
    BY <1>0, NodesStay DEF Struct
  <1>2. CASE BeginBeam
    <2>1. /\ pc = "descend" /\ pc' = "beam" /\ lc' = TopShared /\ visited' = {ep} /\ cands' = {ep}
          /\ node' = node
      BY <1>2 DEF BeginBeam, StartBeam
    <2>2. node = 0 => TopShared = 0
      <3>1. entry \in Nodes /\ levels[entry] = max_level
        BY <1>1, <2>1 DEF TypeOK, Walk, EntryOnTop
      <3>2. max_level \in Nat
        BY <1>1, <3>1, HnswAssumption DEF TypeOK, Layers
      <3> QED  BY <3>2 DEF TopShared, Base
    <2> QED  BY <2>1, <2>2 DEF Explored
  <1>3. ASSUME NEW c \in cands, Pop(c)  PROVE Explored'
    <2>1. /\ pc = "beam" /\ todo = {} /\ cands' = cands \ {c} /\ todo' = links[c][lc] \ visited
          /\ visited' = visited /\ UNCHANGED <<links, node, k, lc>>
      BY <1>3 DEF Pop, graph, walk
    <2>2. Ef' = Ef
      BY <2>1 DEF Ef
    <2> SUFFICES ASSUME node = 0
                 PROVE  /\ lc = 0 /\ visited # {}
                        /\ Len(vectors) <= Ef =>
                             \A x \in visited' \ cands' : links[x][0] \subseteq visited' \cup todo'
      BY <1>1, <2>1, <2>2 DEF Explored
    <2>3. /\ lc = 0 /\ visited # {}
          /\ Len(vectors) <= Ef => \A x \in visited \ cands : links[x][0] \subseteq visited \cup todo
      BY <1>0, <2>1 DEF Explored
    <2> QED  BY <2>1, <2>3
  <1>4. ASSUME NEW nb \in Nodes, Visit(nb)  PROVE Explored'
    <2>1. /\ pc = "beam" /\ nb \in todo /\ todo' = todo \ {nb} /\ visited' = visited \cup {nb}
          /\ Admitted(nb) => cands' = cands \cup {nb}
          /\ UNCHANGED <<links, node, k, lc>>
      BY <1>4 DEF Visit, graph, walk
    <2>2. Ef' = Ef
      BY <2>1 DEF Ef
    <2> SUFFICES ASSUME node = 0
                 PROVE  /\ lc = 0 /\ visited' # {}
                        /\ Len(vectors) <= Ef =>
                             \A x \in visited' \ cands' : links[x][0] \subseteq visited' \cup todo'
      BY <1>1, <2>1, <2>2 DEF Explored
    <2>3. /\ lc = 0 /\ visited # {}
          /\ Len(vectors) <= Ef => \A x \in visited \ cands : links[x][0] \subseteq visited \cup todo
      BY <1>0, <2>1 DEF Explored
    <2>4. Len(vectors) <= Ef => cands' = cands \cup {nb}
      BY <1>0, <2>1, WideBeamAdmits
    <2> QED  BY <2>1, <2>3, <2>4
  <1>5. ASSUME pc' # "beam"  PROVE Explored'
    BY <1>5 DEF Explored
  <1>6. CASE NextLayer
    <2>1. node' # 0
      BY <1>1, <1>6 DEF NextLayer, Walk
    <2> QED  BY <2>1 DEF Explored
  <1>7. CASE UNCHANGED vars
    <2>1. UNCHANGED <<vectors, links, pc, node, k, lc, visited, cands, todo>>
      BY <1>7 DEF vars, graph, walk, beam
    <2>2. Ef' = Ef
      BY <2>1 DEF Ef
    <2> QED  BY <1>0, <2>1, <2>2 DEF Explored
  <1>8. ASSUME Built \/ Descend \/ Connect \/ Finish \/ Answer
               \/ (\E level \in Layers : InsertFirst(level) \/ Insert(level))
               \/ (\E v \in Vector, m \in 1..MaxK : QueryAll(v, m) \/ Query(v, m))
               \/ (\E nb \in Nodes : Hop(nb) \/ LinkBack(nb))
        PROVE  pc' # "beam"
    BY <1>8 DEF Built, Descend, Connect, Finish, Answer, InsertFirst, Insert, Push, QueryAll,
                Query, Hop, LinkBack
  <1> QED
    BY <1>0, <1>2, <1>3, <1>4, <1>5, <1>6, <1>7, <1>8 DEF Next, Step

(* Such a beam has seen, and holds, all nodes when it is done. *)
LEMMA WideBeamHasAll ==
  ASSUME Struct, Linked, Beam, Grounded, Explored,
         BeamDone, node = 0, Len(vectors) <= M0 + 1, Len(vectors) <= Ef
  PROVE  results = Nodes
  <1>1. /\ TypeOK /\ vectors \in Seq(Vector) /\ pc = "beam" /\ todo = {}
        /\ results \in SUBSET Nodes /\ visited \in SUBSET Nodes /\ cands \in SUBSET Nodes
        /\ results \subseteq visited /\ pushed = Len(vectors)
    BY DEF Struct, TypeOK, BeamDone, Walk
  <1>2. Len(vectors) \in Nat /\ Ef \in Nat /\ Cardinality(results) \in Nat
    <2>1. IsFiniteSet(Nodes) /\ Len(vectors) \in Nat
      BY <1>1, NodesFacts
    <2> QED  BY <1>1, <2>1, EfType, FS_Subset, FS_CardinalityType
  <1>3. CASE Cardinality(results) >= Ef
    <2>1. Cardinality(results) >= Len(vectors)
      BY <1>2, <1>3
    <2> QED  BY <1>1, <2>1, AllOfThem
  <1>4. CASE ~(Cardinality(results) >= Ef)
    <2>1. results = visited
      BY <1>1, <1>4 DEF Beam, BeamKeepsClosest
    <2>2. cands = {}
      <3>1. \A c \in cands : ~IsClosest(c, cands)
        BY <1>4 DEF BeamDone, Ends
      <3> QED  BY <1>1, <3>1, ClosestExists
    <2>3. visited # {} /\ \A c \in visited : links[c][0] \subseteq visited
      BY <1>1, <2>2 DEF Explored
    <2>4. visited = Nodes
      BY <1>1, <2>3, AllReached
    <2> QED  BY <2>1, <2>4
  <1> QED  BY <1>3, <1>4

LEMMA StepExact ==
  Struct /\ Linked /\ Beam /\ Grounded /\ Explored /\ Exact /\ [Next]_vars => Exact'
  <1>0. SUFFICES ASSUME Struct, Linked, Beam, Grounded, Explored, Exact, [Next]_vars
                 PROVE  Exact'
    OBVIOUS
  <1>1. /\ TypeOK /\ Walk /\ vectors' = vectors /\ Nodes' = Nodes
        /\ pc = "build" \/ node # 0 => k = 0
    BY <1>0, NodesStay DEF Struct, Exact
  <1>2. \A v, S, m : TopHits(v, S, m)' = TopHits(v, S, m)
    BY <1>1 DEF TopHits
  <1>3. ASSUME (k' = k /\ node # 0) \/ k' = 0, pc' # "ready"  PROVE Exact'
    BY <1>1, <1>3 DEF Exact, WideBeamIsExact
  <1>4. ASSUME node' = 0, pc' \in {"descend", "beam"}  PROVE Exact'
    BY <1>4 DEF Exact, WideBeamIsExact
  <1>5. ASSUME NEW v \in Vector, NEW m \in 1..MaxK, QueryAll(v, m)  PROVE Exact'
    <2>1. /\ q' = v /\ k' = m /\ answer' \in TopHits(v, Nodes, m) /\ pc' = "ready"
          /\ node' = 0
      BY <1>1, <1>5 DEF QueryAll, Walk
    <2>2. answer' \in TopHits(q, Nodes, k)'
      BY <1>1, <1>2, <2>1
    <2> QED  BY <2>1, <2>2 DEF Exact, WideBeamIsExact
  <1>6. CASE Answer
    <2>1. /\ BeamDone /\ node = 0 /\ answer' \in TopHits(q, results, k) /\ pc' = "ready"
          /\ UNCHANGED <<q, k, node>>
      BY <1>6 DEF Answer, walk
    <2>2. Ef' = Ef
      BY <2>1 DEF Ef
    <2>3. (Len(vectors) <= M0 + 1 /\ Len(vectors) <= Ef) => answer' \in TopHits(q, Nodes, k)
      BY <1>0, <2>1, WideBeamHasAll
    <2>4. (Len(vectors) <= M0 + 1 /\ Len(vectors) <= Ef)' => answer' \in TopHits(q, Nodes, k)'
      BY <1>1, <1>2, <2>1, <2>2, <2>3
    <2> QED  BY <2>1, <2>4 DEF Exact, WideBeamIsExact
  <1>7. CASE Built
    BY <1>1, <1>7 DEF Built, Exact, WideBeamIsExact, walk
  <1>8. CASE UNCHANGED vars
    <2>1. UNCHANGED <<vectors, pc, node, q, k, answer>>
      BY <1>8 DEF vars, walk
    <2>2. Ef' = Ef
      BY <2>1 DEF Ef
    <2> QED  BY <1>0, <1>1, <1>2, <2>1, <2>2 DEF Exact, WideBeamIsExact
  <1>9. ASSUME NEW level \in Layers, InsertFirst(level) \/ Insert(level)  PROVE Exact'
    <2>1. k' = 0 /\ pc' # "ready"
      BY <1>1, <1>9 DEF InsertFirst, Insert, Push, walk
    <2> QED  BY <1>3, <2>1
  <1>10. ASSUME NEW v \in Vector, NEW m \in 1..MaxK, Query(v, m)  PROVE Exact'
    BY <1>4, <1>10 DEF Query
  <1>11. ASSUME Connect \/ NextLayer \/ Finish \/ \E nb \in Nodes : LinkBack(nb)  PROVE Exact'
    <2>1. node # 0 /\ k' = k /\ pc' # "ready"
      BY <1>1, <1>11 DEF Connect, NextLayer, StartBeam, Finish, LinkBack, walk, Walk
    <2> QED  BY <1>3, <2>1
  <1>12. ASSUME \/ Descend \/ BeginBeam \/ \E c \in cands : Pop(c)
                \/ \E nb \in Nodes : Hop(nb) \/ Visit(nb)
         PROVE  Exact'
    <2>1. node' = node /\ k' = k /\ pc' \in {"descend", "beam"}
      BY <1>12 DEF Descend, BeginBeam, StartBeam, Pop, Hop, Visit, walk
    <2> QED  BY <1>3, <1>4, <2>1
  <1> QED
    BY <1>0, <1>5, <1>6, <1>7, <1>8, <1>9, <1>10, <1>11, <1>12 DEF Next, Step

(* The index is approximate, but for a small set and a wide beam it is     *)
(* not: while no list of layer 0 has to be cut and the beam has room for   *)
(* every vector, a query gives hits that the exact scan could give, from   *)
(* whatever entry and whatever the order of insertion.  (search)           *)
THEOREM WideBeamFindsAll == Spec => []WideBeamIsExact
  <1>1. Init => Grounded /\ Explored /\ Exact
    BY DEF Init, Grounded, Explored, Exact, WideBeamIsExact
  <1>2. Struct /\ Linked /\ Company /\ Grounded /\ [Next]_vars => Grounded'
    BY StepGrounded
  <1>3. Struct /\ Beam /\ Explored /\ [Next]_vars => Explored'
    BY StepExplored
  <1>4. Struct /\ Linked /\ Beam /\ Grounded /\ Explored /\ Exact /\ [Next]_vars => Exact'
    BY StepExact
  <1>5. Exact => WideBeamIsExact
    BY DEF Exact
  <1> QED
    BY Structure, Links, Beams, Companies, <1>1, <1>2, <1>3, <1>4, <1>5, PTL DEF Spec
=============================================================================
