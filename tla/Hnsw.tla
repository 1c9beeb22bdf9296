-------------------------------- MODULE Hnsw --------------------------------
(***************************************************************************)
(* The graph index of index/hnsw.rs: `build` inserts the vectors of a      *)
(* segment one after the other, `search` answers queries on the result.    *)
(* Both walk the layers of the graph, so their loops share their steps:    *)
(* descend greedily, then a beam search on a layer; an insertion goes on   *)
(* to link the node, on every layer down to 0.                             *)
(*                                                                         *)
(* Vectors are values with a distance; the level of a node is any level (a *)
(* pseudo-random draw).  The neighbours of a node on a layer are a set:    *)
(* where the order of the Rust vector decides between equal distances, or  *)
(* which neighbour is looked at first, the model takes any.                *)
(***************************************************************************)
EXTENDS Integers, Sequences, FiniteSets

CONSTANTS
    Vector, Dist(_, _),     \* vectors, and the distance of the graph's space
    Scorable(_),            \* cosine does not score a vector without a direction
    M, M0,                  \* out-degrees, above layer 0 and on it
    EfConstruction, EfSearch,   \* widths of the beam: of an insertion, least of a query
    SmallSet,               \* up to this many vectors a query scans them all
    MaxNodes, MaxLevel, MaxK    \* bounds: vectors in the segment, level, k

ASSUME HnswAssumption ==
    /\ Vector # {}
    /\ \A a, b \in Vector : Dist(a, b) \in Nat
    /\ M \in Nat \ {0} /\ M0 \in Nat /\ M <= M0
    /\ EfConstruction \in Nat /\ EfSearch \in Nat /\ SmallSet \in Nat
    /\ MaxNodes \in Nat /\ MaxLevel \in Nat /\ MaxK \in Nat

VARIABLES
    vectors,    \* the input of build, in its order
    levels,     \* the top layer of each node
    links,      \* node, layer: the neighbours
    entry,      \* where a search starts; 0 in an empty graph
    max_level,  \* the highest layer of the graph
    pushed,     \* how many nodes were inserted (the last one perhaps partly)
    pc,         \* what comes next
    node,       \* the node being inserted; 0 in a query
    q, k,       \* what is searched for, and how many hits (0: an insertion)
    lc, ep,     \* the current layer, and the node the walk has reached
    visited, cands, results,    \* the beam search of a layer
    todo,       \* neighbours still to visit, or to link back
    answer      \* the hits of the last query

graph == <<levels, links, entry, max_level, pushed>>
beam == <<visited, cands, results>>
walk == <<node, q, k, lc, ep>>
vars == <<vectors, graph, pc, walk, beam, todo, answer>>

Nodes == DOMAIN vectors
Layers == 0..MaxLevel

-----------------------------------------------------------------------------
(* Distances *)

D(a) == Dist(q, vectors[a])
CloserOrTied(a, b) == D(a) <= D(b) /\ a # b     \* mutant: a hop to an equally close node
Closer(a, b) == D(a) < D(b)

(* The order of the heaps: distance, then node. *)
Before(a, b) == D(a) < D(b) \/ (D(a) = D(b) /\ a <= b)
IsClosest(c, S) == c \in S /\ \A o \in S : Before(c, o)
IsFarthest(f, S) == f \in S /\ \A o \in S : Before(o, f)

(* Sorted by score and truncated to m: the possible answers. *)
TopHits(v, S, m) ==
    LET scored == {a \in S : Scorable(vectors[a])} IN
    {hits \in SUBSET scored :
        /\ Cardinality(hits) = (IF m < Cardinality(scored) THEN m ELSE Cardinality(scored))
        /\ \A h \in hits, o \in scored \ hits :
              Dist(v, vectors[h]) <= Dist(v, vectors[o])}

-----------------------------------------------------------------------------
(* select_heuristic: of the candidates C, by their distance to v, keep one *)
(* that is closer to v than to every one kept before it, at most m; then   *)
(* fill up with the closest of the others.                                 *)

Rankings(v, C) ==
    {r \in [C -> 1..Cardinality(C)] :
        \A a, b \in C : a # b =>
            r[a] # r[b] /\ (Dist(v, vectors[a]) < Dist(v, vectors[b]) => r[a] < r[b])}

IsKept(v, C, m, r, K) ==
    \A c \in C :
        LET before == {s \in K : r[s] < r[c]} IN
        c \in K <=> /\ Cardinality(before) < m
                    /\ \A s \in before : Dist(v, vectors[c]) < Dist(vectors[s], vectors[c])

(* mutant: without the refill *)
SelectionsKeptOnly(v, C, m) ==
    {K \in SUBSET C : Cardinality(K) <= m /\ \E r \in Rankings(v, C) : IsKept(v, C, m, r, K)}

Selections(v, C, m) ==
    {S \in SUBSET C :
        /\ Cardinality(S) = (IF m < Cardinality(C) THEN m ELSE Cardinality(C))
        /\ \E r \in Rankings(v, C), K \in SUBSET S :
              /\ IsKept(v, C, m, r, K)
              /\ \A a \in S \ K, b \in C \ S : r[a] < r[b]}

MaxDegreeM0(l) == M0    \* mutant: one bound for all layers
MaxDegree(l) == IF l = 0 THEN M0 ELSE M

-----------------------------------------------------------------------------
(* Starting an insertion or a query, and the greedy descent *)

Init ==
    /\ vectors \in UNION {[1..n -> Vector] : n \in 0..MaxNodes}
    /\ levels = [x \in Nodes |-> 0]
    /\ links = [x \in Nodes |-> [l \in Layers |-> {}]]
    /\ entry = 0 /\ max_level = -1 /\ pushed = 0
    /\ pc = "build" /\ node = 0 /\ q = (CHOOSE v \in Vector : TRUE) /\ k = 0 /\ lc = 0 /\ ep = 0
    /\ visited = {} /\ cands = {} /\ results = {} /\ todo = {} /\ answer = {}

Push(level) ==
    /\ pc = "build" /\ pushed < Len(vectors)
    /\ pushed' = pushed + 1
    /\ levels' = [levels EXCEPT ![pushed + 1] = level]

(* insert_node into an empty graph. *)
InsertFirst(level) ==
    /\ Push(level)
    /\ entry = 0
    /\ entry' = pushed + 1 /\ max_level' = level
    /\ UNCHANGED <<vectors, links, pc, walk, beam, todo, answer>>

Insert(level) ==
    /\ Push(level)
    /\ entry # 0
    /\ node' = pushed + 1 /\ q' = vectors[pushed + 1] /\ k' = 0
    /\ ep' = entry /\ lc' = max_level /\ pc' = "descend"
    /\ UNCHANGED <<vectors, links, entry, max_level, beam, todo, answer>>

Built ==
    /\ pc = "build" /\ pushed = Len(vectors)
    /\ pc' = "ready"
    /\ UNCHANGED <<vectors, graph, walk, beam, todo, answer>>

(* search of a small set, or of no more vectors than hits: the exact scan. *)
QueryAll(v, m) ==
    /\ pc = "ready" /\ Scorable(v)
    /\ m >= Len(vectors) \/ Len(vectors) <= SmallSet
    /\ q' = v /\ k' = m
    /\ answer' \in TopHits(v, Nodes, m)
    /\ UNCHANGED <<vectors, graph, pc, node, lc, ep, beam, todo>>

Query(v, m) ==
    /\ pc = "ready" /\ Scorable(v)
    /\ m < Len(vectors) /\ Len(vectors) > SmallSet
    /\ node' = 0 /\ q' = v /\ k' = m
    /\ ep' = entry /\ lc' = max_level /\ pc' = "descend"
    /\ answer' = {}
    /\ UNCHANGED <<vectors, graph, beam, todo>>

(* The layer where the greedy descent ends. *)
Base == IF node = 0 THEN 0 ELSE levels[node]

(* greedy_closest: to the closest neighbour, while that is closer. *)
Hop(nb) ==
    /\ pc = "descend" /\ lc > Base
    /\ nb \in links[ep][lc] /\ Closer(nb, ep)
    /\ \A o \in links[ep][lc] : D(nb) <= D(o)
    /\ ep' = nb
    /\ UNCHANGED <<vectors, graph, pc, node, q, k, lc, beam, todo, answer>>

Descend ==
    /\ pc = "descend" /\ lc > Base
    /\ \A nb \in links[ep][lc] : ~Closer(nb, ep)
    /\ lc' = lc - 1
    /\ UNCHANGED <<vectors, graph, pc, node, q, k, ep, beam, todo, answer>>

-----------------------------------------------------------------------------
(* The beam search of a layer (search_layer) *)

Ef == IF node # 0 THEN EfConstruction ELSE IF 4 * k > EfSearch THEN 4 * k ELSE EfSearch

TopSharedLevel == Base      \* mutant: starts above the layers of the graph
TopSharedBelow ==           \* mutant: leaves out the highest layer of the graph
    IF Base < max_level THEN Base ELSE IF max_level = 0 THEN 0 ELSE max_level - 1
(* The highest layer that the node and the graph have in common. *)
TopShared == IF Base < max_level THEN Base ELSE max_level

StartBeam(e, l) ==
    /\ pc' = "beam" /\ ep' = e /\ lc' = l
    /\ visited' = {e} /\ cands' = {e} /\ results' = {e} /\ todo' = {}

BeginBeam ==
    /\ pc = "descend" /\ lc <= Base
    /\ StartBeam(ep, TopShared)
    /\ UNCHANGED <<vectors, graph, node, q, k, answer>>

(* Nothing closer than the results can come after c. *)
Ends(c) == Cardinality(results) >= Ef /\ \A r \in results : D(r) < D(c)

Pop(c) ==
    /\ pc = "beam" /\ todo = {}
    /\ IsClosest(c, cands) /\ ~Ends(c)
    /\ cands' = cands \ {c}
    /\ todo' = links[c][lc] \ visited
    /\ UNCHANGED <<vectors, graph, pc, walk, visited, results, answer>>

AdmittedIfBetter(nb) == \E r \in results : Closer(nb, r)    \* mutant: also while there is room
Admitted(nb) == Cardinality(results) < Ef \/ \E r \in results : Closer(nb, r)

Visit(nb) ==
    /\ pc = "beam" /\ nb \in todo
    /\ todo' = todo \ {nb}
    /\ visited' = visited \cup {nb}
    /\ IF Admitted(nb)
       THEN /\ cands' = cands \cup {nb}
            /\ LET more == results \cup {nb} IN
               IF Cardinality(more) > Ef
               THEN \E f \in more : IsFarthest(f, more) /\ results' = more \ {f}
               ELSE results' = more
       ELSE UNCHANGED <<cands, results>>
    /\ UNCHANGED <<vectors, graph, pc, walk, answer>>

BeamDone == pc = "beam" /\ todo = {} /\ \A c \in cands : IsClosest(c, cands) => Ends(c)

EndBeam == visited' = {} /\ cands' = {} /\ results' = {}

-----------------------------------------------------------------------------
(* Linking a node on a layer, and the end of an insertion *)

Connect ==
    /\ BeamDone /\ node # 0
    /\ \E chosen \in Selections(q, results, M) :
          links' = [links EXCEPT ![node][lc] = chosen] /\ todo' = chosen
    /\ \E c \in results : IsClosest(c, results) /\ ep' = c
    /\ pc' = "link" /\ EndBeam
    /\ UNCHANGED <<vectors, levels, entry, max_level, pushed, node, q, k, lc, answer>>

(* The neighbour links back, and chooses again if that is too many. *)
LinkBack(nb) ==
    /\ pc = "link" /\ nb \in todo
    /\ todo' = todo \ {nb}
    /\ LET list == links[nb][lc] \cup {node} IN
       \E kept \in IF Cardinality(list) > MaxDegree(lc)
                   THEN Selections(vectors[nb], list, MaxDegree(lc)) ELSE {list} :
          links' = [links EXCEPT ![nb][lc] = kept]
    /\ UNCHANGED <<vectors, levels, entry, max_level, pushed, pc, walk, beam, answer>>

NextLayer ==
    /\ pc = "link" /\ todo = {} /\ lc > 0
    /\ StartBeam(ep, lc - 1)
    /\ UNCHANGED <<vectors, graph, node, q, k, answer>>

RaisesAlways == TRUE    \* mutant: the newest node is the entry
Raises == levels[node] > max_level

Finish ==
    /\ pc = "link" /\ todo = {} /\ lc = 0
    /\ IF Raises THEN entry' = node /\ max_level' = levels[node]
       ELSE UNCHANGED <<entry, max_level>>
    /\ pc' = "build" /\ node' = 0
    /\ UNCHANGED <<vectors, levels, links, pushed, q, k, lc, ep, beam, todo, answer>>

Answer ==
    /\ BeamDone /\ node = 0
    /\ answer' \in TopHits(q, results, k)
    /\ pc' = "ready" /\ EndBeam
    /\ UNCHANGED <<vectors, graph, walk, todo>>

(* The steps inside a call; the others begin one. *)
Step ==
    \/ \E nb \in Nodes : Hop(nb) \/ Visit(nb) \/ LinkBack(nb)
    \/ Descend \/ BeginBeam \/ Connect \/ NextLayer \/ Finish \/ Answer
    \/ \E c \in cands : Pop(c)

Next ==
    \/ \E level \in Layers : InsertFirst(level) \/ Insert(level)
    \/ Built
    \/ \E v \in Vector, m \in 1..MaxK : QueryAll(v, m) \/ Query(v, m)
    \/ Step

Spec == Init /\ [][Next]_vars

(* A call runs to its end: it is a loop of the thread that made it. *)
FairSpec == Spec /\ WF_vars(Step)

-----------------------------------------------------------------------------
(* Properties *)

TypeOK ==
    /\ vectors \in Seq(Vector) /\ Len(vectors) <= MaxNodes
    /\ levels \in [Nodes -> Layers]
    /\ links \in [Nodes -> [Layers -> SUBSET Nodes]]
    /\ entry \in Nodes \cup {0} /\ max_level \in Layers \cup {-1}
    /\ pushed \in 0..Len(vectors)
    /\ pc \in {"build", "descend", "beam", "link", "ready"}
    /\ node \in Nodes \cup {0} /\ q \in Vector /\ k \in 0..MaxK
    /\ lc \in Layers /\ ep \in Nodes \cup {0}
    /\ visited \subseteq Nodes /\ cands \subseteq visited /\ results \subseteq visited
    /\ todo \subseteq Nodes /\ answer \subseteq Nodes

(* Every layer that the walk looks at is one the node has, and a link on a *)
(* layer leads to a node that reaches it: indexing links[node][layer] does *)
(* not panic.  (hnsw.rs:284, 343)                                          *)
LayersReached ==
    /\ \A a \in Nodes, l \in Layers : \A b \in links[a][l] :
          l <= levels[a] /\ l <= levels[b] /\ a <= pushed /\ b <= pushed /\ a # b
    /\ pc = "descend" => entry # 0 /\ lc <= levels[ep]
    /\ pc = "beam" => \A c \in visited : lc <= levels[c]

(* The entry is a node of the top layer, above which there is none, but    *)
(* for a node that is still being inserted.  (hnsw.rs:272)                 *)
EntryOnTop ==
    /\ entry = 0 <=> pushed = 0
    /\ entry # 0 => levels[entry] = max_level
    /\ \A x \in 1..pushed : x # node => levels[x] <= max_level

(* Out-degrees stay within their bounds, m above layer 0 and m0 on it,     *)
(* whatever the order in which nodes link back.  (hnsw.rs:257)             *)
DegreesBounded ==
    \A a \in Nodes, l \in Layers : Cardinality(links[a][l]) <= IF l = 0 THEN M0 ELSE M

(* A link that is not returned was cut, and the list it was cut from is    *)
(* full: a node gives up a neighbour for nothing less.  (hnsw.rs:399)      *)
CutListsAreFull ==
    \A a \in Nodes, l \in Layers : \A b \in links[a][l] :
        \/ a \in links[b][l]
        \/ pc = "link" /\ a = node /\ l = lc /\ b \in todo
        \/ Cardinality(links[b][l]) = IF l = 0 THEN M0 ELSE M

(* A node that shares a layer with another has a neighbour on it: a walk   *)
(* that arrives can go on.  (hnsw.rs:250)                                  *)
NoDeadEnds ==
    node = 0 =>
        \A a \in 1..pushed, l \in Layers :
            (\E b \in 1..pushed : b # a /\ l <= levels[a] /\ l <= levels[b])
                => links[a][l] # {}

(* At every step of a beam search its results are the closest of all nodes *)
(* it has seen, as many as the beam is wide.  (hnsw.rs:353)                *)
BeamKeepsClosest ==
    \A s \in visited \ results :
        Cardinality(results) >= Ef /\ \A r \in results : D(r) <= D(s)

(* While no list had to be cut and the beam is wide enough for all of the  *)
(* graph, a query gives what the exact scan gives.  (hnsw.rs:455)          *)
WideBeamIsExact ==
    pc = "ready" /\ k > 0 /\ Len(vectors) <= M0 + 1 /\ Len(vectors) <= Ef
        => answer \in TopHits(q, Nodes, k)

(* Insertions and queries return: the greedy walk only ever gets closer.   *)
(* (hnsw.rs:286)                                                           *)
CallsReturn == pc \in {"descend", "beam", "link"} ~> pc \in {"build", "ready"}
=============================================================================
