------------------------------ MODULE Binding ------------------------------
(***************************************************************************)
(* The clients of the store: the python binding (crates/python/src/lib.rs) *)
(* and its connect (omendb_vector/__init__.py), and, with autocommit, the  *)
(* batch verb of the engine (Store::add).  Python opens the store without  *)
(* autocommit.                                                             *)
(*                                                                         *)
(* A call takes a batch and hands its items to the store one after the     *)
(* other; an item that cannot be converted, or that the store refuses,     *)
(* ends the call where it is.  The failures of the disk are in Store.      *)
(***************************************************************************)
EXTENDS Query

CONSTANTS
    Clients,        \* what clients do: [calls, asks], the batches they make
                    \* and the metrics they connect with, None for none
    Wheres,         \* the where= arguments of their queries
    TextQueries     \* and the texts they look for

VARIABLES
    client,         \* the one there is
    asked,          \* the metric that connect sets next, or None
    call,           \* the batch call in progress: [verb, items], or None
    taken,          \* how many of its items the store has taken
    before          \* history: what get showed for each id when it began

binding == <<asked, call, taken, before>>
bvars == <<vars, client, binding>>

-----------------------------------------------------------------------------
(* Conversions.  A python value is [kind, v]; a bool is an int where an    *)
(* int is asked for, and an int no i64 holds is asked for as a float, as   *)
(* long as there is one; the float that is not a number has a kind of its  *)
(* own.  The result has one element, or none if it is refused.             *)

IsInt(x) == x.kind \in {"int", "bool"}

(* py_to_id *)
ToId(x) ==
    IF IsInt(x) THEN {x.v} \cap IntIds \cap Int64
    ELSE IF x.kind = "str" THEN {x.v} \cap (Ids \ IntIds)
    ELSE {}
FromId(id) == [kind |-> IF id \in IntIds THEN "int" ELSE "str", v |-> id]

(* to_meta_value, from_meta_value *)
ToMeta(x) ==
    IF IsInt(x) /\ x.v \in Int64 THEN {IntOf(x.v)}
    ELSE IF IsInt(x) THEN {FloatOf(f) : f \in {Nearest(2 * x.v)} \cap Floats}
    ELSE IF x.kind = "float" THEN {FloatOf(x.v)}
    ELSE IF x.kind = "nan" THEN {NaN}
    ELSE IF x.kind \in {"str", "bytes"} THEN {x}
    ELSE {}
FromMeta(x) ==
    [kind |-> CASE x.kind = "Int" -> "int" [] x.kind = "Float" -> "float" [] x.kind = "NaN" -> "nan"
                [] OTHER -> x.kind,
     v |-> x.v]
(* parse_num *)
ToNum(x) == {y \in ToMeta(x) : y.kind \in {"Int", "Float", "NaN"}}

(* The record of an item [id, dim, score, text, meta] of add.  Metadata is *)
(* a set of pairs of a key and a python value, one of each key.            *)
ToRecord(item) ==
    IF \E p \in item.meta : ToMeta(p[2]) = {} THEN {}
    ELSE {[id |-> id, dim |-> item.dim,
           val |-> [score |-> item.score, text |-> item.text,
                    meta |-> UNION {{<<p[1], x>> : x \in ToMeta(p[2])} : p \in item.meta}]] :
             id \in ToId(item.id)}

(* What a client gives in: batches of python values, with the lengths and  *)
(* the contents that this instance has, and metrics.                       *)
PyValue(x) == x = [kind |-> x.kind, v |-> x.v] /\ (x.kind = "nan" => x.v = NaN.v)
PyItem(item) ==
    /\ PyValue(item.id)
    /\ \A p \in item.meta : PyValue(p[2])
    /\ \A r \in ToRecord(item) : r.dim \in Dims /\ r.val \in Vals

(* What is stored of a value. *)
MetaValue(x) ==
    \/ x = NaN
    \/ /\ x = [kind |-> x.kind, v |-> x.v]
       /\ x.kind \in {"Int", "Float", "str", "bytes"}
       /\ x.kind = "Int" => x.v \in Int64

(* A range is asked for with numbers; with others it is an error when a    *)
(* record is matched (module Where).                                       *)
WhereOK(w) ==
    w.form = "list" => \A spec \in w.specs : spec.op = "range" => "nan" \notin {spec.lo.kind, spec.hi.kind}

ASSUME ClientAssumption ==
    /\ \A k \in Clients :
        /\ k.asks \subseteq Metrics \cup {None}
        /\ \A c \in k.calls :
              /\ c # None /\ c.verb \in {"add", "delete"}
              /\ IsSeq(c.items)
              /\ c.verb = "add" => \A i \in DOMAIN c.items : PyItem(c.items[i])
    /\ \A v \in Vals : \A p \in v.meta : MetaValue(p[2])
    /\ \A w \in Wheres : WhereOK(w)
    /\ \A query \in TextQueries : IsSeq(query)

(* record_dict, and get of one id. *)
RecordDict(e) ==
    [id |-> FromId(e.rec.id), score |-> Score(e), text |-> e.rec.val.text,
     meta |-> {<<p[1], FromMeta(p[2])>> : p \in e.rec.val.meta}]
Shown(id) == {RecordDict(e) : e \in Get(id)}

(* coerce_where and build_filter; a string is parsed in module Where. *)
PredicateOf(spec) ==
    CASE spec.op = "eq" -> {Equal(spec.field, x) : x \in ToMeta(spec.value)}
      [] spec.op = "in" ->
            IF \E v \in spec.values : ToMeta(v) = {} THEN {}
            ELSE {In(spec.field, UNION {ToMeta(v) : v \in spec.values})}
      [] spec.op = "range" ->
            {InRange(spec.field, lo, hi) : lo \in ToNum(spec.lo), hi \in ToNum(spec.hi)}
      [] spec.op = "present" -> {Present(spec.field)}
SpecsOf(w) ==
    IF w.form = "dict" THEN {[op |-> "eq", field |-> p[1], value |-> p[2]] : p \in w.pairs}
    ELSE w.specs
Conjunction(specs) ==
    IF \E spec \in specs : PredicateOf(spec) = {} THEN {}
    ELSE {UNION {PredicateOf(spec) : spec \in specs}}
CoerceWhere(w) == Conjunction(SpecsOf(w))

-----------------------------------------------------------------------------
(* Opening *)

(* Store.open, and connect up to set_metric. *)
BeginConnect ==
    /\ Open
    /\ asked' \in client.asks
    /\ UNCHANGED <<client, call, taken, before>>

LockMetric ==
    /\ asked # None
    /\ SetMetric(asked)
    /\ asked' = None
    /\ UNCHANGED <<client, call, taken, before>>

NoCall ==
    /\ asked' = None
    /\ call' = None
    /\ taken' = 0
    /\ before' = [id \in Ids |-> {}]
    /\ UNCHANGED client

(* Another metric than the locked one raises, and the store is dropped. *)
RefuseMetric ==
    /\ pc = "idle"
    /\ asked # None
    /\ metric \notin {None, asked}
    /\ Exit
    /\ NoCall

-----------------------------------------------------------------------------
(* Batches *)

Ready == Idle /\ asked = None /\ call = None

(* An item that no record comes from is a python value. *)
Begin(c) ==
    /\ Ready
    /\ autocommit /\ c.verb = "add" => \A i \in DOMAIN c.items : ToRecord(c.items[i]) # {}
    /\ call' = c
    /\ taken' = 0
    /\ before' = [id \in Ids |-> Shown(id)]
    /\ UNCHANGED <<vars, client, asked>>

Running == Idle /\ call # None
Exhausted == taken = Len(call.items)
Item == call.items[taken + 1]

TakeItem ==
    /\ Running /\ ~Exhausted
    /\ \/ call.verb = "add" /\ \E r \in ToRecord(Item) : Upsert(r.id, r.dim, r.val)
       \/ call.verb = "delete" /\ \E id \in ToId(Item) : Delete(id)
    /\ taken' = (IF fenced' THEN taken ELSE taken + 1)
    /\ UNCHANGED <<client, asked, call, before>>

Refused ==
    \/ call.verb = "add" /\ \A r \in ToRecord(Item) : ~SchemaAllows(r.id, r.dim)
    \/ call.verb = "delete" /\ \A id \in ToId(Item) : ~IsLive(id)

(* The call raises: the items before the one at fault stay taken. *)
Raise ==
    /\ pc = "idle" /\ call # None
    /\ fenced \/ (~Exhausted /\ Refused)
    /\ NoCall
    /\ UNCHANGED vars

(* The call returns; Store::add once more under autocommit. *)
Return ==
    /\ Running /\ Exhausted
    /\ IF autocommit /\ call.verb = "add" THEN Commit ELSE UNCHANGED vars
    /\ NoCall

-----------------------------------------------------------------------------
(* The client rolls back only where RollbackKeeps (module Store) says that *)
(* no committed record is lost with it.                                    *)
BindingInit == Init /\ client \in Clients /\ asked = None /\ call = None /\ taken = 0
               /\ before = [id \in Ids |-> {}]

BindingNext ==
    \/ BeginConnect
    \/ LockMetric
    \/ RefuseMetric
    \/ \E c \in client.calls : Begin(c)
    \/ TakeItem
    \/ Raise
    \/ Return
    \/ /\ \/ Ready /\ Commit
          \/ Ready /\ Checkpoint
          \/ Ready /\ RollbackKeeps /\ Rollback
          \/ Autocommit
          \/ RebuildPublish
          \/ RebuildGc
          \/ Seal
          \/ Publish
          \/ Swap
          \/ GcSegments
       /\ UNCHANGED <<client, binding>>
    \/ Exit /\ NoCall

BindingSpec == BindingInit /\ [][BindingNext]_bvars

-----------------------------------------------------------------------------
(* Queries of the binding: PyStore::search takes the plain scan when there *)
(* is no filter.                                                           *)

PySearch(corpus, k, filter) ==
    IF filter = {} THEN {{Hit(e, Score(e)) : e \in hits} : hits \in TopK(corpus.view, k)}
    ELSE LET path == FilteredTopK(corpus.view, k, filter)
         IN  {{path[i] : i \in DOMAIN path}}

(* The filters of a client: those of Wheres, and for each record the dict  *)
(* of its own metadata.                                                    *)
OwnDict(id) == {[form |-> "dict", pairs |-> d.meta] : d \in Shown(id)}
Filters == UNION {CoerceWhere(w) : w \in Wheres \cup UNION {OwnDict(id) : id \in Ids}}

Ks == 1..MaxK

-----------------------------------------------------------------------------
(* A batch is applied item by item, the last of an id wins, and a call     *)
(* that raises leaves exactly the items before the one at fault: what get  *)
(* shows afterwards, whatever tier it comes from, is what the client gave  *)
(* in, but for the rounding of an int that no i64 holds.  (PyStore::add,   *)
(* PyStore::delete, Store::add)                                            *)
PyNumber(x) == IF x.kind = "float" THEN x.v ELSE IF x.v \in Int64 THEN 2 * x.v ELSE Nearest(2 * x.v)
PyEqual(x, y) ==
    IF IsInt(x) \/ x.kind = "float"
    THEN (IsInt(y) \/ y.kind = "float") /\ PyNumber(x) = PyNumber(y)
    ELSE x = y
SameDict(d, item) ==
    /\ PyEqual(d.id, item.id)
    /\ d.score = item.score /\ d.text = item.text
    /\ \A p \in d.meta : \E q \in item.meta : p[1] = q[1] /\ PyEqual(p[2], q[2])
    /\ {p[1] : p \in d.meta} = {q[1] : q \in item.meta}

Writes(i, id) ==
    id \in ToId(IF call.verb = "add" THEN call.items[i].id ELSE call.items[i])
ShowsLast(shown, id, writes) ==
    IF writes = {} THEN shown = before[id]
    ELSE IF call.verb = "delete" THEN shown = {}
    ELSE \E i \in writes, d \in shown :
            shown = {d} /\ SameDict(d, call.items[i]) /\ \A j \in writes : j <= i
ShowsLastOf(shown, id) == ShowsLast(shown, id, {i \in 1..taken : Writes(i, id)})

CallEnds == call # None /\ call' = None /\ up'
BatchAppliesPrefix == [][CallEnds => \A id \in Ids : ShowsLastOf(Shown(id)', id)]_bvars

(* The metric is "fixed for the collection once set (persists in the       *)
(* manifest)": once a checkpoint has published it, no later open, rebuild  *)
(* or connect gives the collection another.  (__init__.py:32)              *)
MetricFixed ==
    [][manifest # None /\ manifest.metric # None =>
          /\ manifest' # None /\ manifest'.metric = manifest.metric
          /\ pc' = "idle" => metric' = manifest.metric]_bvars

(* A filter binds every path: the filtered scan has the k best of the      *)
(* records that match, no path and no fusion of paths has a hit that does  *)
(* not, and none is missing because records that do not match came before  *)
(* it.  A record's own metadata find it, but for what is not a number,     *)
(* which is equal to nothing.  (store.rs:737, store.rs:815)                *)
IdsIn(hits) == {h.id : h \in hits}
IdsOf(es) == {e.rec.id : e \in es}
HitIds(path) == {path[i].id : i \in DOMAIN path}

ScanBound(corpus, filter, eligible) ==
    \A k \in Ks : \A hits \in PySearch(corpus, k, filter) :
        \E best \in TopK(eligible, k) : IdsIn(hits) = IdsOf(best)
FusionBound(eligible, paths, fused) ==
    /\ HitIds(fused) \subseteq IdsOf(eligible)
    /\ HitIds(fused) = UNION {HitIds(paths[p]) : p \in DOMAIN paths}
PathsBound(eligible, paths) ==
    FusionBound(eligible, paths, RrfFuse(paths, Cardinality(eligible)))
FilterBound(corpus, filter, eligible) ==
    /\ ScanBound(corpus, filter, eligible)
    /\ \A query \in TextQueries, by \in Ways :
          PathsBound(eligible, Paths(by, corpus, query, MaxK, filter))
EveryFilterBound(corpus, filters) ==
    \A filter \in filters : FilterBound(corpus, filter, Matching(corpus.view, filter))

FilterBindsEveryPath ==
    Ready =>
        /\ EveryFilterBound(Corpus, Filters)
        /\ \A id \in Ids : \A w \in OwnDict(id) :
              \E filter \in CoerceWhere(w) :
                  id \in IdsOf(Matching(Merged(seg, l0), filter))
                  <=> \A p \in w.pairs : p[2].kind # "nan"

(* Where a record is does not matter: the paths that every deterministic   *)
(* query is made of have, from segment and L0, what they would have if the *)
(* log were replayed into one tier, scores, seqs and the order of ties     *)
(* included.  (store.rs:658, store.rs:713, "HashMap iteration order must   *)
(* never leak into scoring")                                               *)
BothPaths(corpus, query, filter) == Paths({"vector", "text"}, corpus, query, MaxK, filter)
OneTier(es) == [view |-> es, sealed |-> {}, fresh |-> es]
SameAnswers(tiered, untiered, filters) ==
    \A filter \in filters, query \in TextQueries :
        BothPaths(tiered, query, filter) = BothPaths(untiered, query, filter)

AnswersIgnoreTiers ==
    Ready => SameAnswers(Corpus, OneTier(Live(Replay(file, Len(file), 0))), Filters)

(* Fusion respects the paths: of two records, the one that is ahead of the *)
(* other in every path that has either is ahead of it in the answer.       *)
(* (rrf_fuse)                                                              *)
Place(hits, id) == CHOOSE i \in DOMAIN hits : hits[i].id = id
Missing(hits, id) == id \notin HitIds(hits)
Ahead(hits, a, b) == Missing(hits, b) \/ (~Missing(hits, a) /\ Place(hits, a) < Place(hits, b))

Respects(fused, paths) ==
    \A b \in HitIds(fused), a \in Ids :
        a # b /\ (\A p \in DOMAIN paths : Ahead(paths[p], a, b)) => Ahead(fused, a, b)
FusionRespects(paths) == Respects(RrfFuse(paths, MaxK), paths)

FusionRespectsPaths ==
    Ready =>
        \A query \in TextQueries, filter \in Filters : FusionRespects(BothPaths(Corpus, query, filter))
=============================================================================
